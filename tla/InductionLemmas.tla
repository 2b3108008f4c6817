---------------------------- MODULE InductionLemmas ----------------------------
(***************************************************************************)
(* Induction and recursion over data, for the components' proofs.         *)
(*                                                                         *)
(* Counting is induction on the natural numbers.  It speaks of sets where  *)
(* the library's theorem takes a predicate: were there a number outside    *)
(* the set, the well-foundedness of set inclusion would give a least one.  *)
(* From it follow that a value and a function to each next value make a    *)
(* function (RecursionExists), and what SumFunction of the community       *)
(* modules, a recursion over the subsets of a finite set in no particular  *)
(* order, gives when one of the numbers changes (SumChanges); what a fold  *)
(* over a sequence gives, which is such a recursion too (FoldIs); and what *)
(* FlattenSeq makes of a sequence that has one element more.               *)
(***************************************************************************)
EXTENDS Integers, SequencesExt, SequenceTheorems, FiniteSetTheorems, WellFoundedInduction, TLAPS

\* A set of numbers that has 0, and the next of each, has all.
LEMMA Counting ==
  ASSUME NEW S, 0 \in S, \A n \in Nat : n \in S => n + 1 \in S
  PROVE  Nat \subseteq S
<1> DEFINE below == {0 .. n - 1 : n \in Nat \ S}
<1> SUFFICES ASSUME Nat \ S # {} PROVE FALSE
  OBVIOUS
<1>1. below \subseteq FiniteSubsetsOf(Nat)
  <2> SUFFICES ASSUME NEW n \in Nat PROVE 0 .. n - 1 \in FiniteSubsetsOf(Nat)
    OBVIOUS
  <2>1. IsFiniteSet(0 .. n - 1)
    BY FS_Interval
  <2>2. 0 .. n - 1 \in SUBSET Nat
    OBVIOUS
  <2> QED BY <2>1, <2>2 DEF FiniteSubsetsOf
<1>2. below # {}
  OBVIOUS
<1>3. \E x \in below : \A y \in below : <<y, x>> \notin StrictSubsetOrdering(Nat)
  <2> HIDE DEF below
  <2> QED BY <1>1, <1>2, FS_StrictSubsetOrderingWellFounded, WFMin
<1>4. PICK m \in Nat \ S :
        \A n \in Nat \ S : <<0 .. n - 1, 0 .. m - 1>> \notin StrictSubsetOrdering(Nat)
  BY <1>3
<1>5. m # 0 /\ m - 1 \in Nat /\ m - 1 \notin S
  <2>1. m # 0 /\ m - 1 \in Nat /\ (m - 1) + 1 = m
    BY <1>4
  <2> QED BY <2>1, <1>4
<1>6. 0 .. (m - 1) - 1 \subseteq 0 .. m - 1 /\ m - 1 \in 0 .. m - 1
      /\ m - 1 \notin 0 .. (m - 1) - 1
  BY <1>5
<1>7. <<0 .. (m - 1) - 1, 0 .. m - 1>> \in StrictSubsetOrdering(Nat)
  BY <1>5, <1>6 DEF StrictSubsetOrdering
<1> QED BY <1>4, <1>5, <1>7

\* The same up to a number.
LEMMA CountingTo ==
  ASSUME NEW m \in Nat, NEW S, 0 \in S, \A n \in 1 .. m : n - 1 \in S => n \in S
  PROVE  0 .. m \subseteq S
<1> DEFINE T == {n \in Nat : n <= m => n \in S}
<1>1. 0 \in T
  OBVIOUS
<1>2. ASSUME NEW n \in Nat, n \in T PROVE n + 1 \in T
  <2> SUFFICES ASSUME n + 1 <= m PROVE n + 1 \in S
    OBVIOUS
  <2>1. n + 1 \in 1 .. m /\ (n + 1) - 1 = n /\ n <= m
    OBVIOUS
  <2> QED BY <1>2, <2>1
<1>3. Nat \subseteq T
  <2> HIDE DEF T
  <2> QED BY <1>1, <1>2, Counting
<1> QED BY <1>3

\* Of some numbers one is the least.
LEMMA LeastExists ==
  ASSUME NEW T \in SUBSET Nat, T # {}
  PROVE  \E x \in T : \A y \in T : x <= y
<1> SUFFICES ASSUME \A x \in T : \E y \in T : y < x PROVE FALSE
  <2>1. \A x, y \in T : x <= y \/ y < x
    OBVIOUS
  <2> QED BY <2>1
<1> DEFINE S == {n \in Nat : \A y \in T : n < y}
<1>1. 0 \in S
  <2>1. 0 \notin T
    OBVIOUS
  <2> QED BY <2>1
<1>2. ASSUME NEW n \in Nat, n \in S PROVE n + 1 \in S
  <2>1. \A y \in T : n + 1 <= y
    BY <1>2
  <2>2. n + 1 \notin T
    BY <2>1
  <2> QED BY <2>1, <2>2
<1>3. Nat \subseteq S
  <2> HIDE DEF S
  <2> QED BY <1>1, <1>2, Counting
<1>4. \A y \in T : y < y
  BY <1>3
<1>5. \A y \in T : ~(y < y)
  OBVIOUS
<1> QED BY <1>4, <1>5

-----------------------------------------------------------------------------
(* Recursion on numbers *)

\* f begins with base, and next[n] makes f[n] of the value before.
Follows(f, base, next, m) ==
  f[0] = base /\ \A n \in 1 .. m : f[n] = next[n][f[n - 1]]

\* A value and a way to the next make a function.
LEMMA RecursionExists ==
  ASSUME NEW R, NEW base \in R, NEW next \in [Nat -> [R -> R]], NEW m \in Nat
  PROVE  \E f \in [0 .. m -> R] : Follows(f, base, next, m)
<1> DEFINE Good == {n \in Nat : \E f \in [0 .. n -> R] : Follows(f, base, next, n)}
<1>1. 0 \in Good
  <2> DEFINE f == [i \in 0 .. 0 |-> base]
  <2>1. f \in [0 .. 0 -> R] /\ Follows(f, base, next, 0)
    BY DEF Follows
  <2> HIDE DEF f
  <2> QED BY <2>1
<1>2. ASSUME NEW n \in Nat, n \in Good PROVE n + 1 \in Good
  <2>1. PICK f \in [0 .. n -> R] : Follows(f, base, next, n)
    BY <1>2
  <2> DEFINE h == [i \in 0 .. n + 1 |-> IF i = n + 1 THEN next[n + 1][f[n]] ELSE f[i]]
  <2>2. n + 1 \in Nat /\ f[n] \in R /\ next[n + 1] \in [R -> R]
    OBVIOUS
  <2>3. h \in [0 .. n + 1 -> R]
    BY <2>2
  <2>4. h[0] = base
    BY <2>1 DEF Follows
  <2>5. ASSUME NEW i \in 1 .. n + 1 PROVE h[i] = next[i][h[i - 1]]
    <3>1. CASE i = n + 1
      <4>1. h[i - 1] = f[n] /\ h[i] = next[n + 1][f[n]]
        BY <3>1
      <4> QED BY <3>1, <4>1
    <3>2. CASE i # n + 1
      <4>1. i \in 1 .. n /\ i - 1 \in 0 .. n
        BY <3>2
      <4>2. h[i] = f[i] /\ h[i - 1] = f[i - 1]
        BY <4>1
      <4> QED BY <2>1, <4>1, <4>2 DEF Follows
    <3> QED BY <3>1, <3>2
  <2> HIDE DEF h
  <2>6. Follows(h, base, next, n + 1)
    BY <2>4, <2>5 DEF Follows
  <2> QED BY <2>2, <2>3, <2>6
<1>3. Nat \subseteq Good
  <2> HIDE DEF Good
  <2> QED BY <1>1, <1>2, Counting
<1> QED BY <1>3

-----------------------------------------------------------------------------
(* Sums *)

First(s) == CHOOSE x \in s : TRUE

\* g has the sum of f over each set of S.
Sums(g, f, S) ==
  g = [s \in SUBSET S |-> IF s = {} THEN 0 ELSE f[First(s)] + g[s \ {First(s)}]]

\* Of a finite set the parts have sizes, and less an element a smaller one.
LEMMA PartsAreSmaller ==
  ASSUME NEW S, IsFiniteSet(S), NEW s \in SUBSET S
  PROVE  /\ IsFiniteSet(s) /\ Cardinality(s) \in 0 .. Cardinality(S)
         /\ Cardinality(s) = 0 <=> s = {}
         /\ \A x \in s : Cardinality(s \ {x}) = Cardinality(s) - 1
         /\ s # {} => First(s) \in s
<1>1. IsFiniteSet(s) /\ Cardinality(s) <= Cardinality(S)
  BY FS_Subset
<1>2. Cardinality(s) \in Nat /\ Cardinality(S) \in Nat
  BY <1>1, FS_CardinalityType
<1>3. \A x \in s : Cardinality(s \ {x}) = Cardinality(s) - 1
  BY <1>1, FS_RemoveElement
<1>4. Cardinality(s) = 0 <=> s = {}
  BY <1>1, FS_EmptySet
<1>5. s # {} => First(s) \in s
  BY DEF First
<1> QED BY <1>1, <1>2, <1>3, <1>4, <1>5

\* The recursion has a solution.
LEMMA SumsExist ==
  ASSUME NEW S, IsFiniteSet(S), NEW f PROVE \E g : Sums(g, f, S)
<1> DEFINE Right(g, s) == g[s] = IF s = {} THEN 0 ELSE f[First(s)] + g[s \ {First(s)}]
           Good == {n \in Nat : \E g : /\ g = [s \in SUBSET S |-> g[s]]
                                       /\ \A s \in SUBSET S : Cardinality(s) <= n => Right(g, s)}
<1>1. 0 \in Good
  <2> DEFINE g == [s \in SUBSET S |-> 0]
  <2>1. \A s \in SUBSET S : Cardinality(s) <= 0 => Right(g, s)
    BY PartsAreSmaller
  <2>2. g = [s \in SUBSET S |-> g[s]]
    OBVIOUS
  <2> HIDE DEF g
  <2> QED BY <2>1, <2>2
<1>2. ASSUME NEW n \in Nat, n \in Good PROVE n + 1 \in Good
  <2>1. PICK g : \A s \in SUBSET S : Cardinality(s) <= n => Right(g, s)
    BY <1>2
  <2> DEFINE h == [s \in SUBSET S |-> IF Cardinality(s) <= n THEN g[s]
                                     ELSE f[First(s)] + g[s \ {First(s)}]]
  <2>2. ASSUME NEW s \in SUBSET S, Cardinality(s) <= n + 1 PROVE Right(h, s)
    <3>1. CASE s = {}
      <4>1. Cardinality(s) = 0
        BY <3>1, PartsAreSmaller
      <4>2. h[s] = g[s] /\ Right(g, s)
        BY <2>1, <4>1
      <4> QED BY <3>1, <4>2
    <3>2. CASE s # {}
      <4> DEFINE r == s \ {First(s)}
      <4>1. First(s) \in s /\ Cardinality(r) = Cardinality(s) - 1 /\ Cardinality(s) \in Nat
        BY <3>2, PartsAreSmaller
      <4>2. h[r] = g[r]
        BY <2>2, <4>1
      <4>3. h[s] = f[First(s)] + g[r]
        <5>1. CASE Cardinality(s) <= n
          BY <2>1, <3>2, <5>1
        <5>2. CASE ~(Cardinality(s) <= n)
          BY <5>2
        <5> QED BY <5>1, <5>2
      <4> QED BY <3>2, <4>2, <4>3
    <3> QED BY <3>1, <3>2
  <2>3. h = [s \in SUBSET S |-> h[s]]
    OBVIOUS
  <2> HIDE DEF h, Right
  <2>4. \E x : x = [s \in SUBSET S |-> x[s]]
               /\ \A s \in SUBSET S : Cardinality(s) <= n + 1 => Right(x, s)
    BY <2>2, <2>3
  <2>5. n + 1 \in Nat
    OBVIOUS
  <2> QED BY <2>4, <2>5, Zenon
<1>3. Nat \subseteq Good
  <2> HIDE DEF Good
  <2> QED BY <1>1, <1>2, Counting
<1>4. Cardinality(S) \in Good
  BY <1>3, FS_CardinalityType
<1>5. PICK g : /\ g = [s \in SUBSET S |-> g[s]]
               /\ \A s \in SUBSET S : Cardinality(s) <= Cardinality(S) => Right(g, s)
  BY <1>4
<1>6. \A s \in SUBSET S : Right(g, s)
  <2>1. \A s \in SUBSET S : Cardinality(s) <= Cardinality(S)
    BY PartsAreSmaller, FS_CardinalityType
  <2> HIDE DEF Right
  <2> QED BY <1>5, <2>1
<1> QED BY <1>5, <1>6 DEF Sums

\* Which element is taken first makes no difference.
LEMMA SumsLess ==
  ASSUME NEW S, IsFiniteSet(S), NEW f \in [S -> Int], NEW g, Sums(g, f, S)
  PROVE  \A s \in SUBSET S : g[s] \in Int /\ \A x \in s : g[s] = f[x] + g[s \ {x}]
<1> DEFINE Fine(s) == g[s] \in Int /\ \A x \in s : g[s] = f[x] + g[s \ {x}]
           Good == {n \in Nat : \A s \in SUBSET S : Cardinality(s) <= n => Fine(s)}
<1>0. /\ g[{}] = 0
      /\ \A s \in SUBSET S : s # {} => g[s] = f[First(s)] + g[s \ {First(s)}]
  BY DEF Sums
<1>1. 0 \in Good
  <2> SUFFICES ASSUME NEW s \in SUBSET S, Cardinality(s) <= 0 PROVE Fine(s)
    OBVIOUS
  <2>1. s = {}
    BY PartsAreSmaller
  <2> QED BY <1>0, <2>1
<1>2. ASSUME NEW n \in Nat, n \in Good PROVE n + 1 \in Good
  <2>a. n + 1 \in Nat
    OBVIOUS
  <2>b. Fine({})
    BY <1>0
  <2> SUFFICES ASSUME NEW s \in SUBSET S, Cardinality(s) <= n + 1, s # {} PROVE Fine(s)
    <3> HIDE DEF Fine
    <3> QED BY <2>a, <2>b
  <2>1. \A r \in SUBSET S : Cardinality(r) <= n => Fine(r)
    BY <1>2
  <2> HIDE DEF Good
  <2> DEFINE y == First(s)
  <2>2. y \in s /\ f[y] \in Int
    BY PartsAreSmaller
  <2>3. g[s] = f[y] + g[s \ {y}]
    BY <1>0
  <2> HIDE DEF y
  <2>4. ASSUME NEW x \in s PROVE Fine(s \ {x})
    <3>1. Cardinality(s \ {x}) = Cardinality(s) - 1 /\ Cardinality(s) \in Nat
      BY PartsAreSmaller
    <3>2. Cardinality(s \ {x}) <= n
      BY <3>1
    <3> HIDE DEF Fine
    <3> QED BY <2>1, <3>2
  <2>5. ASSUME NEW x \in s, x # y PROVE Fine((s \ {x}) \ {y})
    <3> DEFINE r == s \ {x}
    <3>1. Cardinality(r) = Cardinality(s) - 1 /\ Cardinality(s) \in Nat
      BY PartsAreSmaller
    <3>2. r \in SUBSET S /\ y \in r
      BY <2>2, <2>5
    <3> HIDE DEF r
    <3>3. Cardinality(r \ {y}) = Cardinality(r) - 1
      BY <3>2, PartsAreSmaller
    <3>4. Cardinality(r \ {y}) <= n
      BY <3>1, <3>3
    <3>5. Fine(r \ {y})
      <4> HIDE DEF Fine
      <4> QED BY <2>1, <3>2, <3>4
    <3> HIDE DEF Fine
    <3> QED BY <3>5 DEF r
  <2>6. g[s] \in Int
    BY <2>2, <2>3, <2>4
  <2>7. ASSUME NEW x \in s PROVE g[s] = f[x] + g[s \ {x}]
    <3>1. CASE x = y
      BY <2>3, <3>1
    <3>2. CASE x # y
      <4>1. g[s \ {y}] = f[x] + g[(s \ {y}) \ {x}]
        BY <2>2, <2>4, <3>2
      <4>2. g[s \ {x}] = f[y] + g[(s \ {x}) \ {y}]
        BY <2>2, <2>4, <3>2
      <4>3. (s \ {y}) \ {x} = (s \ {x}) \ {y}
        OBVIOUS
      <4>4. g[(s \ {x}) \ {y}] \in Int /\ f[x] \in Int
        BY <2>5, <3>2
      <4> DEFINE a == g[(s \ {x}) \ {y}]
                 b == g[s \ {x}]
                 d == g[s \ {y}]
      <4>5. g[s] = f[y] + d /\ d = f[x] + a /\ b = f[y] + a
        BY <2>3, <4>1, <4>2, <4>3
      <4> HIDE DEF a, b, d
      <4>6. g[s] = f[x] + b
        BY <4>4, <4>5, <2>2 DEF a
      <4> QED BY <4>6 DEF b
    <3> QED BY <3>1, <3>2
  <2> QED BY <2>6, <2>7
<1>3. Nat \subseteq Good
  <2> HIDE DEF Good
  <2> QED BY <1>1, <1>2, Counting
<1>4. ASSUME NEW s \in SUBSET S PROVE Fine(s)
  <2>1. Cardinality(s) \in Good
    BY <1>3, PartsAreSmaller, FS_CardinalityType
  <2> QED BY <2>1, PartsAreSmaller
<1> QED BY <1>4

\* Where two functions are the same, so are their sums.
LEMMA SumsAgree ==
  ASSUME NEW S, IsFiniteSet(S), NEW f \in [S -> Int], NEW d \in [S -> Int],
         NEW g, Sums(g, f, S), NEW h, Sums(h, d, S),
         NEW T \in SUBSET S, \A x \in T : f[x] = d[x]
  PROVE  g[T] = h[T]
<1> DEFINE Good == {n \in Nat : \A s \in SUBSET T : Cardinality(s) <= n => g[s] = h[s]}
<1>0. /\ g[{}] = 0 /\ h[{}] = 0
      /\ \A s \in SUBSET S : s # {} => /\ g[s] = f[First(s)] + g[s \ {First(s)}]
                                      /\ h[s] = d[First(s)] + h[s \ {First(s)}]
  BY DEF Sums
<1>1. 0 \in Good
  <2> SUFFICES ASSUME NEW s \in SUBSET T, Cardinality(s) <= 0 PROVE g[s] = h[s]
    OBVIOUS
  <2>1. s \in SUBSET S
    OBVIOUS
  <2>2. s = {}
    BY <2>1, PartsAreSmaller
  <2> QED BY <1>0, <2>2
<1>2. ASSUME NEW n \in Nat, n \in Good PROVE n + 1 \in Good
  <2>a. n + 1 \in Nat
    OBVIOUS
  <2> SUFFICES ASSUME NEW s \in SUBSET T, Cardinality(s) <= n + 1, s # {} PROVE g[s] = h[s]
    BY <1>0, <2>a
  <2>1. s \in SUBSET S
    OBVIOUS
  <2> DEFINE y == First(s)
  <2>2. y \in s /\ Cardinality(s \ {y}) = Cardinality(s) - 1 /\ Cardinality(s) \in Nat
    BY <2>1, PartsAreSmaller
  <2>3. g[s] = f[y] + g[s \ {y}] /\ h[s] = d[y] + h[s \ {y}]
    BY <1>0, <2>1
  <2> HIDE DEF y
  <2>4. g[s \ {y}] = h[s \ {y}]
    BY <1>2, <2>2
  <2> QED BY <2>2, <2>3, <2>4
<1>3. Nat \subseteq Good
  <2> HIDE DEF Good
  <2> QED BY <1>1, <1>2, Counting
<1>4. Cardinality(T) \in Good
  BY <1>3, PartsAreSmaller, FS_CardinalityType
<1>5. Cardinality(T) <= Cardinality(T)
  BY PartsAreSmaller, FS_CardinalityType
<1> QED BY <1>4, <1>5

\* The sum of a function is the sum of it over its domain.
LEMMA SumFacts ==
  ASSUME NEW S, IsFiniteSet(S), NEW f \in [S -> Int]
  PROVE  \E g : Sums(g, f, S) /\ SumFunction(f) = g[S]
<1> DEFINE G == CHOOSE g : Sums(g, f, S)
<1>1. Sums(G, f, S)
  BY SumsExist
<1>2. SumFunction(f) = G[S]
  BY DEF SumFunction, SumFunctionOnSet, FoldFunctionOnSet, MapThenFoldSet, Sums, First
<1> HIDE DEF G
<1> QED BY <1>1, <1>2

\* A sum is a number, and changes by as much as one of its numbers.
LEMMA SumChanges ==
  ASSUME NEW S, IsFiniteSet(S), NEW f \in [S -> Int], NEW k \in S, NEW v \in Int
  PROVE  /\ SumFunction(f) \in Int
         /\ SumFunction([f EXCEPT ![k] = v]) = SumFunction(f) - f[k] + v
<1> DEFINE d == [f EXCEPT ![k] = v]
<1>0. d \in [S -> Int] /\ \A x \in S \ {k} : f[x] = d[x]
  OBVIOUS
<1>d. d[k] = v
  OBVIOUS
<1> HIDE DEF d
<1>1. PICK g : Sums(g, f, S) /\ SumFunction(f) = g[S]
  BY SumFacts
<1>2. PICK h : Sums(h, d, S) /\ SumFunction(d) = h[S]
  BY <1>0, SumFacts
<1>3. g[S \ {k}] = h[S \ {k}]
  <2> DEFINE T == S \ {k}
  <2>1. T \in SUBSET S /\ \A x \in T : f[x] = d[x]
    BY <1>0
  <2> HIDE DEF T
  <2>2. g[T] = h[T]
    BY <1>0, <1>1, <1>2, <2>1, SumsAgree
  <2> QED BY <2>2 DEF T
<1>s. S \in SUBSET S /\ S \ {k} \in SUBSET S
  OBVIOUS
<1>4. g[S] \in Int /\ g[S] = f[k] + g[S \ {k}] /\ g[S \ {k}] \in Int
  <2>1. \A s \in SUBSET S : g[s] \in Int /\ \A x \in s : g[s] = f[x] + g[s \ {x}]
    BY <1>1, SumsLess
  <2> QED BY <1>s, <2>1
<1>5. h[S] = v + h[S \ {k}]
  <2>1. \A s \in SUBSET S : h[s] \in Int /\ \A x \in s : h[s] = d[x] + h[s \ {x}]
    <3>1. Sums(h, d, S) /\ d \in [S -> Int]
      BY <1>0, <1>2
    <3> QED BY <3>1, SumsLess
  <2> QED BY <1>s, <1>d, <2>1
<1>6. f[k] \in Int
  OBVIOUS
<1> DEFINE a == g[S]
           b == h[S]
           r == g[S \ {k}]
<1>7. a = f[k] + r /\ b = v + r /\ r \in Int
  BY <1>3, <1>4, <1>5
<1> HIDE DEF a, b, r
<1>8. b = a - f[k] + v
  BY <1>6, <1>7
<1> QED BY <1>1, <1>2, <1>4, <1>8 DEF a, b, d

\* Of zeros the sum is zero.
LEMMA SumOfNone ==
  ASSUME NEW S, IsFiniteSet(S)
  PROVE  SumFunction([k \in S |-> 0]) = 0
<1> DEFINE f == [k \in S |-> 0]
           z == [s \in SUBSET S |-> 0]
<1>0. f \in [S -> Int]
  OBVIOUS
<1>1. Sums(z, f, S)
  <2>1. ASSUME NEW s \in SUBSET S, s # {}
        PROVE  z[s] = f[First(s)] + z[s \ {First(s)}]
    <3>1. First(s) \in s
      BY <2>1 DEF First
    <3> QED BY <3>1
  <2> HIDE DEF f
  <2> QED BY <2>1 DEF Sums
<1> HIDE DEF f
<1>2. PICK g : Sums(g, f, S) /\ SumFunction(f) = g[S]
  BY <1>0, SumFacts
<1>3. S \in SUBSET S
  OBVIOUS
<1>4. g[S] = z[S]
  <2> HIDE DEF z
  <2> QED BY <1>0, <1>1, <1>2, <1>3, SumsAgree
<1>5. SumFunction(f) = 0
  BY <1>2, <1>4
<1> QED BY <1>5 DEF f

\* A sum of natural numbers is one.
LEMMA SumIsNatural ==
  ASSUME NEW S, IsFiniteSet(S), NEW f \in [S -> Nat] PROVE SumFunction(f) \in Nat
<1>0. f \in [S -> Int]
  OBVIOUS
<1>1. PICK g : Sums(g, f, S) /\ SumFunction(f) = g[S]
  BY <1>0, SumFacts
<1>2. /\ g[{}] = 0
      /\ \A s \in SUBSET S : s # {} => g[s] = f[First(s)] + g[s \ {First(s)}]
  BY <1>1 DEF Sums
<1> DEFINE Good == {n \in Nat : \A s \in SUBSET S : Cardinality(s) <= n => g[s] \in Nat}
<1>3. 0 \in Good
  <2> SUFFICES ASSUME NEW s \in SUBSET S, Cardinality(s) <= 0 PROVE g[s] \in Nat
    OBVIOUS
  <2>1. s = {}
    BY PartsAreSmaller
  <2> QED BY <1>2, <2>1
<1>4. ASSUME NEW n \in Nat, n \in Good PROVE n + 1 \in Good
  <2>a. n + 1 \in Nat
    OBVIOUS
  <2> SUFFICES ASSUME NEW s \in SUBSET S, Cardinality(s) <= n + 1, s # {} PROVE g[s] \in Nat
    BY <1>2, <2>a
  <2> DEFINE y == First(s)
  <2>1. y \in s /\ Cardinality(s \ {y}) = Cardinality(s) - 1 /\ Cardinality(s) \in Nat
    BY PartsAreSmaller
  <2>2. g[s] = f[y] + g[s \ {y}]
    BY <1>2
  <2> HIDE DEF y
  <2>3. g[s \ {y}] \in Nat /\ f[y] \in Nat
    BY <1>4, <2>1
  <2> QED BY <2>2, <2>3
<1>5. Nat \subseteq Good
  <2> HIDE DEF Good
  <2> QED BY <1>3, <1>4, Counting
<1>6. Cardinality(S) \in Good /\ Cardinality(S) <= Cardinality(S)
  BY <1>5, FS_CardinalityType
<1>7. g[S] \in Nat
  BY <1>6
<1> QED BY <1>1, <1>7

-----------------------------------------------------------------------------
(* Sequences of sequences *)

\* FlattenSeq puts its sequences one after the other.
LEMMA FlattenFacts ==
  ASSUME NEW S, NEW s \in Seq(Seq(S))
  PROVE  \E f \in [0 .. Len(s) -> Seq(S)] :
           /\ f[0] = <<>> /\ \A n \in 1 .. Len(s) : f[n] = f[n - 1] \o s[n]
           /\ FlattenSeq(s) = f[Len(s)]
<1> DEFINE m == Len(s)
           next == [n \in Nat |-> [r \in Seq(S) |-> IF n \in 1 .. m THEN r \o s[n] ELSE r]]
           Right(g) == g = [i \in 1 .. m |-> IF i = 1 THEN s[i] ELSE g[i - 1] \o s[i]]
           G == CHOOSE g : Right(g)
<1>0. m \in Nat /\ \A n \in 1 .. m : s[n] \in Seq(S)
  BY LenProperties
<1>1. <<>> \in Seq(S) /\ \A r \in Seq(S) : <<>> \o r = r
  BY EmptySeq, ConcatEmptySeq
<1>2. next \in [Nat -> [Seq(S) -> Seq(S)]]
  <2>1. ASSUME NEW n \in Nat, NEW r \in Seq(S)
        PROVE  (IF n \in 1 .. m THEN r \o s[n] ELSE r) \in Seq(S)
    BY <1>0, ConcatProperties
  <2> HIDE DEF m
  <2> QED BY <2>1
<1> HIDE DEF m
<1>3. PICK f \in [0 .. m -> Seq(S)] : Follows(f, <<>>, next, m)
  <2> HIDE DEF next
  <2> QED BY <1>0, <1>1, <1>2, RecursionExists
<1>4. f[0] = <<>> /\ \A n \in 1 .. m : f[n] = f[n - 1] \o s[n]
  <2>1. ASSUME NEW n \in 1 .. m PROVE f[n] = f[n - 1] \o s[n]
    <3>1. n \in Nat /\ n - 1 \in 0 .. m
      BY <1>0
    <3>2. next[n][f[n - 1]] = f[n - 1] \o s[n]
      BY <3>1
    <3> QED BY <1>3, <3>2 DEF Follows
  <2> QED BY <1>3, <2>1 DEF Follows
<1> HIDE DEF next
<1> DEFINE h == [i \in 1 .. m |-> f[i]]
<1>5. Right(h)
  <2>1. ASSUME NEW i \in 1 .. m PROVE f[i] = IF i = 1 THEN s[i] ELSE h[i - 1] \o s[i]
    <3>1. f[i] = f[i - 1] \o s[i] /\ s[i] \in Seq(S)
      BY <1>0, <1>4
    <3>2. CASE i = 1
      <4>1. f[i - 1] = <<>>
        BY <3>2, <1>4
      <4>2. <<>> \o s[i] = s[i]
        BY <3>1, <1>1
      <4> QED BY <3>1, <3>2, <4>1, <4>2
    <3>3. CASE i # 1
      <4>1. h[i - 1] = f[i - 1]
        BY <3>3, <1>0
      <4> QED BY <3>1, <3>3, <4>1
    <3> QED BY <3>2, <3>3
  <2> QED BY <2>1
<1>6. \A i \in 1 .. m : G[i] = IF i = 1 THEN s[i] ELSE G[i - 1] \o s[i]
  <2>1. Right(G)
    <3> HIDE DEF h, Right
    <3> QED BY <1>5
  <2> HIDE DEF G
  <2> QED BY <2>1
<1> HIDE DEF h, Right
<1>7. \A n \in 0 .. m : n # 0 => G[n] = f[n]
  <2> DEFINE T == {n \in Nat : n # 0 => G[n] = f[n]}
  <2> HIDE DEF G
  <2>1. 0 \in T
    OBVIOUS
  <2>2. ASSUME NEW n \in 1 .. m, n - 1 \in T PROVE n \in T
    <3>n. n \in Nat
      BY <1>0
    <3>0. f[n] = f[n - 1] \o s[n] /\ n \in Nat /\ s[n] \in Seq(S)
      BY <3>n, <1>0, <1>4, Zenon
    <3>1. CASE n = 1
      <4>1. f[n - 1] = <<>> /\ G[n] = s[n]
        BY <3>1, <1>4, <1>6
      <4>2. <<>> \o s[n] = s[n]
        BY <3>0, <1>1
      <4> QED BY <3>0, <4>1, <4>2
    <3>2. CASE n # 1
      <4>0. n - 1 \in Nat /\ n - 1 # 0 /\ n \in Nat
        BY <3>2, <1>0
      <4>1. G[n] = G[n - 1] \o s[n] /\ n - 1 \in Nat /\ n - 1 # 0 /\ n \in Nat
        BY <4>0, <3>2, <1>6, Zenon
      <4> QED BY <4>1, <2>2, <3>0
    <3> QED BY <3>1, <3>2
  <2>3. 0 .. m \subseteq T
    <3> HIDE DEF T
    <3> QED BY <2>1, <2>2, <1>0, CountingTo
  <2> QED BY <2>3
<1>8. FlattenSeq(s) = f[m]
  <2>1. CASE m = 0
    <3>1. s = <<>>
      BY <2>1, EmptySeq DEF m
    <3> QED BY <2>1, <3>1, <1>4 DEF FlattenSeq, m
  <2>2. CASE m # 0
    <3>1. FlattenSeq(s) = G[m]
      BY <2>2 DEF FlattenSeq, m, Right
    <3> QED BY <3>1, <2>2, <1>0, <1>7
  <2> QED BY <2>1, <2>2
<1> QED BY <1>4, <1>8 DEF m

\* One sequence more comes last.
LEMMA FlattenAppend ==
  ASSUME NEW S, NEW s \in Seq(Seq(S)), NEW x \in Seq(S)
  PROVE  /\ FlattenSeq(s) \in Seq(S)
         /\ FlattenSeq(Append(s, x)) = FlattenSeq(s) \o x
<1> DEFINE m == Len(s)
           a == Append(s, x)
<1>0. m \in Nat
  BY LenProperties
<1>1. /\ a \in Seq(Seq(S)) /\ Len(a) = m + 1 /\ a[m + 1] = x
      /\ \A i \in 1 .. m : a[i] = s[i]
  BY AppendProperties
<1>2. PICK f \in [0 .. m -> Seq(S)] :
        /\ f[0] = <<>> /\ \A n \in 1 .. m : f[n] = f[n - 1] \o s[n]
        /\ FlattenSeq(s) = f[m]
  BY FlattenFacts
<1> HIDE DEF a
<1>3. PICK g \in [0 .. m + 1 -> Seq(S)] :
        /\ g[0] = <<>> /\ \A n \in 1 .. m + 1 : g[n] = g[n - 1] \o a[n]
        /\ FlattenSeq(a) = g[m + 1]
  <2>1. \E g \in [0 .. Len(a) -> Seq(S)] :
           /\ g[0] = <<>> /\ \A n \in 1 .. Len(a) : g[n] = g[n - 1] \o a[n]
           /\ FlattenSeq(a) = g[Len(a)]
    BY <1>1, FlattenFacts
  <2> QED BY <1>1, <2>1
<1> HIDE DEF m
<1>4. g[m] = f[m]
  <2> DEFINE T == {n \in Nat : f[n] = g[n]}
  <2>1. 0 \in T
    BY <1>2, <1>3
  <2>2. ASSUME NEW n \in 1 .. m, n - 1 \in T PROVE n \in T
    <3>1. n \in 1 .. m + 1 /\ n \in Nat /\ f[n - 1] = g[n - 1] /\ a[n] = s[n]
      BY <2>2, <1>0, <1>1
    <3>2. f[n] = f[n - 1] \o s[n]
      BY <1>2
    <3>3. g[n] = g[n - 1] \o a[n]
      BY <3>1, <1>3
    <3> QED BY <3>1, <3>2, <3>3
  <2>3. 0 .. m \subseteq T
    <3> HIDE DEF T
    <3> QED BY <2>1, <2>2, <1>0, CountingTo
  <2> QED BY <2>3, <1>0
<1>5. FlattenSeq(a) = f[m] \o x
  <2>1. m + 1 \in 1 .. m + 1 /\ (m + 1) - 1 = m
    BY <1>0
  <2> QED BY <2>1, <1>1, <1>3, <1>4
<1> QED BY <1>0, <1>2, <1>5 DEF a

-----------------------------------------------------------------------------
(* Folds *)

\* Numbers up to m have a largest.
LEMMA MaxExists ==
  ASSUME NEW m \in Nat, NEW t \in SUBSET (1 .. m), t # {}
  PROVE  Max(t) \in t /\ \A y \in t : y <= Max(t)
<1> DEFINE T == {m - x : x \in t}
<1>1. T \in SUBSET Nat /\ T # {}
  <2>1. ASSUME NEW x \in t PROVE m - x \in Nat
    BY x \in 1 .. m
  <2>2. T \in SUBSET Nat
    BY <2>1
  <2>3. T # {}
    OBVIOUS
  <2> QED BY <2>2, <2>3
<1>2. PICK z \in T : \A y \in T : z <= y
  <2> HIDE DEF T
  <2> QED BY <1>1, LeastExists
<1>3. PICK x \in t : z = m - x
  BY <1>2
<1>4. ASSUME NEW y \in t PROVE x >= y
  <2>1. m - x <= m - y /\ x \in Int /\ y \in Int
    BY <1>2, <1>3
  <2> QED BY <2>1
<1>5. Max(t) \in t /\ \A y \in t : Max(t) >= y
  BY <1>3, <1>4 DEF Max
<1> QED BY <1>5

\* g folds each set of numbers up to m, the largest last.
Folds(g, base, next, m) ==
  /\ g[{}] = base
  /\ \A t \in SUBSET (1 .. m) : t # {} => g[t] = next[Max(t)][g[t \ {Max(t)}]]

\* A value and a way to the next make a fold: go through the numbers once, for
\* all sets together, and let each set take what is its own.
LEMMA FoldsExist ==
  ASSUME NEW R, NEW base \in R, NEW next \in [Nat -> [R -> R]], NEW m \in Nat
  PROVE  \E g \in [SUBSET (1 .. m) -> R] : Folds(g, base, next, m)
<1> DEFINE P == [SUBSET (1 .. m) -> R]
           zero == [t \in SUBSET (1 .. m) |-> base]
           One(n, h) == [t \in SUBSET (1 .. m) |-> IF n \in t THEN next[n][h[t]] ELSE h[t]]
           step == [n \in Nat |-> [h \in P |-> One(n, h)]]
<1>1. zero \in P
  OBVIOUS
<1>2. step \in [Nat -> [P -> P]]
  <2>1. ASSUME NEW n \in Nat, NEW h \in P PROVE One(n, h) \in P
    OBVIOUS
  <2> HIDE DEF P, One
  <2> QED BY <2>1
<1>3. PICK f \in [0 .. m -> P] : Follows(f, zero, step, m)
  <2> HIDE DEF P, zero, step
  <2> QED BY <1>1, <1>2, RecursionExists
<1>4. ASSUME NEW t \in SUBSET (1 .. m)
      PROVE  /\ f[0][t] = base
             /\ \A n \in 1 .. m : f[n][t] = IF n \in t THEN next[n][f[n - 1][t]] ELSE f[n - 1][t]
  <2>1. f[0][t] = base
    BY <1>3 DEF Follows
  <2>2. ASSUME NEW n \in 1 .. m
        PROVE  f[n][t] = IF n \in t THEN next[n][f[n - 1][t]] ELSE f[n - 1][t]
    <3>1. n - 1 \in 0 .. m /\ n \in Nat
      OBVIOUS
    <3>2. f[n - 1] \in P
      BY <3>1
    <3>3. f[n] = step[n][f[n - 1]]
      BY <1>3 DEF Follows
    <3>4. f[n] = One(n, f[n - 1])
      <4> HIDE DEF P, One
      <4> QED BY <3>1, <3>2, <3>3
    <3> QED BY <3>4
  <2> QED BY <2>1, <2>2
<1>5. \A n \in 0 .. m : f[n] \in P
  OBVIOUS
<1> HIDE DEF P, zero, step
<1>6. ASSUME NEW t \in SUBSET (1 .. m), NEW n \in 0 .. m, \A i \in t : i <= n
      PROVE  f[m][t] = f[n][t]
  <2> DEFINE T == {j \in Nat : j <= m /\ n <= j => f[j][t] = f[n][t]}
  <2>1. 0 \in T
    <3>1. n <= 0 => n = 0
      OBVIOUS
    <3> QED BY <3>1
  <2>2. ASSUME NEW j \in 1 .. m, j - 1 \in T PROVE j \in T
    <3>0. j \in Nat
      OBVIOUS
    <3> SUFFICES ASSUME n <= j PROVE f[j][t] = f[n][t]
      BY <3>0
    <3>1. CASE n = j
      BY <3>1
    <3>2. CASE n # j
      <4>1. n <= j - 1 /\ j - 1 <= m /\ j \notin t
        BY <3>2, <1>6
      <4>2. f[j][t] = f[j - 1][t]
        BY <4>1, <1>4
      <4> QED BY <4>1, <4>2, <2>2
    <3> QED BY <3>1, <3>2
  <2>3. 0 .. m \subseteq T
    <3> HIDE DEF T
    <3> QED BY <2>1, <2>2, CountingTo
  <2>4. m \in T
    <3>1. m \in 0 .. m
      OBVIOUS
    <3> HIDE DEF T
    <3> QED BY <3>1, <2>3
  <2> QED BY <2>4
<1>7. ASSUME NEW t \in SUBSET (1 .. m), NEW x \in t
      PROVE  f[x - 1][t] = f[x - 1][t \ {x}]
  <2> DEFINE u == t \ {x}
             T == {j \in Nat : j < x => f[j][t] = f[j][u]}
  <2>0. u \in SUBSET (1 .. m) /\ \A j \in 1 .. m : j < x => (j \in t <=> j \in u)
    OBVIOUS
  <2>n. x \in 1 .. m
    OBVIOUS
  <2> HIDE DEF u
  <2>1. 0 \in T
    BY <1>4, <2>0
  <2>2. ASSUME NEW j \in 1 .. m, j - 1 \in T PROVE j \in T
    <3>0. j \in Nat
      OBVIOUS
    <3> SUFFICES ASSUME j < x PROVE f[j][t] = f[j][u]
      BY <3>0
    <3>1. j - 1 < x /\ f[j - 1][t] = f[j - 1][u]
      BY <2>2, <2>n
    <3>2. f[j][t] = IF j \in t THEN next[j][f[j - 1][t]] ELSE f[j - 1][t]
      BY <1>4
    <3>3. f[j][u] = IF j \in u THEN next[j][f[j - 1][u]] ELSE f[j - 1][u]
      BY <1>4, <2>0
    <3> QED BY <3>1, <3>2, <3>3, <2>0
  <2>3. 0 .. m \subseteq T
    <3> HIDE DEF T
    <3> QED BY <2>1, <2>2, CountingTo
  <2>4. x - 1 \in T
    <3>1. x - 1 \in 0 .. m
      BY <2>n
    <3> HIDE DEF T
    <3> QED BY <3>1, <2>3
  <2> QED BY <2>4, <2>n DEF u
<1> DEFINE g == f[m]
<1>8. g \in [SUBSET (1 .. m) -> R]
  <2>1. m \in 0 .. m
    OBVIOUS
  <2> QED BY <2>1, <1>5 DEF P
<1>9. g[{}] = base
  <2>1. {} \in SUBSET (1 .. m) /\ 0 \in 0 .. m
    OBVIOUS
  <2> QED BY <2>1, <1>4, <1>6
<1>10. ASSUME NEW t \in SUBSET (1 .. m), t # {} PROVE g[t] = next[Max(t)][g[t \ {Max(t)}]]
  <2> DEFINE x == Max(t)
             u == t \ {x}
  <2>1. x \in t /\ \A i \in t : i <= x
    BY <1>10, MaxExists
  <2> HIDE DEF x
  <2>2. x \in 1 .. m /\ x \in 0 .. m /\ x - 1 \in 0 .. m
    BY <2>1
  <2>3. u \in SUBSET (1 .. m) /\ \A i \in u : i <= x - 1
    BY <2>1, <2>2
  <2>4. f[m][t] = f[x][t] /\ f[m][u] = f[x - 1][u]
    BY <2>1, <2>2, <2>3, <1>6
  <2>5. f[x][t] = next[x][f[x - 1][t]]
    BY <2>1, <2>2, <1>4
  <2>6. f[x - 1][t] = f[x - 1][u]
    BY <2>1, <1>7
  <2> QED BY <2>4, <2>5, <2>6 DEF x
<1> QED BY <1>8, <1>9, <1>10 DEF Folds

\* G folds the numbers up to n, for each n up to m, if what is before is in R.
FoldsInOrder(G, base, next, R, m) ==
  /\ G[{}] = base
  /\ \A n \in 1 .. m : G[1 .. n - 1] \in R => G[1 .. n] = next[n][G[1 .. n - 1]]

\* What folds the numbers up to m goes from each to the next.
LEMMA FoldIs ==
  ASSUME NEW R, NEW base \in R, NEW next \in [Nat -> [R -> R]], NEW m \in Nat,
         NEW G, FoldsInOrder(G, base, next, R, m)
  PROVE  \E f \in [0 .. m -> R] : Follows(f, base, next, m) /\ G[1 .. m] = f[m]
<1>0. PICK f \in [0 .. m -> R] : Follows(f, base, next, m)
  BY RecursionExists
<1> DEFINE T == {n \in Nat : n <= m => G[1 .. n] = f[n]}
<1>1. 0 \in T
  <2>1. 1 .. 0 = {}
    OBVIOUS
  <2> QED BY <1>0, <2>1 DEF Follows, FoldsInOrder
<1>2. ASSUME NEW n \in 1 .. m, n - 1 \in T PROVE n \in T
  <2>1. n - 1 <= m /\ n \in Nat /\ n - 1 \in 0 .. m
    OBVIOUS
  <2>2. G[1 .. n - 1] = f[n - 1]
    BY <2>1, <1>2
  <2>3. G[1 .. n] = next[n][f[n - 1]]
    BY <2>1, <2>2 DEF FoldsInOrder
  <2> QED BY <1>0, <2>1, <2>3 DEF Follows
<1>3. 0 .. m \subseteq T
  <2> HIDE DEF T
  <2> QED BY <1>1, <1>2, CountingTo
<1>4. m \in T
  <2>1. m \in 0 .. m
    OBVIOUS
  <2> HIDE DEF T
  <2> QED BY <2>1, <1>3
<1> QED BY <1>0, <1>4

\* Of the numbers up to n the largest is n, and the others are those before.
LEMMA UpTo ==
  ASSUME NEW m \in Nat, NEW n \in 1 .. m
  PROVE  /\ 1 .. n \in SUBSET (1 .. m) /\ 1 .. n # {}
         /\ Max(1 .. n) = n /\ (1 .. n) \ {n} = 1 .. n - 1
<1>1. 1 .. n \in SUBSET (1 .. m) /\ 1 .. n # {} /\ n \in 1 .. n
  OBVIOUS
<1>2. Max(1 .. n) \in 1 .. n /\ n <= Max(1 .. n)
  BY <1>1, MaxExists
<1> QED BY <1>1, <1>2
==============================================================================
