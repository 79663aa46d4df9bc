------------------------------ MODULE FoldProofs ------------------------------
(***************************************************************************)
(* What folds and sums over finite sets are.  Folds, FiniteSetsExt and     *)
(* SequencesExt define them as recursive functions, by CHOOSE; the lemmas  *)
(* say that there are such functions and what they return, by induction on *)
(* the number of elements.  A statement to be proved by induction is given *)
(* as the set of what it holds for.                                        *)
(***************************************************************************)
EXTENDS Integers, FiniteSetsExt, FiniteSetTheorems, TLAPS

\* What First takes of a set is any element.
First(s) == CHOOSE x \in s : TRUE

\* c takes an element of every subset of S.
Picks(c, S) == \A s \in SUBSET S : s # {} => c[s] \in s

\* What a fold returns for every subset of S, the elements being taken by c.
FoldOf(g, F, base, c, S) ==
  g = [s \in SUBSET S |-> IF s = {} THEN base ELSE F[<<c[s], g[s \ {c[s]}]>>]]

\* g is the sum of h over every subset of S.
SumOf(g, h, S) ==
  g = [s \in SUBSET S |-> IF s = {} THEN 0 ELSE h[First(s)] + g[s \ {First(s)}]]

\* So it is, whichever element is taken off first.
Adds(g, h, S) ==
  /\ g \in [SUBSET S -> Int]
  /\ g[{}] = 0
  /\ \A s \in SUBSET S : \A x \in s : g[s] = g[s \ {x}] + h[x]

-----------------------------------------------------------------------------
\* Induction over the natural numbers: if n were not in A, taking one off would map the
\* numbers up to n that are not in A to each other, one to one, so one of them to n.
LEMMA SetInduction ==
  ASSUME NEW A, 0 \in A, \A n \in Nat : n \in A => n + 1 \in A
  PROVE Nat \subseteq A
<1> SUFFICES ASSUME NEW n \in Nat, n \notin A PROVE FALSE
  OBVIOUS
<1> DEFINE T == {m \in 0 .. n : m \notin A}
           f == [m \in T |-> m - 1]
<1>1. IsFiniteSet(T)
  <2>1. IsFiniteSet(0 .. n)
    BY FS_Interval
  <2> QED BY <2>1, FS_Subset
<1>2. \A m \in T : m - 1 \in T
  OBVIOUS
<1>3. f \in Injection(T, T)
  BY <1>2 DEF Injection, IsInjective
<1>4. f \in Surjection(T, T)
  <2> HIDE DEF f, T
  <2> QED BY <1>1, <1>3, FS_Injection
<1>5. n \in T
  OBVIOUS
<1>6. \E m \in T : f[m] = n
  BY <1>4, <1>5 DEF Surjection
<1> QED BY <1>6

\* Induction over the subsets of a finite set, by their elements.
LEMMA SubsetInduction ==
  ASSUME NEW S, IsFiniteSet(S), NEW A,
         \A T \in SUBSET S : (\A x \in T : T \ {x} \in A) => T \in A
  PROVE  SUBSET S \subseteq A
<1> DEFINE N == {n \in Nat : \A T \in SUBSET S : Cardinality(T) = n => T \in A}
<1>0. \A T \in SUBSET S : IsFiniteSet(T) /\ Cardinality(T) \in Nat
  BY FS_Subset, FS_CardinalityType
<1>1. 0 \in N
  <2> SUFFICES ASSUME NEW T \in SUBSET S, Cardinality(T) = 0 PROVE T \in A
    OBVIOUS
  <2>1. T = {}
    BY <1>0, FS_EmptySet
  <2> QED BY <2>1
<1>2. ASSUME NEW n \in Nat, n \in N PROVE n + 1 \in N
  <2> SUFFICES ASSUME NEW T \in SUBSET S, Cardinality(T) = n + 1 PROVE T \in A
    OBVIOUS
  <2>1. ASSUME NEW x \in T PROVE T \ {x} \in A
    <3>1. Cardinality(T \ {x}) = Cardinality(T) - 1 /\ T \ {x} \in SUBSET S
      BY <1>0, FS_RemoveElement
    <3> QED BY <1>2, <3>1
  <2> QED BY <2>1
<1>3. Nat \subseteq N
  <2> HIDE DEF N
  <2> QED BY <1>1, <1>2, SetInduction
<1> QED BY <1>0, <1>3

\* The same, by the first element.
LEMMA FirstInduction ==
  ASSUME NEW S, IsFiniteSet(S), NEW A, {} \in A,
         \A s \in SUBSET S : s # {} /\ s \ {First(s)} \in A => s \in A
  PROVE  SUBSET S \subseteq A
<1>1. ASSUME NEW T \in SUBSET S, \A x \in T : T \ {x} \in A PROVE T \in A
  <2>1. T # {} => First(T) \in T
    BY DEF First
  <2> QED BY <1>1, <2>1
<1> QED BY <1>1, SubsetInduction

\* What is returned for every subset, by the first element.
LEMMA FirstTyped ==
  ASSUME NEW S, IsFiniteSet(S), NEW V, NEW g, g[{}] \in V,
         \A s \in SUBSET S : s # {} /\ g[s \ {First(s)}] \in V => g[s] \in V
  PROVE  \A s \in SUBSET S : g[s] \in V
<1> DEFINE A == {s \in SUBSET S : g[s] \in V}
<1>1. {} \in A /\ \A s \in SUBSET S : s # {} /\ s \ {First(s)} \in A => s \in A
  OBVIOUS
<1>2. SUBSET S \subseteq A
  <2> HIDE DEF A
  <2> QED BY <1>1, FirstInduction
<1> QED BY <1>2

-----------------------------------------------------------------------------
\* There is a function that folds F.
LEMMA FoldExists ==
  ASSUME NEW S, IsFiniteSet(S), NEW c, Picks(c, S), NEW V, NEW base \in V, NEW F \in [S \X V -> V]
  PROVE  \E g \in [SUBSET S -> V] : FoldOf(g, F, base, c, S)
<1> DEFINE Small(n) == {s \in SUBSET S : Cardinality(s) <= n}
           Good(g, n) ==
             \A s \in Small(n) : g[s] = IF s = {} THEN base ELSE F[<<c[s], g[s \ {c[s]}]>>]
           N == {n \in Nat : \E g \in [Small(n) -> V] : Good(g, n)}
<1>0. \A T \in SUBSET S : IsFiniteSet(T) /\ Cardinality(T) \in Nat
  BY FS_Subset, FS_CardinalityType
<1>a. \A s \in SUBSET S : s # {} => c[s] \in s /\ c[s] \in S
  BY DEF Picks
<1>b. ASSUME NEW n \in Nat, NEW s \in Small(n), s # {}
      PROVE  s \ {c[s]} \in Small(n) /\ Cardinality(s \ {c[s]}) = Cardinality(s) - 1
  <2>1. Cardinality(s \ {c[s]}) = Cardinality(s) - 1
    BY <1>0, <1>a, <1>b, FS_RemoveElement
  <2> QED BY <1>0, <2>1
<1>1. 0 \in N
  <2>1. \A s \in Small(0) : s = {}
    BY <1>0, FS_EmptySet
  <2>2. [s \in Small(0) |-> base] \in [Small(0) -> V] /\ Good([s \in Small(0) |-> base], 0)
    BY <2>1
  <2> QED BY <2>2
<1>2. ASSUME NEW n \in Nat, n \in N PROVE n + 1 \in N
  <2>1. PICK g \in [Small(n) -> V] : Good(g, n)
    BY <1>2
  <2> DEFINE Step(s) == IF s = {} THEN base ELSE F[<<c[s], g[s \ {c[s]}]>>]
             h == [s \in Small(n + 1) |-> Step(s)]
  <2>2. \A s \in Small(n + 1) : s # {} => s \ {c[s]} \in Small(n)
    BY <1>0, <1>b
  <2>3. h \in [Small(n + 1) -> V]
    BY <1>a, <2>2
  <2>4. \A s \in Small(n) : s \in Small(n + 1) /\ h[s] = g[s]
    BY <1>0, <2>1
  <2>5. Good(h, n + 1)
    BY <2>2, <2>4
  <2> HIDE DEF h, Good, Small
  <2>6. \E x \in [Small(n + 1) -> V] : Good(x, n + 1)
    BY <2>3, <2>5
  <2> QED BY <2>6
<1>3. Nat \subseteq N
  <2> HIDE DEF N
  <2> QED BY <1>1, <1>2, SetInduction
<1>4. PICK g \in [Small(Cardinality(S)) -> V] : Good(g, Cardinality(S))
  BY <1>0, <1>3
<1>5. Small(Cardinality(S)) = SUBSET S
  BY <1>0, FS_Subset
<1> HIDE DEF Small
<1>6. /\ g \in [SUBSET S -> V]
      /\ \A s \in SUBSET S : g[s] = IF s = {} THEN base ELSE F[<<c[s], g[s \ {c[s]}]>>]
  BY <1>4, <1>5
<1> QED BY ONLY <1>6 DEF FoldOf

-----------------------------------------------------------------------------
\* First, as a function on the subsets of S.
Firsts(S) == [s \in SUBSET S |-> First(s)]

\* It takes elements.
LEMMA FirstPicks == ASSUME NEW S PROVE Picks(Firsts(S), S)
BY DEF Picks, Firsts, First

\* There is a function that sums h up.
LEMMA SumExists ==
  ASSUME NEW S, IsFiniteSet(S), NEW h \in [S -> Int]
  PROVE  \E g \in [SUBSET S -> Int] : SumOf(g, h, S)
<1> DEFINE F == [xv \in S \X Int |-> h[xv[1]] + xv[2]]
           c == Firsts(S)
<1>1. F \in [S \X Int -> Int]
  OBVIOUS
<1>2. PICK g \in [SUBSET S -> Int] : FoldOf(g, F, 0, c, S)
  <2>1. 0 \in Int /\ Picks(c, S)
    BY FirstPicks
  <2> HIDE DEF F, c
  <2>2. \E g \in [SUBSET S -> Int] : FoldOf(g, F, 0, c, S)
    BY ONLY <1>1, <2>1, IsFiniteSet(S), FoldExists
  <2> QED BY <2>2
<1>3. ASSUME NEW s \in SUBSET S, s # {}
      PROVE  c[s] = First(s) /\ F[<<First(s), g[s \ {First(s)}]>>] = h[First(s)] + g[s \ {First(s)}]
  <2>1. First(s) \in S
    BY <1>3 DEF First
  <2>2. g[s \ {First(s)}] \in Int
    OBVIOUS
  <2>3. \A x \in S, v \in Int : F[<<x, v>>] = h[x] + v
    OBVIOUS
  <2> HIDE DEF F
  <2> QED BY <2>1, <2>2, <2>3 DEF Firsts
<1> HIDE DEF F, c
<1>4. \A s \in SUBSET S : g[s] = IF s = {} THEN 0 ELSE h[First(s)] + g[s \ {First(s)}]
  <2>1. \A s \in SUBSET S : g[s] = IF s = {} THEN 0 ELSE F[<<c[s], g[s \ {c[s]}]>>]
    BY <1>2 DEF FoldOf
  <2> QED BY ONLY <1>3, <2>1
<1> QED BY <1>4 DEF SumOf

\* A sum of integers is one, and whichever element is taken off, the rest adds up.
LEMMA SumAdds ==
  ASSUME NEW S, IsFiniteSet(S), NEW h \in [S -> Int], NEW g, SumOf(g, h, S)
  PROVE  Adds(g, h, S)
<1> DEFINE A == {s \in SUBSET S :
                  /\ g[s] \in Int
                  /\ \A x \in s : g[s \ {x}] \in Int /\ g[s] = g[s \ {x}] + h[x]}
<1>0. g[{}] = 0 /\ DOMAIN g = SUBSET S
  BY DEF SumOf
<1>1. ASSUME NEW T \in SUBSET S, \A x \in T : T \ {x} \in A
      PROVE  T \in A
  <2>1. CASE T = {}
    BY <1>0, <2>1
  <2>2. CASE T # {}
    <3> DEFINE c == First(T)
    <3>1. c \in T
      BY <2>2 DEF First
    <3>2. g[T] = h[c] + g[T \ {c}] /\ g[T \ {c}] \in Int /\ h[c] \in Int
      BY <1>1, <2>2, <3>1 DEF SumOf
    <3> HIDE DEF c
    <3>3. ASSUME NEW x \in T, x # c PROVE g[T \ {x}] \in Int /\ g[T] = g[T \ {x}] + h[x]
      <4>1. T \ {c} \in A /\ T \ {x} \in A /\ h[x] \in Int
        BY <1>1, <3>1
      <4>2. (T \ {c}) \ {x} = (T \ {x}) \ {c} /\ x \in T \ {c} /\ c \in T \ {x}
        BY <3>1, <3>3
      <4>3. g[T \ {c}] = g[(T \ {c}) \ {x}] + h[x]
        BY <4>1, <4>2
      <4>4. g[T \ {x}] = g[(T \ {x}) \ {c}] + h[c] /\ g[T \ {x}] \in Int
        BY <4>1, <4>2
      <4>5. g[(T \ {x}) \ {c}] \in Int
        BY <4>1, <4>2
      <4> DEFINE rest == g[(T \ {x}) \ {c}]
      <4>6. rest \in Int /\ g[T \ {c}] = rest + h[x] /\ g[T \ {x}] = rest + h[c]
        BY <4>2, <4>3, <4>4, <4>5
      <4> HIDE DEF rest, A
      <4> QED BY <3>2, <4>1, <4>4, <4>6
    <3>4. g[T] \in Int /\ g[T] = g[T \ {c}] + h[c]
      BY <3>2
    <3>5. \A x \in T : g[T \ {x}] \in Int /\ g[T] = g[T \ {x}] + h[x]
      BY <3>2, <3>3, <3>4
    <3> QED BY <3>4, <3>5
  <2> QED BY <2>1, <2>2
<1>2. SUBSET S \subseteq A
  <2> HIDE DEF A
  <2> QED BY <1>1, SubsetInduction
<1>3. \A s \in SUBSET S : g[s] \in Int
  BY <1>2
<1>4. g \in [SUBSET S -> Int]
  BY <1>3 DEF SumOf
<1> QED BY <1>0, <1>2, <1>4 DEF Adds

\* On T, h is r where r is defined on it, and 0 elsewhere.
Extends(h, r, R, T) ==
  /\ \A x \in T \cap R : h[x] = r[x]
  /\ \A x \in T \ R : h[x] = 0

\* Two sums of the same, one of which leaves out zeros.
LEMMA SumSame ==
  ASSUME NEW S, NEW h, NEW g, Adds(g, h, S),
         NEW R, NEW r, NEW f, Adds(f, r, R),
         NEW T \in SUBSET S, IsFiniteSet(T),
         Extends(h, r, R, T)
  PROVE  g[T] = f[T \cap R]
<1> DEFINE A == {s \in SUBSET T : g[s] = f[s \cap R]}
<1>1. ASSUME NEW s \in SUBSET T, \A x \in s : s \ {x} \in A PROVE s \in A
  <2>1. CASE s = {}
    <3>1. s \cap R = {}
      BY <2>1
    <3> QED BY <2>1, <3>1 DEF Adds
  <2>2. CASE s # {}
    <3>1. PICK x \in s : TRUE
      BY <2>2
    <3>2. g[s \ {x}] = f[(s \ {x}) \cap R] /\ s \in SUBSET S /\ s \ {x} \in SUBSET S
      BY <1>1
    <3>3. g[s] = g[s \ {x}] + h[x] /\ g[s \ {x}] \in Int
      BY <3>2 DEF Adds
    <3>4. CASE x \in R
      <4>1. s \cap R \in SUBSET R /\ x \in s \cap R /\ (s \ {x}) \cap R = (s \cap R) \ {x}
        BY <3>4
      <4>2. f[s \cap R] = f[(s \cap R) \ {x}] + r[x]
        BY <4>1 DEF Adds
      <4>3. h[x] = r[x]
        BY <3>4 DEF Extends
      <4> QED BY <3>2, <3>3, <4>1, <4>2, <4>3
    <3>5. CASE x \notin R
      <4>1. (s \ {x}) \cap R = s \cap R /\ x \in T \ R
        BY <3>5
      <4>2. h[x] = 0
        BY <4>1 DEF Extends
      <4>3. g[s] = g[s \ {x}]
        BY <3>3, <4>2
      <4>4. f[s \cap R] = f[(s \ {x}) \cap R]
        BY <4>1, Zenon
      <4> QED BY <3>2, <4>3, <4>4
    <3> QED BY <3>4, <3>5
  <2> QED BY <2>1, <2>2
<1>2. SUBSET T \subseteq A
  <2> HIDE DEF A
  <2> QED BY <1>1, SubsetInduction
<1> QED BY <1>2

\* A sum of zeros.
LEMMA SumZero ==
  ASSUME NEW S, NEW h, NEW g, Adds(g, h, S), NEW T \in SUBSET S, IsFiniteSet(T),
         \A x \in T : h[x] = 0
  PROVE  g[T] = 0
<1> DEFINE A == {s \in SUBSET T : g[s] = 0}
<1>1. ASSUME NEW s \in SUBSET T, \A x \in s : s \ {x} \in A PROVE s \in A
  <2>1. CASE s = {}
    BY <2>1 DEF Adds
  <2>2. CASE s # {}
    <3>1. PICK x \in s : TRUE
      BY <2>2
    <3>2. g[s] = g[s \ {x}] + h[x] /\ g[s \ {x}] = 0 /\ h[x] = 0
      BY <1>1 DEF Adds
    <3> QED BY <3>2
  <2> QED BY <2>1, <2>2
<1>2. SUBSET T \subseteq A
  <2> HIDE DEF A
  <2> QED BY <1>1, SubsetInduction
<1> QED BY <1>2

\* A sum of natural numbers.
LEMMA SumNat ==
  ASSUME NEW S, IsFiniteSet(S), NEW h \in [S -> Nat], NEW g, Adds(g, h, S)
  PROVE  \A s \in SUBSET S : g[s] \in Nat
<1> DEFINE A == {s \in SUBSET S : g[s] \in Nat}
<1>1. ASSUME NEW s \in SUBSET S, \A x \in s : s \ {x} \in A PROVE s \in A
  <2>1. CASE s = {}
    BY <2>1 DEF Adds
  <2>2. CASE s # {}
    <3>1. PICK x \in s : TRUE
      BY <2>2
    <3>2. g[s] = g[s \ {x}] + h[x] /\ g[s \ {x}] \in Nat /\ h[x] \in Nat
      BY <1>1 DEF Adds
    <3> QED BY <3>2
  <2> QED BY <2>1, <2>2
<1>2. SUBSET S \subseteq A
  <2> HIDE DEF A
  <2> QED BY <1>1, SubsetInduction
<1> QED BY <1>2
=============================================================================
