---------------------------- MODULE FiniteInduction ----------------------------
(***************************************************************************)
(* Induction over finite sets, numbers and sequences for the proofs of the *)
(* other modules, each as the absence of a smallest counterexample, and    *)
(* with it what the folds of the community modules and Max and Min are.    *)
(*                                                                         *)
(* The theorems of the library take a predicate as parameter, which the    *)
(* provers cannot instantiate; here the set G of what is good stands for   *)
(* it.                                                                     *)
(***************************************************************************)
EXTENDS Naturals, Sequences, FiniteSets, FiniteSetsExt, SequencesExt, FiniteSetTheorems,
        WellFoundedInduction, TLAPS

\* What holds of a set whenever it holds of its proper subsets holds of all finite sets.
LEMMA SubsetsAreGood ==
  ASSUME NEW S, IsFiniteSet(S), NEW G,
         \A T \in SUBSET S : (\A U \in SUBSET T : U # T => U \in G) => T \in G
  PROVE  \A T \in SUBSET S : T \in G
<1> SUFFICES ASSUME NEW B \in SUBSET S, B \notin G PROVE FALSE
  OBVIOUS
<1> DEFINE Bad == (SUBSET S) \ G
<1>1. Bad \subseteq FiniteSubsetsOf(S) /\ Bad # {}
  BY FS_Subset DEF FiniteSubsetsOf
<1>2. PICK T \in Bad : \A U \in Bad : ~(<<U, T>> \in StrictSubsetOrdering(S))
  <2> HIDE DEF Bad
  <2> QED BY <1>1, FS_StrictSubsetOrderingWellFounded, WFMin
<1>3. \A U \in SUBSET T : U # T => U \in G
  BY <1>2 DEF StrictSubsetOrdering
<1> QED BY <1>3

\* Finitely many numbers have a bound.
LEMMA NumbersAreBounded ==
  ASSUME NEW S, IsFiniteSet(S), NEW f, \A x \in S : f[x] \in Nat
  PROVE  \E n \in Nat : \A x \in S : f[x] <= n
<1> DEFINE G == {T \in SUBSET S : \E n \in Nat : \A x \in T : f[x] <= n}
<1>1. ASSUME NEW T \in SUBSET S, \A U \in SUBSET T : U # T => U \in G
      PROVE  T \in G
  <2>1. CASE T = {}
    <3>1. 0 \in Nat /\ \A x \in T : f[x] <= 0
      BY <2>1
    <3> QED BY <3>1
  <2>2. CASE T # {}
    <3>1. PICK y \in T : y \in S
      BY <2>2
    <3>2. T \ {y} \in G
      BY <1>1, <3>1
    <3>3. PICK n \in Nat : \A x \in T \ {y} : f[x] <= n
      BY <3>2
    <3>4. PICK m \in Nat : m = f[y]
      BY <3>1
    <3>5. n + m \in Nat /\ \A x \in T : f[x] <= n + m
      BY <3>3, <3>4
    <3> QED BY <3>5
  <2> QED BY <2>1, <2>2
<1>2. S \in G
  <2> HIDE DEF G
  <2> QED BY <1>1, SubsetsAreGood
<1> QED BY <1>2

\* Some number of a finite set is the greatest: else every element had a greater one, and
\* a set of n numbers n + 1 of them.
LEMMA GreatestExists ==
  ASSUME NEW n \in Nat, NEW T \in SUBSET (0..n), T # {}
  PROVE  \E x \in T : \A y \in T : y <= x
<1> SUFFICES ASSUME \A x \in T : \E y \in T : x < y PROVE FALSE
  BY SMT
<1> DEFINE S == {x \in 0..n : \E y \in T : x <= y}
           f == [x \in S |-> x + 1]
<1>1. IsFiniteSet(S) /\ 0 \in S
  <2>1. IsFiniteSet(0..n) /\ S \subseteq 0..n
    BY FS_Interval
  <2>2. IsFiniteSet(S)
    BY <2>1, FS_Subset, Zenon
  <2>3. 0 \in S
    <3>1. PICK t \in T : t \in T
      OBVIOUS
    <3>2. 0 \in 0..n /\ 0 <= t
      BY <3>1
    <3> QED BY <3>1, <3>2
  <2> QED BY <2>2, <2>3, Zenon
<1>2. f \in [S -> S \ {0}]
  BY SMT
<1>3. \A a, b \in S : f[a] = f[b] => a = b
  BY SMT
<1>4. f \in Injection(S, S \ {0})
  BY <1>2, <1>3 DEF Injection, IsInjective
<1>5. IsFiniteSet(S \ {0}) /\ Cardinality(S \ {0}) = Cardinality(S) - 1
  BY <1>1, FS_RemoveElement
<1>6. Cardinality(S) <= Cardinality(S \ {0})
  BY <1>4, <1>5, FS_Injection
<1> QED BY <1>1, <1>5, <1>6, FS_CardinalityType

\* The greatest of some bounded numbers.
LEMMA MaxIs ==
  ASSUME NEW n \in Nat, NEW T \in SUBSET (0..n), T # {}
  PROVE  Max(T) \in T /\ \A y \in T : y <= Max(T)
<1>1. \E x \in T : \A y \in T : x >= y
  BY GreatestExists
<1> QED BY <1>1 DEF Max

\* The least of some numbers.
LEMMA MinIs ==
  ASSUME NEW T \in SUBSET Nat, T # {}
  PROVE  Min(T) \in T /\ \A y \in T : Min(T) <= y
<1>1. PICK n \in T : n \in Nat
  OBVIOUS
<1> DEFINE R == {m \in 0..n : \A y \in T : m <= y}
<1>2. R \in SUBSET (0..n) /\ 0 \in R
  BY <1>1
<1>3. PICK m \in R : \A k \in R : k <= m
  <2> HIDE DEF R
  <2> QED BY <1>1, <1>2, GreatestExists
<1>4. m \in T
  <2> SUFFICES ASSUME m \notin T PROVE FALSE
    OBVIOUS
  <2>1. m + 1 \in R
    BY <1>1, <1>3
  <2> QED BY <1>1, <1>3, <2>1
<1>5. \E x \in T : \A y \in T : x <= y
  BY <1>3, <1>4
<1> QED BY <1>5 DEF Min

\* Induction over the natural numbers, for the set of those that are good.
LEMMA NumbersAreGood ==
  ASSUME NEW n \in Nat, NEW G, 0 \in G, \A i \in 1..n : i - 1 \in G => i \in G
  PROVE  \A i \in 0..n : i \in G
<1> SUFFICES ASSUME NEW k \in 0..n, k \notin G PROVE FALSE
  OBVIOUS
<1> DEFINE Bad == {i \in 0..n : i \notin G}
<1>1. Min(Bad) \in Bad /\ \A i \in Bad : Min(Bad) <= i
  <2>1. Bad \in SUBSET Nat /\ Bad # {}
    OBVIOUS
  <2> HIDE DEF Bad
  <2> QED BY <2>1, MinIs
<1>2. PICK m \in Bad : \A i \in Bad : m <= i
  BY <1>1
<1> QED BY <1>2

\* Induction downwards, for the set of the numbers that are good.
LEMMA DownwardAreGood ==
  ASSUME NEW first \in Nat, NEW end \in Nat, NEW G, end \in G,
         \A s \in first..(end - 1) : (\A t \in (s + 1)..end : t \in G) => s \in G
  PROVE  \A s \in first..end : s \in G
<1> SUFFICES ASSUME NEW k \in first..end, k \notin G PROVE FALSE
  OBVIOUS
<1> DEFINE Bad == {i \in first..end : i \notin G}
<1>1. PICK m \in Bad : \A i \in Bad : i <= m
  <2>1. Bad \in SUBSET (0..end) /\ Bad # {}
    OBVIOUS
  <2> HIDE DEF Bad
  <2> QED BY <2>1, GreatestExists
<1>2. m # end /\ m \in first..(end - 1)
  BY <1>1
<1>3. \A t \in (m + 1)..end : t \in G
  <2> SUFFICES ASSUME NEW t \in (m + 1)..end, t \notin G PROVE FALSE
    OBVIOUS
  <2>1. t \in Bad /\ ~(t <= m)
    BY <1>2
  <2> QED BY <1>1, <2>1
<1> QED BY <1>1, <1>2, <1>3

-----------------------------------------------------------------------------
(* Folds from the left.  FoldLeft folds the elements whose indices are in a   *)
(* set by taking the greatest index last; g stands for the operator that it   *)
(* folds with.                                                                *)

FoldsTo(h, D, base, g, q) ==
  h = [s \in SUBSET D |-> IF s = {} THEN base ELSE g[<<h[s \ {Max(s)}], q[Max(s)]>>]]
TheFold(D, base, g, q) == CHOOSE h : FoldsTo(h, D, base, g, q)

HasMaxima(D) == IsFiniteSet(D) /\ \A s \in SUBSET D : s # {} => Max(s) \in s

\* Folds of two sets of indices agree on the indices of both.
LEMMA FoldsAgree ==
  ASSUME NEW base, NEW g, NEW q, NEW S, NEW T, NEW h, NEW k,
         FoldsTo(h, S, base, g, q), FoldsTo(k, T, base, g, q),
         T \subseteq S, HasMaxima(T)
  PROVE  h[T] = k[T]
<1> DEFINE G == {W \in SUBSET T : h[W] = k[W]}
<1>1. ASSUME NEW W \in SUBSET T, \A U \in SUBSET W : U # W => U \in G
      PROVE  W \in G
  <2>1. CASE W = {}
    BY <2>1 DEF FoldsTo
  <2>2. CASE W # {}
    <3>1. Max(W) \in W
      BY <2>2 DEF HasMaxima
    <3>2. W \ {Max(W)} \in G
      BY <1>1, <3>1
    <3>3. /\ h[W] = g[<<h[W \ {Max(W)}], q[Max(W)]>>]
          /\ k[W] = g[<<k[W \ {Max(W)}], q[Max(W)]>>]
      <4>1. W \in SUBSET S
        OBVIOUS
      <4>2. QED BY <2>2, <4>1 DEF FoldsTo
    <3>4. QED BY <3>2, <3>3
  <2>3. QED BY <2>1, <2>2
<1>2. T \in G
  <2> HIDE DEF G
  <2> QED BY <1>1, SubsetsAreGood DEF HasMaxima
<1>3. QED BY <1>2

\* The last round of a fold.
LEMMA FoldUnfolds ==
  ASSUME NEW base, NEW g, NEW q, NEW S, NEW T, S # {}, T = S \ {Max(S)}, HasMaxima(T),
         FoldsTo(TheFold(S, base, g, q), S, base, g, q),
         FoldsTo(TheFold(T, base, g, q), T, base, g, q)
  PROVE  TheFold(S, base, g, q)[S] = g[<<TheFold(T, base, g, q)[T], q[Max(S)]>>]
<1>1. TheFold(S, base, g, q)[T] = TheFold(T, base, g, q)[T]
  BY FoldsAgree
<1>2. TheFold(S, base, g, q)[S] = g[<<TheFold(S, base, g, q)[T], q[Max(S)]>>]
  BY DEF FoldsTo
<1> QED BY <1>1, <1>2

\* There is a function that satisfies the equation of the fold.
LEMMA FoldsExist ==
  ASSUME NEW base, NEW g, NEW q, NEW S, HasMaxima(S)
  PROVE  FoldsTo(TheFold(S, base, g, q), S, base, g, q)
<1> DEFINE F(s) == TheFold(s, base, g, q)
           G == {W \in SUBSET S : FoldsTo(F(W), W, base, g, q)}
<1>1. ASSUME NEW W \in SUBSET S, \A U \in SUBSET W : U # W => U \in G
      PROVE  W \in G
  <2> DEFINE rest(s) == s \ {Max(s)}
             h == [s \in SUBSET W |-> IF s = {} THEN base
                                      ELSE g[<<F(rest(s))[rest(s)], q[Max(s)]>>]]
  <2>1. \A s \in SUBSET W : s # {} => /\ Max(s) \in s /\ rest(s) \in SUBSET W /\ rest(s) # W
                                      /\ HasMaxima(rest(s))
    <3> SUFFICES ASSUME NEW s \in SUBSET W, s # {}
                 PROVE  /\ Max(s) \in s /\ rest(s) \in SUBSET W /\ rest(s) # W
                        /\ HasMaxima(rest(s))
      OBVIOUS
    <3>1. Max(s) \in s
      BY DEF HasMaxima
    <3>2. IsFiniteSet(rest(s)) /\ rest(s) \in SUBSET S
      BY FS_Subset DEF HasMaxima
    <3>3. HasMaxima(rest(s))
      BY <3>2 DEF HasMaxima
    <3> QED BY <3>1, <3>3
  <2>2. \A t \in SUBSET W : t # W => h[t] = F(t)[t]
    <3> SUFFICES ASSUME NEW t \in SUBSET W, t # W PROVE h[t] = F(t)[t]
      OBVIOUS
    <3>1. FoldsTo(F(t), t, base, g, q)
      BY <1>1
    <3>2. CASE t = {}
      BY <3>1, <3>2 DEF FoldsTo
    <3>3. CASE t # {}
      <4>1. HasMaxima(rest(t)) /\ rest(t) \in G
        BY <1>1, <2>1, <3>3
      <4>2. FoldsTo(F(rest(t)), rest(t), base, g, q)
        BY <4>1
      <4>3. F(t)[t] = g[<<F(rest(t))[rest(t)], q[Max(t)]>>]
        BY <3>1, <3>3, <4>1, <4>2, FoldUnfolds
      <4>4. h[t] = g[<<F(rest(t))[rest(t)], q[Max(t)]>>]
        BY <3>3
      <4> QED BY <4>3, <4>4
    <3> QED BY <3>2, <3>3
  <2>3. FoldsTo(h, W, base, g, q)
    <3>1. \A s \in SUBSET W : s # {} => h[rest(s)] = F(rest(s))[rest(s)]
      BY <2>1, <2>2
    <3>2. h = [s \in SUBSET W |-> IF s = {} THEN base ELSE g[<<h[s \ {Max(s)}], q[Max(s)]>>]]
      BY <3>1
    <3> QED BY <3>2 DEF FoldsTo
  <2>4. FoldsTo(F(W), W, base, g, q)
    <3> HIDE DEF h
    <3> QED BY <2>3 DEF TheFold
  <2> QED BY <2>4
<1>2. S \in G
  <2> HIDE DEF G
  <2> QED BY <1>1, SubsetsAreGood DEF HasMaxima
<1>3. QED BY <1>2

\* The indices of a sequence.
LEMMA IntervalHasMaxima ==
  ASSUME NEW n \in Nat
  PROVE  HasMaxima(1..n)
<1>1. IsFiniteSet(1..n)
  BY FS_Interval
<1>2. \A s \in SUBSET (1..n) : s # {} => Max(s) \in s
  <2> SUFFICES ASSUME NEW s \in SUBSET (1..n), s # {} PROVE Max(s) \in s
    OBVIOUS
  <2>1. s \in SUBSET (0..n)
    OBVIOUS
  <2> QED BY <2>1, MaxIs
<1> QED BY <1>1, <1>2 DEF HasMaxima

\* The values of a fold have the type of what it folds with.
LEMMA FoldType ==
  ASSUME NEW D, HasMaxima(D), NEW R, NEW T, NEW base \in R, NEW g \in [R \X T -> R],
         NEW q \in [D -> T]
  PROVE  \A s \in SUBSET D : TheFold(D, base, g, q)[s] \in R
<1> DEFINE h == TheFold(D, base, g, q)
           G == {W \in SUBSET D : h[W] \in R}
<1>1. FoldsTo(h, D, base, g, q)
  BY FoldsExist
<1>2. ASSUME NEW W \in SUBSET D, \A U \in SUBSET W : U # W => U \in G
      PROVE  W \in G
  <2> HIDE DEF h
  <2>1. CASE W = {}
    BY <1>1, <2>1 DEF FoldsTo
  <2>2. CASE W # {}
    <3>1. Max(W) \in W
      BY <2>2 DEF HasMaxima
    <3>2. h[W] = g[<<h[W \ {Max(W)}], q[Max(W)]>>]
      BY <1>1, <2>2 DEF FoldsTo
    <3>3. h[W \ {Max(W)}] \in R /\ q[Max(W)] \in T
      BY <1>2, <3>1
    <3> QED BY <3>2, <3>3
  <2> QED BY <2>1, <2>2
<1>3. \A W \in SUBSET D : W \in G
  <2> HIDE DEF G
  <2> QED BY <1>2, SubsetsAreGood DEF HasMaxima
<1> QED BY <1>3

\* What two functions of sets of indices agree on before a round, they agree on after it.
GoOnAlike(c, h, D) ==
  \A s \in SUBSET D :
    s # {} /\ Max(s) \in s /\ c[s \ {Max(s)}] = h[s \ {Max(s)}] => c[s] = h[s]

\* Any function that starts and goes on as a fold does is that fold.
LEMMA FoldIs ==
  ASSUME NEW D, HasMaxima(D), NEW c, NEW h, c[{}] = h[{}], GoOnAlike(c, h, D)
  PROVE  c[D] = h[D]
<1> DEFINE G == {W \in SUBSET D : c[W] = h[W]}
<1>1. ASSUME NEW W \in SUBSET D, \A U \in SUBSET W : U # W => U \in G
      PROVE  W \in G
  <2>1. CASE W = {}
    BY <2>1
  <2>2. CASE W # {}
    <3>1. Max(W) \in W
      BY <2>2 DEF HasMaxima
    <3>2. W \ {Max(W)} \in G
      BY <1>1, <3>1
    <3> QED BY <2>2, <3>1, <3>2 DEF GoOnAlike
  <2> QED BY <2>1, <2>2
<1>2. \A W \in SUBSET D : W \in G
  <2> HIDE DEF G
  <2> QED BY <1>1, SubsetsAreGood DEF HasMaxima
<1> QED BY <1>2

\* The types of what every round is applied to.
Typed(c, D, R, T, q) ==
  \A s \in SUBSET D : s # {} => c[s \ {Max(s)}] \in R /\ q[Max(s)] \in T

\* The values of a fold with g, one round after the other.
Values(v, n, R, T, base, g, q) ==
  /\ v \in [0..n -> R] /\ v[0] = base
  /\ \A i \in 1..n : v[i - 1] \in R /\ q[i] \in T /\ v[i] = g[<<v[i - 1], q[i]>>]

\* The last of them is the fold of the whole sequence.
Ends(v, n, c) == v[n] = c[1..n]

\* The fold with g is a function whose rounds have the types of g.
LEMMA FoldTyped ==
  ASSUME NEW n \in Nat, NEW R, NEW T, NEW base \in R, NEW g \in [R \X T -> R],
         NEW q \in [1..n -> T], NEW h, h = TheFold(1..n, base, g, q)
  PROVE  /\ FoldsTo(h, 1..n, base, g, q) /\ Typed(h, 1..n, R, T, q)
         /\ \A s \in SUBSET (1..n) : h[s] \in R
<1>1. HasMaxima(1..n)
  BY IntervalHasMaxima
<1>2. FoldsTo(h, 1..n, base, g, q)
  BY <1>1, FoldsExist
<1>3. \A s \in SUBSET (1..n) : h[s] \in R
  BY <1>1, FoldType
<1>4. \A s \in SUBSET (1..n) : s # {} => Max(s) \in 1..n /\ s \ {Max(s)} \in SUBSET (1..n)
  BY <1>1 DEF HasMaxima
<1> QED BY <1>2, <1>3, <1>4 DEF Typed

\* Its values along the sequence.
LEMMA FoldAlong ==
  ASSUME NEW n \in Nat, NEW R, NEW T, NEW base \in R, NEW g \in [R \X T -> R],
         NEW q \in [1..n -> T]
  PROVE  \E h, v : /\ Values(v, n, R, T, base, g, q) /\ Ends(v, n, h)
                   /\ FoldsTo(h, 1..n, base, g, q) /\ Typed(h, 1..n, R, T, q)
<1>0. PICK h : h = TheFold(1..n, base, g, q)
  OBVIOUS
<1>1. /\ FoldsTo(h, 1..n, base, g, q) /\ Typed(h, 1..n, R, T, q)
      /\ \A s \in SUBSET (1..n) : h[s] \in R
  BY <1>0, FoldTyped
<1>2. \A i \in 0..n : 1..i \in SUBSET (1..n)
  OBVIOUS
<1>3. h[1..0] = base
  <2>1. 1..0 = {} /\ {} \in SUBSET (1..n)
    OBVIOUS
  <2> QED BY <1>1, <2>1, Zenon DEF FoldsTo
<1>4. ASSUME NEW i \in 1..n PROVE h[1..i] = g[<<h[1..(i - 1)], q[i]>>]
  <2>1. PICK I : I = 1..i
    OBVIOUS
  <2>2. i \in Nat /\ I \subseteq 0..i /\ i \in I /\ \A y \in I : y <= i
    BY <2>1
  <2>3. Max(I) \in I /\ \A y \in I : y <= Max(I)
    BY <2>2, MaxIs, Zenon
  <2>4. Max(I) = i
    <3>1. PICK m : m = Max(I)
      OBVIOUS
    <3>2. m \in 0..i /\ i <= m
      BY <2>2, <2>3, <3>1
    <3> QED BY <2>2, <3>1, <3>2
  <2>5. I \ {i} = 1..(i - 1)
    BY <2>1
  <2>6. I \in SUBSET (1..n) /\ I # {}
    <3>1. i \in 0..n
      OBVIOUS
    <3> QED BY <1>2, <2>1, <2>2, <3>1, Zenon
  <2>7. h[I] = g[<<h[I \ {Max(I)}], q[Max(I)]>>]
    BY <1>1, <2>6, Zenon DEF FoldsTo
  <2> QED BY <2>1, <2>4, <2>5, <2>7
<1> DEFINE v == [i \in 0..n |-> h[1..i]]
<1>5. v \in [0..n -> R] /\ v[0] = base
  BY <1>1, <1>2, <1>3
<1>6. ASSUME NEW i \in 1..n
      PROVE  v[i - 1] \in R /\ q[i] \in T /\ v[i] = g[<<v[i - 1], q[i]>>]
  <2>1. i \in 0..n /\ i - 1 \in 0..n
    OBVIOUS
  <2> QED BY <1>4, <1>5, <2>1
<1>7. Ends(v, n, h)
  BY DEF Ends
<1>8. Values(v, n, R, T, base, g, q)
  <2> HIDE DEF v
  <2> QED BY <1>5, <1>6 DEF Values
<1> QED BY <1>1, <1>7, <1>8

\* A function does what the fold does in every round in which the types are right.
FoldsLike(c, D, R, T, base, g, q) ==
  /\ c[{}] = base
  /\ \A s \in SUBSET D :
       s # {} /\ c[s \ {Max(s)}] \in R /\ q[Max(s)] \in T =>
         c[s] = g[<<c[s \ {Max(s)}], q[Max(s)]>>]

\* A function that follows g wherever the types are right has the values of the fold.
LEMMA FoldRounds ==
  ASSUME NEW n \in Nat, NEW R, NEW T, NEW base \in R, NEW g \in [R \X T -> R],
         NEW q \in [1..n -> T], NEW c, FoldsLike(c, 1..n, R, T, base, g, q)
  PROVE  \E v : Values(v, n, R, T, base, g, q) /\ Ends(v, n, c)
<1>1. PICK h, v : /\ Values(v, n, R, T, base, g, q) /\ Ends(v, n, h)
                  /\ FoldsTo(h, 1..n, base, g, q) /\ Typed(h, 1..n, R, T, q)
  BY FoldAlong
<1>2. c[{}] = h[{}]
  BY <1>1 DEF FoldsTo, FoldsLike
<1>3. GoOnAlike(c, h, 1..n)
  <2> SUFFICES ASSUME NEW s \in SUBSET (1..n), s # {}, c[s \ {Max(s)}] = h[s \ {Max(s)}]
               PROVE  c[s] = h[s]
    BY DEF GoOnAlike
  <2>1. h[s] = g[<<h[s \ {Max(s)}], q[Max(s)]>>]
    BY <1>1 DEF FoldsTo
  <2>2. c[s \ {Max(s)}] \in R /\ q[Max(s)] \in T
    BY <1>1 DEF Typed
  <2> QED BY <2>1, <2>2 DEF FoldsLike
<1>4. c[1..n] = h[1..n]
  <2>1. HasMaxima(1..n)
    BY IntervalHasMaxima
  <2> QED BY <1>2, <1>3, <2>1, FoldIs
<1> QED BY <1>1, <1>4 DEF Ends

-----------------------------------------------------------------------------
(* Members of a finite set in order *)

\* R is a strict order of all members of S.
StrictOrder(R, S) ==
  /\ \A x \in S : <<x, x>> \notin R
  /\ \A x, y \in S : x # y => <<x, y>> \in R \/ <<y, x>> \in R
  /\ \A x, y, z \in S : <<x, y>> \in R /\ <<y, z>> \in R => <<x, z>> \in R

\* q has the members of S, in the order R.
Arranges(q, n, S, R) ==
  /\ n \in Nat /\ q \in [1..n -> S]
  /\ \A x \in S : \E i \in 1..n : q[i] = x
  /\ \A i, j \in 1..n : i < j => <<q[i], q[j]>> \in R

\* In a finite ordered set one comes last.
LEMMA LastExists ==
  ASSUME NEW S, IsFiniteSet(S), NEW R, StrictOrder(R, S), S # {}
  PROVE  \E m \in S : \A y \in S : y = m \/ <<y, m>> \in R
<1> DEFINE G == {T \in SUBSET S : T # {} => \E m \in T : \A y \in T : y = m \/ <<y, m>> \in R}
<1>1. ASSUME NEW T \in SUBSET S, \A U \in SUBSET T : U # T => U \in G, T # {}
      PROVE  \E m \in T : \A y \in T : y = m \/ <<y, m>> \in R
  <2>1. PICK x \in T : TRUE
    BY <1>1
  <2>2. T \ {x} \in G
    BY <1>1, <2>1
  <2>3. CASE T \ {x} = {}
    BY <2>1, <2>3
  <2>4. CASE T \ {x} # {}
    <3>1. PICK m \in T \ {x} : \A y \in T \ {x} : y = m \/ <<y, m>> \in R
      BY <2>2, <2>4
    <3>2. x \in S /\ m \in S /\ x # m
      BY <2>1, <3>1
    <3>3. CASE <<x, m>> \in R
      BY <3>1, <3>3
    <3>4. CASE <<m, x>> \in R
      <4>1. ASSUME NEW y \in T, y # x PROVE <<y, x>> \in R
        <5>1. y = m \/ <<y, m>> \in R
          BY <3>1, <4>1
        <5> QED BY <3>2, <3>4, <5>1 DEF StrictOrder
      <4> QED BY <2>1, <4>1
    <3> QED BY <3>2, <3>3, <3>4 DEF StrictOrder
  <2> QED BY <2>3, <2>4
<1>2. \A T \in SUBSET S : (\A U \in SUBSET T : U # T => U \in G) => T \in G
  BY <1>1
<1> HIDE DEF G
<1>3. \A T \in SUBSET S : T \in G
  BY <1>2, SubsetsAreGood
<1> USE DEF G
<1> QED BY <1>3

\* One more member, that comes last.
LEMMA ArrangedWith ==
  ASSUME NEW n, NEW q, NEW T, NEW R, NEW m, m \notin T, Arranges(q, n, T, R),
         \A y \in T : <<y, m>> \in R
  PROVE  \E p : Arranges(p, n + 1, T \union {m}, R)
<1>1. n \in Nat /\ q \in [1..n -> T]
  BY DEF Arranges
<1> DEFINE p == [i \in 1..(n + 1) |-> IF i <= n THEN q[i] ELSE m]
<1>2. p \in [1..(n + 1) -> T \union {m}] /\ n + 1 \in Nat
  BY <1>1
<1>3. p[n + 1] = m /\ \A i \in 1..n : p[i] = q[i]
  BY <1>1
<1> HIDE DEF p
<1>4. ASSUME NEW x \in T \union {m} PROVE \E i \in 1..(n + 1) : p[i] = x
  <2>1. CASE x = m
    BY <1>1, <1>3, <2>1
  <2>2. CASE x \in T
    <3>1. PICK i \in 1..n : q[i] = x
      BY <2>2 DEF Arranges
    <3> QED BY <1>1, <1>3, <3>1
  <2> QED BY <2>1, <2>2
<1>5. ASSUME NEW i \in 1..(n + 1), NEW j \in 1..(n + 1), i < j PROVE <<p[i], p[j]>> \in R
  <2>1. i \in 1..n
    BY <1>1, <1>5
  <2>2. CASE j = n + 1
    BY <1>1, <1>3, <2>1, <2>2
  <2>3. CASE j \in 1..n
    BY <1>3, <1>5, <2>1, <2>3 DEF Arranges
  <2> QED BY <1>1, <2>2, <2>3
<1> QED BY <1>2, <1>4, <1>5 DEF Arranges

\* Every finite ordered set can be arranged.
LEMMA ArrangementExists ==
  ASSUME NEW S, IsFiniteSet(S), NEW R, StrictOrder(R, S)
  PROVE  \E q : Arranges(q, Cardinality(S), S, R)
<1> DEFINE G == {T \in SUBSET S : \E q : Arranges(q, Cardinality(T), T, R)}
<1>1. ASSUME NEW T \in SUBSET S, \A U \in SUBSET T : U # T => U \in G
      PROVE  \E q : Arranges(q, Cardinality(T), T, R)
  <2>1. IsFiniteSet(T) /\ StrictOrder(R, T)
    BY FS_Subset DEF StrictOrder
  <2>2. CASE T = {}
    <3>1. Cardinality(T) = 0
      BY <2>2, FS_EmptySet
    <3>2. PICK q : q = [i \in 1..0 |-> i]
      OBVIOUS
    <3>3. Arranges(q, 0, T, R)
      BY <2>2, <3>2 DEF Arranges
    <3> QED BY <3>1, <3>3
  <2>3. CASE T # {}
    <3>1. PICK m \in T : \A y \in T : y = m \/ <<y, m>> \in R
      BY <2>1, <2>3, LastExists
    <3>2. PICK U : U = T \ {m}
      OBVIOUS
    <3>3. U \in G
      BY <1>1, <3>1, <3>2
    <3>4. PICK q : Arranges(q, Cardinality(U), U, R)
      BY <3>3
    <3>5. Cardinality(U) = Cardinality(T) - 1 /\ Cardinality(T) \in Nat /\ Cardinality(U) \in Nat
      <4>1. IsFiniteSet(U)
        BY <2>1, <3>2, FS_RemoveElement
      <4> QED BY <2>1, <3>1, <3>2, <4>1, FS_RemoveElement, FS_CardinalityType
    <3>6. PICK p : Arranges(p, Cardinality(U) + 1, U \union {m}, R)
      BY <3>1, <3>2, <3>4, ArrangedWith
    <3>7. Cardinality(U) + 1 = Cardinality(T) /\ U \union {m} = T
      BY <3>1, <3>2, <3>5
    <3> QED BY <3>6, <3>7
  <2> QED BY <2>2, <2>3
<1>2. \A T \in SUBSET S : (\A U \in SUBSET T : U # T => U \in G) => T \in G
  BY <1>1
<1> HIDE DEF G
<1>3. S \in G
  BY <1>2, SubsetsAreGood
<1> USE DEF G
<1> QED BY <1>3

\* No member comes twice.
LEMMA ArrangedOnce ==
  ASSUME NEW n, NEW q, NEW S, NEW R, StrictOrder(R, S), Arranges(q, n, S, R)
  PROVE  \A i, j \in 1..n : q[i] = q[j] => i = j
<1> SUFFICES ASSUME NEW i \in 1..n, NEW j \in 1..n, q[i] = q[j], i # j PROVE FALSE
  OBVIOUS
<1>1. n \in Nat /\ q[i] \in S
  BY DEF Arranges
<1>2. i < j \/ j < i
  BY <1>1
<1>3. <<q[i], q[i]>> \in R
  BY <1>2 DEF Arranges
<1> QED BY <1>1, <1>3 DEF StrictOrder

-----------------------------------------------------------------------------
(* Lists joined *)

LEMMA EmptyIs ==
  ASSUME NEW S, NEW q \in Seq(S), Len(q) = 0
  PROVE  q = <<>>
OBVIOUS

\* Two lists with the same elements.
LEMMA SameList ==
  ASSUME NEW S, NEW q \in Seq(S), NEW r \in Seq(S), Len(q) = Len(r),
         \A i \in 1..Len(q) : q[i] = r[i]
  PROVE  q = r
<1>1. PICK n : n = Len(q) /\ n \in Nat
  OBVIOUS
<1>2. q \in [1..n -> S] /\ r \in [1..n -> S]
  BY <1>1
<1> QED BY <1>1, <1>2

LEMMA JoinedAtEnd ==
  ASSUME NEW S, NEW a \in Seq(S), NEW b \in Seq(S), NEW p \in S
  PROVE  /\ a \o <<p>> = Append(a, p)
         /\ a \o Append(b, p) = Append(a \o b, p)
<1>1. a \o <<p>> = Append(a, p)
  <2>1. PICK t, c, d, m : t = <<p>> /\ c = a \o t /\ d = Append(a, p) /\ m = Len(a)
    OBVIOUS
  <2>2. t \in Seq(S) /\ Len(t) = 1 /\ t[1] = p /\ m \in Nat
    BY <2>1
  <2>3. /\ c \in Seq(S) /\ Len(c) = m + 1 /\ \A i \in 1..m : c[i] = a[i]
        /\ c[m + 1] = t[1]
    BY <2>1, <2>2
  <2>4. d \in Seq(S) /\ Len(d) = m + 1 /\ d[m + 1] = p /\ \A i \in 1..m : d[i] = a[i]
    BY <2>1, <2>2
  <2>5. \A i \in 1..Len(c) : c[i] = d[i]
    BY <2>2, <2>3, <2>4
  <2>6. c = d
    BY <2>3, <2>4, <2>5, SameList
  <2> QED BY <2>1, <2>6
<1>2. PICK c, d : c = a \o Append(b, p) /\ d = Append(a \o b, p)
  OBVIOUS
<1>3. PICK m : m = Len(a) /\ m \in Nat
  OBVIOUS
<1>30. PICK n : n = Len(b) /\ n \in Nat
  OBVIOUS
<1>4. PICK e : e = Append(b, p)
  OBVIOUS
<1>5. e \in Seq(S) /\ Len(e) = n + 1 /\ e[n + 1] = p /\ \A i \in 1..n : e[i] = b[i]
  BY <1>3, <1>30, <1>4
<1>6. /\ c \in Seq(S) /\ Len(c) = m + (n + 1) /\ \A i \in 1..m : c[i] = a[i]
      /\ \A i \in 1..(n + 1) : c[m + i] = e[i]
  BY <1>2, <1>3, <1>30, <1>4, <1>5
<1>7. PICK f : f = a \o b
  OBVIOUS
<1>8. /\ f \in Seq(S) /\ Len(f) = m + n /\ \A i \in 1..m : f[i] = a[i]
      /\ \A i \in 1..n : f[m + i] = b[i]
  BY <1>3, <1>30, <1>7
<1>9. /\ d \in Seq(S) /\ Len(d) = (m + n) + 1 /\ d[(m + n) + 1] = p
      /\ \A i \in 1..(m + n) : d[i] = f[i]
  BY <1>2, <1>3, <1>30, <1>7, <1>8
<1>10. Len(c) = Len(d)
  BY <1>3, <1>30, <1>6, <1>9
<1>11. ASSUME NEW i \in 1..Len(c) PROVE c[i] = d[i]
  <2>1. i \in Nat /\ 1 <= i /\ i <= m + (n + 1)
    BY <1>3, <1>30, <1>6
  <2>2. CASE i <= m
    <3>1. i \in 1..m /\ i \in 1..(m + n)
      BY <1>3, <1>30, <2>1, <2>2
    <3> QED BY <1>6, <1>8, <1>9, <3>1
  <2>3. CASE m < i
    <3>1. PICK j : j = i - m
      OBVIOUS
    <3>2. j \in 1..(n + 1) /\ m + j = i
      BY <1>3, <1>30, <2>1, <2>3, <3>1
    <3>3. c[i] = e[j]
      BY <1>6, <3>2
    <3>4. CASE j = n + 1
      <4>1. i = (m + n) + 1
        BY <1>3, <1>30, <3>2, <3>4
      <4> QED BY <1>5, <1>9, <3>3, <3>4, <4>1
    <3>5. CASE j # n + 1
      <4>1. j \in 1..n /\ i \in 1..(m + n)
        BY <1>3, <1>30, <3>2, <3>5
      <4>2. d[i] = b[j]
        BY <1>8, <1>9, <3>2, <4>1
      <4> QED BY <1>5, <3>3, <4>1, <4>2
    <3> QED BY <3>4, <3>5
  <2> QED BY <1>3, <1>30, <2>1, <2>2, <2>3
<1>12. c = d
  BY <1>6, <1>9, <1>10, <1>11, SameList
<1> QED BY <1>1, <1>2, <1>12

\* Lists joined, one after the other.
Joins(g, bs, T) ==
  /\ g \in [0..Len(bs) -> Seq(T)] /\ g[0] = <<>>
  /\ \A i \in 1..Len(bs) : g[i] = g[i - 1] \o bs[i]

\* FlattenSeq is the last of them.
LEMMA FlattenIs ==
  ASSUME NEW T, NEW bs \in Seq(Seq(T)), NEW g, Joins(g, bs, T)
  PROVE  FlattenSeq(bs) = g[Len(bs)]
<1>1. PICK n : n = Len(bs) /\ n \in Nat
  OBVIOUS
<1>2. /\ g \in [0..n -> Seq(T)] /\ g[0] = <<>>
      /\ \A i \in 1..n : g[i] = g[i - 1] \o bs[i]
  BY <1>1 DEF Joins
<1>3. CASE n = 0
  <2>1. FlattenSeq(bs) = bs
    BY <1>1, <1>3 DEF FlattenSeq
  <2>2. bs = <<>>
    BY <1>1, <1>3, EmptyIs
  <2> QED BY <1>1, <1>2, <1>3, <2>1, <2>2
<1>4. CASE n # 0
  <2> DEFINE c == CHOOSE c : c = [i \in 1..n |-> IF i = 1 THEN bs[i] ELSE c[i - 1] \o bs[i]]
  <2>1. FlattenSeq(bs) = c[n]
    BY <1>1, <1>4 DEF FlattenSeq
  <2>2. \A i \in 1..n : bs[i] \in Seq(T)
    BY <1>1
  <2>3. g[1] = bs[1]
    <3>1. 1 \in 1..n /\ 1 - 1 = 0
      BY <1>1, <1>4
    <3>2. g[1] = g[0] \o bs[1]
      BY <1>2, <3>1
    <3>3. PICK z, y : z = <<>> /\ y = bs[1]
      OBVIOUS
    <3>4. y \in Seq(T)
      BY <2>2, <3>1, <3>3
    <3>5. z \o y = y
      BY <3>3, <3>4
    <3> QED BY <1>2, <3>2, <3>3, <3>5
  <2>4. PICK h : h = [i \in 1..n |-> g[i]]
    OBVIOUS
  <2>5. h = [i \in 1..n |-> IF i = 1 THEN bs[i] ELSE h[i - 1] \o bs[i]]
    <3>1. ASSUME NEW i \in 1..n PROVE h[i] = IF i = 1 THEN bs[i] ELSE h[i - 1] \o bs[i]
      <4>1. CASE i = 1
        BY <2>3, <2>4, <4>1
      <4>2. CASE i # 1
        <5>1. i - 1 \in 1..n
          BY <1>1, <4>2
        <5>2. h[i - 1] = g[i - 1] /\ h[i] = g[i]
          BY <2>4, <5>1
        <5> QED BY <1>2, <4>2, <5>2
      <4> QED BY <4>1, <4>2
    <3> QED BY <2>4, <3>1
  <2>6. c = [i \in 1..n |-> IF i = 1 THEN bs[i] ELSE c[i - 1] \o bs[i]]
    BY <2>5
  <2> HIDE DEF c
  <2> DEFINE G == {i \in 0..n : i = 0 \/ c[i] = g[i]}
  <2>7. 0 \in G
    BY <1>1
  <2>8. ASSUME NEW i \in 1..n, i - 1 \in G PROVE i \in G
    <3>1. i \in 0..n
      BY <1>1
    <3>2. CASE i = 1
      BY <2>3, <2>6, <3>1, <3>2
    <3>3. CASE i # 1
      <4>1. c[i] = c[i - 1] \o bs[i]
        BY <2>6, <3>3
      <4>2. i - 1 # 0
        BY <1>1, <3>3
      <4>3. c[i - 1] = g[i - 1]
        BY <2>8, <4>2
      <4> QED BY <1>2, <3>1, <4>1, <4>3
    <3> QED BY <3>2, <3>3
  <2> HIDE DEF G
  <2>9. \A i \in 0..n : i \in G
    BY <1>1, <2>7, <2>8, NumbersAreGood
  <2> USE DEF G
  <2>10. c[n] = g[n]
    BY <1>1, <1>4, <2>9
  <2> QED BY <1>1, <2>1, <2>10
<1> QED BY <1>3, <1>4

\* What is said of every member of a list.
LEMMA MembersAre ==
  ASSUME NEW T, NEW q \in Seq(T)
  PROVE  /\ DOMAIN q = 1..Len(q) /\ ToSet(q) \subseteq T
         /\ \A i \in 1..Len(q) : q[i] \in T /\ q[i] \in ToSet(q)
         /\ \A x \in ToSet(q) : \E i \in 1..Len(q) : q[i] = x
<1>1. DOMAIN q = 1..Len(q) /\ \A i \in 1..Len(q) : q[i] \in T
  OBVIOUS
<1>2. ToSet(q) = {q[i] : i \in 1..Len(q)}
  BY <1>1, Zenon DEF ToSet
<1> QED BY <1>1, <1>2

\* A list made of another, member by member.
LEMMA MappedIs ==
  ASSUME NEW T, NEW U, NEW q \in Seq(T), NEW r, DOMAIN r = DOMAIN q, r = [i \in DOMAIN q |-> r[i]],
         \A i \in 1..Len(q) : r[i] \in U
  PROVE  r \in Seq(U) /\ Len(r) = Len(q)
<1>1. PICK n : n = Len(q) /\ n \in Nat
  OBVIOUS
<1>2. DOMAIN r = 1..n
  BY <1>1
<1>3. r \in [1..n -> U]
  BY <1>1, <1>2
<1> QED BY <1>1, <1>3

\* The pairs of a list, in order, are all in R.
InPairs(q, R) == \A i, j \in 1..Len(q) : i < j => <<q[i], q[j]>> \in R

\* A list of one.
LEMMA OneIs ==
  ASSUME NEW T, NEW r \in T, NEW q, q = <<r>>
  PROVE  q \in Seq(T) /\ ToSet(q) = {r} /\ \A R : InPairs(q, R)
<1>1. q \in Seq(T) /\ Len(q) = 1 /\ q[1] = r /\ DOMAIN q = 1..1
  OBVIOUS
<1>2. ToSet(q) = {r}
  <2>1. \A i : i \in 1..1 <=> i = 1
    OBVIOUS
  <2> QED BY <1>1, <2>1, Zenon DEF ToSet
<1>3. \A i, j \in 1..Len(q) : ~(i < j)
  BY <1>1
<1> QED BY <1>1, <1>2, <1>3 DEF InPairs

\* There always are.
LEMMA JoinsExist ==
  ASSUME NEW T, NEW bs \in Seq(Seq(T))
  PROVE  \E g : Joins(g, bs, T)
<1>1. PICK n : n = Len(bs) /\ n \in Nat
  OBVIOUS
<1> DEFINE Upto(g, k) == /\ g \in [0..k -> Seq(T)] /\ g[0] = <<>>
                         /\ \A i \in 1..k : g[i] = g[i - 1] \o bs[i]
           G == {k \in 0..n : \E g : Upto(g, k)}
<1>2. 0 \in G
  <2>1. PICK z : z = <<>>
    OBVIOUS
  <2>2. z \in Seq(T)
    BY <2>1
  <2>3. PICK g : g = [i \in 0..0 |-> z]
    OBVIOUS
  <2>4. g \in [0..0 -> Seq(T)] /\ g[0] = z
    BY <2>2, <2>3
  <2>5. Upto(g, 0)
    BY <2>1, <2>4
  <2>6. 0 \in 0..n
    BY <1>1
  <2> HIDE DEF Upto
  <2> QED BY <2>5, <2>6
<1>3. ASSUME NEW k \in 1..n, k - 1 \in G PROVE k \in G
  <2>1. PICK g : Upto(g, k - 1)
    BY <1>3
  <2>2. bs[k] \in Seq(T) /\ g[k - 1] \in Seq(T)
    <3>1. k - 1 \in 0..(k - 1) /\ k \in 1..Len(bs)
      BY <1>1
    <3> QED BY <2>1, <3>1
  <2>3. PICK c : c = g[k - 1] \o bs[k]
    OBVIOUS
  <2>4. c \in Seq(T)
    BY <2>2, <2>3
  <2>5. PICK f : f = [i \in 0..k |-> IF i = k THEN c ELSE g[i]]
    OBVIOUS
  <2>6. f \in [0..k -> Seq(T)] /\ f[k] = c /\ \A i \in 0..(k - 1) : f[i] = g[i]
    BY <1>1, <2>1, <2>4, <2>5, SMTT(30)
  <2>7. f[0] = <<>>
    <3>1. 0 \in 0..(k - 1)
      BY <1>1
    <3> QED BY <2>1, <2>6, <3>1
  <2>8. ASSUME NEW i \in 1..k PROVE f[i] = f[i - 1] \o bs[i]
    <3>1. i - 1 \in 0..(k - 1)
      BY <1>1
    <3>2. CASE i = k
      BY <2>3, <2>6, <3>1, <3>2
    <3>3. CASE i # k
      <4>1. i \in 1..(k - 1) /\ i \in 0..(k - 1)
        BY <1>1, <3>3
      <4> QED BY <2>1, <2>6, <3>1, <4>1
    <3> QED BY <3>2, <3>3
  <2>9. Upto(f, k)
    BY <2>6, <2>7, <2>8
  <2>10. k \in 0..n
    BY <1>1
  <2> HIDE DEF Upto
  <2> QED BY <2>9, <2>10
<1> HIDE DEF G
<1>4. n \in G
  <2>1. \A k \in 0..n : k \in G
    BY <1>1, <1>2, <1>3, NumbersAreGood
  <2> QED BY <1>1, <2>1
<1> USE DEF G
<1>5. PICK g : Upto(g, n)
  BY <1>4
<1> QED BY <1>1, <1>5 DEF Joins

\* Two lists joined.
LEMMA JoinedIs ==
  ASSUME NEW T, NEW a \in Seq(T), NEW b \in Seq(T)
  PROVE  /\ a \o b \in Seq(T) /\ Len(a \o b) = Len(a) + Len(b)
         /\ \A i \in 1..Len(a) : (a \o b)[i] = a[i]
         /\ \A i \in 1..Len(b) : (a \o b)[Len(a) + i] = b[i]
OBVIOUS

LEMMA JoinedHas ==
  ASSUME NEW T, NEW a \in Seq(T), NEW b \in Seq(T)
  PROVE  ToSet(a \o b) = ToSet(a) \union ToSet(b)
<1>1. PICK m : m = Len(a) /\ m \in Nat
  OBVIOUS
<1>2. PICK n : n = Len(b) /\ n \in Nat
  OBVIOUS
<1>3. PICK c : c = a \o b
  OBVIOUS
<1>4. /\ c \in Seq(T) /\ Len(c) = m + n /\ \A i \in 1..m : c[i] = a[i]
      /\ \A i \in 1..n : c[m + i] = b[i]
  BY <1>1, <1>2, <1>3, JoinedIs
<1>5. /\ ToSet(a) = {a[i] : i \in 1..m} /\ ToSet(b) = {b[i] : i \in 1..n}
      /\ ToSet(c) = {c[i] : i \in 1..(m + n)}
  <2>1. DOMAIN a = 1..m /\ DOMAIN b = 1..n /\ DOMAIN c = 1..(m + n)
    BY <1>1, <1>2, <1>4
  <2> QED BY <2>1, Zenon DEF ToSet
<1>6. ASSUME NEW i \in 1..(m + n) PROVE c[i] \in ToSet(a) \union ToSet(b)
  <2>1. CASE i <= m
    <3>1. i \in 1..m
      BY <1>1, <1>2, <2>1
    <3> QED BY <1>4, <1>5, <3>1
  <2>2. CASE m < i
    <3>1. PICK j : j = i - m
      OBVIOUS
    <3>2. j \in 1..n /\ m + j = i
      BY <1>1, <1>2, <2>2, <3>1
    <3> QED BY <1>4, <1>5, <3>2
  <2> QED BY <1>1, <1>2, <2>1, <2>2
<1>7. ASSUME NEW i \in 1..m PROVE a[i] \in ToSet(c)
  <2>1. i \in 1..(m + n)
    BY <1>1, <1>2
  <2> QED BY <1>4, <1>5, <2>1
<1>8. ASSUME NEW i \in 1..n PROVE b[i] \in ToSet(c)
  <2>1. m + i \in 1..(m + n)
    BY <1>1, <1>2
  <2> QED BY <1>4, <1>5, <2>1
<1> QED BY <1>3, <1>5, <1>6, <1>7, <1>8, ZenonT(60)

LEMMA JoinedPairs ==
  ASSUME NEW T, NEW a \in Seq(T), NEW b \in Seq(T), NEW R, InPairs(a, R), InPairs(b, R),
         \A x \in ToSet(a), y \in ToSet(b) : <<x, y>> \in R
  PROVE  InPairs(a \o b, R)
<1>1. PICK m : m = Len(a) /\ m \in Nat
  OBVIOUS
<1>2. PICK n : n = Len(b) /\ n \in Nat
  OBVIOUS
<1>3. PICK c : c = a \o b
  OBVIOUS
<1>4. /\ c \in Seq(T) /\ Len(c) = m + n /\ \A i \in 1..m : c[i] = a[i]
      /\ \A i \in 1..n : c[m + i] = b[i]
  BY <1>1, <1>2, <1>3, JoinedIs
<1>5. ASSUME NEW i \in 1..(m + n), NEW j \in 1..(m + n), i < j PROVE <<c[i], c[j]>> \in R
  <2>1. CASE j <= m
    <3>1. i \in 1..m /\ j \in 1..m
      BY <1>1, <1>2, <1>5, <2>1
    <3> QED BY <1>1, <1>4, <1>5, <3>1 DEF InPairs
  <2>2. CASE m < i
    <3>1. PICK k, l : k = i - m /\ l = j - m
      OBVIOUS
    <3>2. k \in 1..n /\ l \in 1..n /\ m + k = i /\ m + l = j /\ k < l
      BY <1>1, <1>2, <1>5, <2>2, <3>1
    <3>3. c[i] = b[k] /\ c[j] = b[l]
      BY <1>4, <3>2
    <3> QED BY <1>2, <3>2, <3>3 DEF InPairs
  <2>3. CASE i <= m /\ m < j
    <3>1. PICK l : l = j - m
      OBVIOUS
    <3>2. i \in 1..m /\ l \in 1..n /\ m + l = j
      BY <1>1, <1>2, <2>3, <3>1
    <3>3. c[i] = a[i] /\ c[j] = b[l]
      BY <1>4, <3>2
    <3>4. a[i] \in ToSet(a) /\ b[l] \in ToSet(b)
      BY <1>1, <1>2, <3>2 DEF ToSet
    <3> QED BY <3>3, <3>4
  <2> QED BY <1>1, <1>2, <2>1, <2>2, <2>3
<1> QED BY <1>3, <1>4, <1>5 DEF InPairs

\* The members of lists joined are the members of the lists.
LEMMA FlattenHas ==
  ASSUME NEW T, NEW bs \in Seq(Seq(T))
  PROVE  /\ FlattenSeq(bs) \in Seq(T)
         /\ \A x : x \in ToSet(FlattenSeq(bs)) <=> \E k \in 1..Len(bs) : x \in ToSet(bs[k])
<1>1. PICK n : n = Len(bs) /\ n \in Nat
  OBVIOUS
<1>2. PICK g : Joins(g, bs, T)
  BY JoinsExist
<1>3. /\ g \in [0..n -> Seq(T)] /\ g[0] = <<>>
      /\ \A i \in 1..n : g[i] = g[i - 1] \o bs[i]
  BY <1>1, <1>2 DEF Joins
<1>4. FlattenSeq(bs) = g[n]
  BY <1>1, <1>2, FlattenIs
<1> DEFINE G == {k \in 0..n : \A x : x \in ToSet(g[k]) <=> \E l \in 1..k : x \in ToSet(bs[l])}
<1>5. 0 \in G
  <2>1. ToSet(g[0]) = {}
    BY <1>3 DEF ToSet
  <2> QED BY <1>1, <2>1
<1>6. ASSUME NEW k \in 1..n, k - 1 \in G PROVE k \in G
  <2>1. bs[k] \in Seq(T) /\ g[k - 1] \in Seq(T)
    <3>1. k - 1 \in 0..n /\ k \in 1..Len(bs)
      BY <1>1
    <3>2. g[k - 1] \in Seq(T)
      BY <1>3, <3>1
    <3>3. bs[k] \in Seq(T)
      BY <3>1
    <3> QED BY <3>2, <3>3
  <2>2. ToSet(g[k]) = ToSet(g[k - 1]) \union ToSet(bs[k])
    <3>1. ToSet(g[k - 1] \o bs[k]) = ToSet(g[k - 1]) \union ToSet(bs[k])
      BY <2>1, JoinedHas, ZenonT(60)
    <3> QED BY <1>3, <3>1, Zenon
  <2>3. 1..k = 1..(k - 1) \union {k} /\ k \in 0..n
    BY <1>1
  <2> QED BY <1>6, <2>2, <2>3
<1> HIDE DEF G
<1>7. n \in G
  <2>1. \A k \in 0..n : k \in G
    BY <1>1, <1>5, <1>6, NumbersAreGood
  <2> QED BY <1>1, <2>1
<1> USE DEF G
<1>8. g[n] \in Seq(T)
  BY <1>1, <1>3
<1> QED BY <1>1, <1>4, <1>7, <1>8

\* Lists in order, joined in order.
LEMMA FlattenPairs ==
  ASSUME NEW T, NEW bs \in Seq(Seq(T)), NEW R, \A k \in 1..Len(bs) : InPairs(bs[k], R),
         \A k, l \in 1..Len(bs) : k < l =>
           \A x \in ToSet(bs[k]), y \in ToSet(bs[l]) : <<x, y>> \in R
  PROVE  InPairs(FlattenSeq(bs), R)
<1>1. PICK n : n = Len(bs) /\ n \in Nat
  OBVIOUS
<1>2. PICK g : Joins(g, bs, T)
  BY JoinsExist
<1>3. /\ g \in [0..n -> Seq(T)] /\ g[0] = <<>>
      /\ \A i \in 1..n : g[i] = g[i - 1] \o bs[i]
  BY <1>1, <1>2 DEF Joins
<1>4. FlattenSeq(bs) = g[n]
  BY <1>1, <1>2, FlattenIs
<1> DEFINE G == {k \in 0..n : /\ InPairs(g[k], R)
                              /\ \A x \in ToSet(g[k]) : \E l \in 1..k : x \in ToSet(bs[l])}
<1>5. 0 \in G
  <2>1. ToSet(g[0]) = {} /\ Len(g[0]) = 0
    BY <1>3 DEF ToSet
  <2>2. 1..Len(g[0]) = {}
    BY <2>1
  <2>3. InPairs(g[0], R)
    BY <2>2 DEF InPairs
  <2> QED BY <1>1, <2>1, <2>3
<1>6. ASSUME NEW k \in 1..n, k - 1 \in G PROVE k \in G
  <2>1. bs[k] \in Seq(T) /\ g[k - 1] \in Seq(T) /\ k \in 1..Len(bs)
    <3>1. k - 1 \in 0..n /\ k \in 1..Len(bs)
      BY <1>1
    <3>2. g[k - 1] \in Seq(T)
      BY <1>3, <3>1
    <3>3. bs[k] \in Seq(T)
      BY <3>1
    <3> QED BY <3>1, <3>2, <3>3
  <2>2. ToSet(g[k]) = ToSet(g[k - 1]) \union ToSet(bs[k])
    <3>1. ToSet(g[k - 1] \o bs[k]) = ToSet(g[k - 1]) \union ToSet(bs[k])
      BY <2>1, JoinedHas, ZenonT(60)
    <3> QED BY <1>3, <3>1, Zenon
  <2>3. 1..k = 1..(k - 1) \union {k} /\ k \in 0..n
    BY <1>1
  <2>4. ASSUME NEW x \in ToSet(g[k - 1]), NEW y \in ToSet(bs[k]) PROVE <<x, y>> \in R
    <3>1. PICK l \in 1..(k - 1) : x \in ToSet(bs[l])
      BY <1>6
    <3>2. l \in 1..Len(bs) /\ l < k
      BY <1>1
    <3> QED BY <2>1, <3>1, <3>2
  <2>5. InPairs(g[k - 1], R) /\ InPairs(bs[k], R)
    BY <1>6, <2>1
  <2>6. InPairs(g[k - 1] \o bs[k], R)
    <3> HIDE DEF G
    <3> QED BY <2>1, <2>4, <2>5, JoinedPairs
  <2> QED BY <1>3, <1>6, <2>2, <2>3, <2>6
<1> HIDE DEF G
<1>7. n \in G
  <2>1. \A k \in 0..n : k \in G
    BY <1>1, <1>5, <1>6, NumbersAreGood
  <2> QED BY <1>1, <2>1
<1> USE DEF G
<1> QED BY <1>4, <1>7

\* A list after one more.
LEMMA JoinedFirst ==
  ASSUME NEW T, NEW x \in T, NEW q \in Seq(T), NEW b, b = <<x>> \o q
  PROVE  /\ b \in Seq(T) /\ Len(b) = Len(q) + 1 /\ b[1] = x
         /\ \A i \in 1..Len(q) : b[i + 1] = q[i]
<1>1. PICK z : z = <<x>>
  OBVIOUS
<1>2. z \in Seq(T) /\ Len(z) = 1 /\ z[1] = x
  BY <1>1
<1>3. b = z \o q
  BY <1>1
<1>4. /\ b \in Seq(T) /\ Len(b) = Len(z) + Len(q)
      /\ \A i \in 1..Len(z) : b[i] = z[i]
      /\ \A i \in 1..Len(q) : b[Len(z) + i] = q[i]
  BY <1>2, <1>3, JoinedIs
<1>5. Len(q) \in Nat
  OBVIOUS
<1>6. Len(b) = Len(q) + 1
  BY <1>2, <1>4, <1>5
<1>7. b[1] = x
  <2>1. 1 \in 1..Len(z)
    BY <1>2
  <2> QED BY <1>2, <1>4, <2>1
<1>8. ASSUME NEW i \in 1..Len(q) PROVE b[i + 1] = q[i]
  <2>1. Len(z) + i = i + 1
    BY <1>2, <1>5
  <2> QED BY <1>4, <2>1
<1> QED BY <1>4, <1>6, <1>7, <1>8
=============================================================================
