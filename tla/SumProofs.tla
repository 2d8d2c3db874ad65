------------------------------ MODULE SumProofs -----------------------------
(***************************************************************************)
(* Facts about numbers and sums that the proofs of several components need.*)
(* The library's induction theorems take operators, which the provers      *)
(* cannot instantiate, so induction goes through sets of indices here:     *)
(* Induction is the principle, Recursion says that a recursive function    *)
(* over indices exists, and SetSums that a fold over a finite set is the   *)
(* sum of its members, whatever the order it takes.                        *)
(***************************************************************************)
EXTENDS Integers, FiniteSets, FiniteSetTheorems, WellFoundedInduction, TLAPS

\* A set of naturals that is not empty has a least element: the initial
\* segments below its members are ordered by inclusion.
LEMMA LeastNat ==
  ASSUME NEW T \in SUBSET Nat, T # {}
  PROVE  \E m \in T : \A k \in T : m <= k
  <1> DEFINE Below == {0..k : k \in T}
             R     == StrictSubsetOrdering(Nat)
  <1>1. Below \subseteq FiniteSubsetsOf(Nat)
    <2>1. ASSUME NEW k \in T PROVE 0..k \in FiniteSubsetsOf(Nat)
      <3>1. IsFiniteSet(0..k) /\ 0..k \subseteq Nat
        BY FS_Interval
      <3> QED BY <3>1 DEF FiniteSubsetsOf
    <2> QED BY <2>1
  <1>2. Below # {}
    OBVIOUS
  <1>3. \E x \in Below : \A y \in Below : ~(<<y, x>> \in R)
    <2> HIDE DEF Below, R
    <2>1. IsWellFoundedOn(R, FiniteSubsetsOf(Nat))
      BY FS_StrictSubsetOrderingWellFounded DEF R
    <2> QED BY <1>1, <1>2, <2>1, WFMin
  <1>4. PICK m \in T : \A k \in T : ~(<<0..k, 0..m>> \in R)
    BY <1>3
  <1>5. ASSUME NEW k \in T, k < m PROVE FALSE
    <2>1. 0..k \in SUBSET Nat /\ 0..m \in SUBSET Nat /\ 0..k \subseteq 0..m /\ m \in 0..m /\ m \notin 0..k
      BY <1>5
    <2> QED BY <2>1, <1>4 DEF StrictSubsetOrdering
  <1> QED BY <1>5

\* What holds at 0 and passes from each index to the next holds at all of them.
LEMMA Induction ==
  ASSUME NEW n \in Nat, NEW P, 0 \in P, \A i \in 1..n : i - 1 \in P => i \in P
  PROVE  \A i \in 0..n : i \in P
  <1> DEFINE Bad == (0..n) \ P
  <1>1. CASE Bad # {}
    <2>1. PICK m \in Bad : \A k \in Bad : m <= k
      <3>1. Bad \in SUBSET Nat
        OBVIOUS
      <3> HIDE DEF Bad
      <3> QED BY <1>1, <3>1, LeastNat
    <2>2. m \in 1..n
      OBVIOUS
    <2>3. m - 1 \in P
      BY <2>1, <2>2
    <2> QED BY <2>2, <2>3
  <1> QED BY <1>1

\* g starts at s and takes each index by a step from the one before.
Iterates(g, n, S, s, step) ==
    /\ g \in [0..n -> S] /\ g[0] = s
    /\ \A i \in 1..n : g[i] = step[i][g[i - 1]]

\* Such a function exists.
LEMMA Recursion ==
  ASSUME NEW n \in Nat, NEW S, NEW s \in S, NEW step \in [1..n -> [S -> S]]
  PROVE  \E g : Iterates(g, n, S, s, step)
  <1> DEFINE P == {m \in 0..n : \E g : Iterates(g, m, S, s, step)}
  <1>1. 0 \in P
    <2>1. Iterates([i \in 0..0 |-> s], 0, S, s, step)
      BY DEF Iterates
    <2> QED BY <2>1
  <1>2. ASSUME NEW m \in 1..n, m - 1 \in P PROVE m \in P
    <2>1. PICK g : Iterates(g, m - 1, S, s, step)
      BY <1>2
    <2> DEFINE h == [i \in 0..m |-> IF i = m THEN step[m][g[m - 1]] ELSE g[i]]
    <2>2. h \in [0..m -> S] /\ h[0] = s
      BY <2>1 DEF Iterates
    <2>3. \A i \in 1..m : h[i] = step[i][h[i - 1]]
      BY <2>1 DEF Iterates
    <2>4. Iterates(h, m, S, s, step)
      BY <2>2, <2>3 DEF Iterates
    <2> QED BY <2>4
  <1> HIDE DEF P
  <1>3. \A i \in 1..n : i - 1 \in P => i \in P
    BY <1>2
  <1>4. \A i \in 0..n : i \in P
    BY <1>1, <1>3, Induction
  <1>5. n \in P
    BY <1>4
  <1> QED BY <1>5 DEF P

-----------------------------------------------------------------------------
(* Sums.  A fold over a finite set is a sum, whatever the order it takes.   *)

\* g maps every subset of S to the sum of its weights.
Sums(g, S, w) ==
    /\ g \in [SUBSET S -> Nat] /\ g[{}] = 0
    /\ \A A \in SUBSET S : \A x \in A : g[A] = w[x] + g[A \ {x}]

\* g adds the weights in the order that ch picks them.
Adds(g, S, w, ch) ==
    g = [A \in SUBSET S |-> IF A = {} THEN 0 ELSE w[ch[A]] + g[A \ {ch[A]}]]

\* The same, of the sum so far and the next weight in either order.
Accumulates(g, S, w, ch) ==
    /\ g = [A \in SUBSET S |-> g[A]] /\ g[{}] = 0
    /\ \A A \in SUBSET S : A # {} =>
          g[A] \in {w[ch[A]] + g[A \ {ch[A]}], g[A \ {ch[A]}] + w[ch[A]]}

\* The size of a subset, and of what is left when a member is taken out.
LEMMA Sizes ==
  ASSUME NEW S, IsFiniteSet(S), NEW A \in SUBSET S
  PROVE  /\ Cardinality(S) \in Nat /\ Cardinality(A) \in 0..Cardinality(S)
         /\ Cardinality(A) = 0 <=> A = {}
         /\ \A x \in A : Cardinality(A \ {x}) = Cardinality(A) - 1
  <1>1. IsFiniteSet(A) /\ Cardinality(A) <= Cardinality(S)
    BY FS_Subset
  <1>2. Cardinality(S) \in Nat /\ Cardinality(A) \in Nat
    BY <1>1, FS_CardinalityType
  <1>3. Cardinality(A) = 0 <=> A = {}
    BY <1>1, FS_EmptySet
  <1>4. \A x \in A : Cardinality(A \ {x}) = Cardinality(A) - 1
    BY <1>1, FS_RemoveElement
  <1> QED BY <1>1, <1>2, <1>3, <1>4

\* Such a fold exists.
LEMMA AddsExists ==
  ASSUME NEW S, IsFiniteSet(S), NEW w, NEW ch, \A A \in SUBSET S : A # {} => ch[A] \in A
  PROVE  \E g : Adds(g, S, w, ch)
  <1> DEFINE n == Cardinality(S)
             Step(g, A) == IF A = {} THEN 0 ELSE w[ch[A]] + g[A \ {ch[A]}]
             Upto(g, k) == \A A \in SUBSET S : Cardinality(A) <= k => g[A] = Step(g, A)
             P == {k \in 0..n : \E g : Upto(g, k)}
  <1>0. n \in Nat
    BY Sizes
  <1>1. 0 \in P
    <2> DEFINE g == [A \in SUBSET S |-> 0]
    <2>1. ASSUME NEW A \in SUBSET S, Cardinality(A) <= 0 PROVE g[A] = Step(g, A)
      <3>1. A = {}
        BY <2>1, Sizes
      <3> QED BY <3>1
    <2> HIDE DEF g, Step
    <2>2. Upto(g, 0) /\ 0 \in 0..n
      BY <1>0, <2>1
    <2> HIDE DEF Upto
    <2> QED BY <2>2
  <1>2. ASSUME NEW k \in 1..n, k - 1 \in P PROVE k \in P
    <2>1. PICK g : Upto(g, k - 1)
      BY <1>2
    <2> DEFINE h == [A \in SUBSET S |-> Step(g, A)]
    <2>2. ASSUME NEW A \in SUBSET S, Cardinality(A) <= k PROVE h[A] = Step(h, A)
      <3>1. CASE A = {}
        BY <3>1
      <3>2. CASE A # {}
        <4> DEFINE B == A \ {ch[A]}
        <4>1. ch[A] \in A /\ B \in SUBSET S
          BY <3>2
        <4>2. Cardinality(B) <= k - 1
          <5>1. Cardinality(B) = Cardinality(A) - 1 /\ Cardinality(A) \in Nat
            BY <1>0, <4>1, Sizes
          <5> QED BY <2>2, <5>1
        <4>3. g[B] = Step(g, B)
          BY <2>1, <4>1, <4>2
        <4>4. h[B] = g[B]
          <5> HIDE DEF Step, B
          <5> QED BY <4>1, <4>3
        <4>5. h[A] = w[ch[A]] + g[B]
          BY <3>2
        <4> QED BY <3>2, <4>4, <4>5
      <3> QED BY <3>1, <3>2
    <2> HIDE DEF h, Step
    <2>3. Upto(h, k)
      BY <2>2
    <2> QED BY <2>3
  <1>3. \A k \in 0..n : k \in P
    <2> HIDE DEF P, n
    <2> QED BY <1>0, <1>1, <1>2, Induction
  <1>4. PICK g : Upto(g, n)
    <2>1. n \in P
      <3> HIDE DEF P
      <3> QED BY <1>0, <1>3
    <2> HIDE DEF Upto, n
    <2> QED BY <2>1
  <1> DEFINE h == [A \in SUBSET S |-> g[A]]
  <1>5. ASSUME NEW A \in SUBSET S PROVE h[A] = Step(h, A)
    <2>1. g[A] = Step(g, A)
      <3>1. Cardinality(A) <= n
        BY <1>0, Sizes
      <3> HIDE DEF Step, n
      <3> QED BY <1>4, <3>1
    <2> QED BY <2>1
  <1>6. h = [A \in SUBSET S |-> Step(h, A)]
    <2>1. h = [A \in SUBSET S |-> h[A]]
      OBVIOUS
    <2> HIDE DEF h, Step
    <2> QED BY <1>5, <2>1
  <1> QED BY <1>6 DEF Adds

\* And it is the sum, in whatever order.
LEMMA AccumulatesSums ==
  ASSUME NEW S, IsFiniteSet(S), NEW w \in [S -> Nat],
         NEW ch, \A A \in SUBSET S : A # {} => ch[A] \in A, NEW g, Accumulates(g, S, w, ch)
  PROVE  Sums(g, S, w)
  <1> DEFINE n == Cardinality(S)
             Good(A) == g[A] \in Nat /\ \A x \in A : g[A] = w[x] + g[A \ {x}]
             P == {k \in 0..n : \A A \in SUBSET S : Cardinality(A) <= k => Good(A)}
  <1>0. n \in Nat
    BY Sizes
  <1>1. /\ \A A \in SUBSET S : A # {} =>
              g[A] = w[ch[A]] + g[A \ {ch[A]}] \/ g[A] = g[A \ {ch[A]}] + w[ch[A]]
        /\ g = [A \in SUBSET S |-> g[A]]
    BY DEF Accumulates
  <1>2. g[{}] = 0
    BY DEF Accumulates
  <1>3. 0 \in P
    <2>1. ASSUME NEW A \in SUBSET S, Cardinality(A) <= 0 PROVE Good(A)
      <3>1. A = {}
        BY <2>1, Sizes
      <3> QED BY <1>2, <3>1
    <2> HIDE DEF Good
    <2> QED BY <1>0, <2>1
  <1>4. ASSUME NEW k \in 1..n, k - 1 \in P PROVE k \in P
    <2>1. ASSUME NEW A \in SUBSET S, Cardinality(A) <= k PROVE Good(A)
      <3>1. CASE A = {}
        BY <1>2, <3>1
      <3>2. CASE A # {}
        <4> DEFINE c == ch[A]
        <4>0. c \in A /\ c \in S
          BY <3>2
        <4>1. ASSUME NEW x \in A PROVE Good(A \ {x})
          <5>1. Cardinality(A \ {x}) = Cardinality(A) - 1 /\ Cardinality(A) \in Nat
            BY <1>0, Sizes
          <5>2. Cardinality(A \ {x}) <= k - 1
            BY <2>1, <5>1
          <5> HIDE DEF Good
          <5> QED BY <1>4, <5>2
        <4>2. g[A \ {c}] \in Nat /\ w[c] \in Nat /\ g[A] = w[c] + g[A \ {c}]
          <5>1. g[A \ {c}] \in Nat /\ w[c] \in Nat
            BY <4>0, <4>1
          <5>2. g[A] = w[c] + g[A \ {c}] \/ g[A] = g[A \ {c}] + w[c]
            BY <1>1, <3>2
          <5> QED BY <5>1, <5>2
        <4>3. ASSUME NEW x \in A PROVE g[A] = w[x] + g[A \ {x}]
          <5>1. CASE x = c
            BY <4>2, <5>1
          <5>2. CASE x # c
            <6> DEFINE B == A \ {x, c}
            <6>1. (A \ {c}) \ {x} = B /\ (A \ {x}) \ {c} = B
              OBVIOUS
            <6>2. g[A \ {c}] = w[x] + g[B]
              <7>1. Good(A \ {c}) /\ x \in A \ {c}
                BY <4>0, <4>1, <5>2
              <7>2. g[A \ {c}] = w[x] + g[(A \ {c}) \ {x}]
                BY <7>1
              <7> QED BY <6>1, <7>2
            <6>3. g[A \ {x}] = w[c] + g[B] /\ g[A \ {x}] \in Nat
              <7>1. Good(A \ {x}) /\ c \in A \ {x}
                BY <4>0, <4>1, <5>2
              <7>2. g[A \ {x}] = w[c] + g[(A \ {x}) \ {c}] /\ g[A \ {x}] \in Nat
                BY <7>1
              <7> QED BY <6>1, <7>2
            <6>4. w[x] \in Nat
              OBVIOUS
            <6>5. g[B] \in Nat
              <7>1. B \in SUBSET S
                OBVIOUS
              <7>2. Cardinality(B) <= k - 1
                <8>1. /\ Cardinality(A \ {c}) = Cardinality(A) - 1
                      /\ Cardinality((A \ {c}) \ {x}) = Cardinality(A \ {c}) - 1
                      /\ Cardinality(A) \in Nat
                  <9>1. A \ {c} \in SUBSET S /\ x \in A \ {c}
                    BY <5>2
                  <9>2. Cardinality((A \ {c}) \ {x}) = Cardinality(A \ {c}) - 1
                    BY <9>1, Sizes
                  <9>3. Cardinality(A \ {c}) = Cardinality(A) - 1 /\ Cardinality(A) \in Nat
                    BY <1>0, <4>0, Sizes
                  <9> QED BY <9>2, <9>3
                <8>2. Cardinality(B) = Cardinality(A) - 1 - 1
                  BY <6>1, <8>1
                <8> HIDE DEF B
                <8> QED BY <1>0, <2>1, <8>1, <8>2
              <7> QED BY <1>4, <7>1, <7>2
            <6> HIDE DEF B
            <6> QED BY <4>0, <4>2, <6>2, <6>3, <6>4, <6>5
          <5> QED BY <5>1, <5>2
        <4> QED BY <4>0, <4>2, <4>3
      <3> QED BY <3>1, <3>2
    <2> HIDE DEF Good
    <2> QED BY <2>1
  <1>5. \A k \in 0..n : k \in P
    <2> HIDE DEF P, n
    <2> QED BY <1>0, <1>3, <1>4, Induction
  <1>6. ASSUME NEW A \in SUBSET S PROVE Good(A)
    <2>1. n \in P /\ Cardinality(A) <= n
      BY <1>0, <1>5, Sizes
    <2> HIDE DEF Good, n
    <2> QED BY <2>1
  <1> QED BY <1>1, <1>2, <1>6 DEF Sums

\* The fold of a set.
FoldsSet(g, S, w) ==
    g = [A \in SUBSET S |-> IF A = {} THEN 0
                            ELSE w[CHOOSE x \in A : TRUE] + g[A \ {CHOOSE x \in A : TRUE}]]

\* It exists and is the sum of its members.
LEMMA SetSums ==
  ASSUME NEW S, IsFiniteSet(S), NEW w \in [S -> Nat]
  PROVE  (\E g : FoldsSet(g, S, w)) /\ \A f : FoldsSet(f, S, w) => Sums(f, S, w)
  <1> DEFINE ch == [A \in SUBSET S |-> CHOOSE x \in A : TRUE]
  <1>1. \A A \in SUBSET S : ch[A] = (CHOOSE x \in A : TRUE) /\ (A # {} => ch[A] \in A)
    OBVIOUS
  <1> HIDE DEF ch
  <1>2. \A g : FoldsSet(g, S, w) <=> Adds(g, S, w, ch)
    <2> TAKE g
    <2>1. ASSUME NEW A \in SUBSET S
          PROVE  (IF A = {} THEN 0 ELSE w[ch[A]] + g[A \ {ch[A]}])
                   = IF A = {} THEN 0
                     ELSE w[CHOOSE x \in A : TRUE] + g[A \ {CHOOSE x \in A : TRUE}]
      BY <1>1
    <2> QED BY <2>1 DEF FoldsSet, Adds
  <1>3. \E g : Adds(g, S, w, ch)
    BY <1>1, AddsExists
  <1>4. ASSUME NEW f, Adds(f, S, w, ch) PROVE Sums(f, S, w)
    <2>1. Accumulates(f, S, w, ch)
      BY <1>4 DEF Adds, Accumulates
    <2> QED BY <1>1, <2>1, AccumulatesSums
  <1> QED BY <1>2, <1>3, <1>4

\* f takes I to members of S with the same weights, no two to the same one.
OneToOne(f, I, v, S, w) ==
    /\ f \in [I -> S]
    /\ \A i, j \in I : f[i] = f[j] => i = j
    /\ \A i \in I : v[i] = w[f[i]]

Img(f, A) == {f[i] : i \in A}

\* Sums of the same weights, one to one, are the same.
LEMMA SumsMatch ==
  ASSUME NEW I, IsFiniteSet(I), NEW v, NEW g, Sums(g, I, v),
         NEW S, NEW w, NEW h, Sums(h, S, w), NEW f, OneToOne(f, I, v, S, w)
  PROVE  \A A \in SUBSET I : g[A] = h[Img(f, A)]
  <1> DEFINE n == Cardinality(I)
             P == {k \in 0..n : \A A \in SUBSET I : Cardinality(A) <= k => g[A] = h[Img(f, A)]}
  <1>0. n \in Nat
    BY Sizes
  <1>1. ASSUME NEW A \in SUBSET I, NEW i \in A
        PROVE  Img(f, A) \in SUBSET S /\ f[i] \in Img(f, A) /\ Img(f, A) \ {f[i]} = Img(f, A \ {i})
    BY DEF OneToOne, Img
  <1>2. 0 \in P
    <2>1. ASSUME NEW A \in SUBSET I, Cardinality(A) <= 0 PROVE g[A] = h[Img(f, A)]
      <3>1. A = {} /\ Img(f, {}) = {}
        BY <2>1, Sizes DEF Img
      <3> QED BY <3>1 DEF Sums
    <2> QED BY <1>0, <2>1
  <1>3. ASSUME NEW k \in 1..n, k - 1 \in P PROVE k \in P
    <2>1. ASSUME NEW A \in SUBSET I, Cardinality(A) <= k PROVE g[A] = h[Img(f, A)]
      <3>1. CASE A = {}
        <4>1. Cardinality(A) <= k - 1
          BY <3>1, Sizes
        <4> QED BY <1>3, <4>1
      <3>2. CASE A # {}
        <4>1. PICK i : i \in A
          BY <3>2
        <4>2. g[A] = v[i] + g[A \ {i}]
          BY <4>1 DEF Sums
        <4>3. h[Img(f, A)] = w[f[i]] + h[Img(f, A) \ {f[i]}]
          <5>1. Img(f, A) \in SUBSET S /\ f[i] \in Img(f, A)
            BY <1>1, <4>1
          <5> QED BY <5>1 DEF Sums
        <4>4. Cardinality(A \ {i}) <= k - 1
          <5>1. Cardinality(A \ {i}) = Cardinality(A) - 1 /\ Cardinality(A) \in Nat
            BY <1>0, <4>1, Sizes
          <5> QED BY <2>1, <5>1
        <4>5. g[A \ {i}] = h[Img(f, A \ {i})]
          BY <1>3, <4>4
        <4>6. v[i] = w[f[i]] /\ Img(f, A) \ {f[i]} = Img(f, A \ {i})
          BY <1>1, <4>1 DEF OneToOne
        <4> QED BY <4>2, <4>3, <4>5, <4>6
      <3> QED BY <3>1, <3>2
    <2> QED BY <2>1
  <1>4. \A k \in 0..n : k \in P
    <2> HIDE DEF P, n
    <2> QED BY <1>0, <1>2, <1>3, Induction
  <1>5. ASSUME NEW A \in SUBSET I PROVE g[A] = h[Img(f, A)]
    <2>1. n \in P
      <3> HIDE DEF P
      <3> QED BY <1>0, <1>4
    <2>2. Cardinality(A) <= n
      BY <1>0, Sizes
    <2> HIDE DEF n
    <2> QED BY <2>1, <2>2
  <1> QED BY <1>5

\* The sum of two sets apart is the sum of their sums.
LEMMA SumsUnion ==
  ASSUME NEW S, IsFiniteSet(S), NEW w \in [S -> Nat], NEW g, Sums(g, S, w),
         NEW A \in SUBSET S, NEW B \in SUBSET S, A \cap B = {}
  PROVE  g[A \cup B] = g[A] + g[B]
  <1> DEFINE n == Cardinality(S)
             P == {k \in 0..n : \A C \in SUBSET S : Cardinality(C) <= k /\ A \cap C = {} =>
                                   g[A \cup C] = g[A] + g[C]}
  <1>0. n \in Nat /\ g[{}] = 0 /\ \A C \in SUBSET S : g[C] \in Nat
    BY Sizes DEF Sums
  <1>1. 0 \in P
    <2>1. ASSUME NEW C \in SUBSET S, Cardinality(C) <= 0 PROVE g[A \cup C] = g[A] + g[C]
      <3>1. C = {} /\ A \cup {} = A
        BY <2>1, Sizes
      <3> QED BY <1>0, <3>1
    <2> QED BY <1>0, <2>1
  <1>2. ASSUME NEW k \in 1..n, k - 1 \in P PROVE k \in P
    <2>1. ASSUME NEW C \in SUBSET S, Cardinality(C) <= k, A \cap C = {}
          PROVE  g[A \cup C] = g[A] + g[C]
      <3>1. CASE C = {}
        <4>1. A \cup {} = A
          OBVIOUS
        <4> QED BY <1>0, <3>1, <4>1
      <3>2. CASE C # {}
        <4>1. PICK x : x \in C
          BY <3>2
        <4> DEFINE D == C \ {x}
        <4>2. (A \cup C) \ {x} = A \cup D /\ D \in SUBSET S /\ A \cap D = {} /\ A \cup C \in SUBSET S
          BY <2>1, <4>1
        <4>3. Cardinality(D) <= k - 1
          <5>1. Cardinality(D) = Cardinality(C) - 1 /\ Cardinality(C) \in Nat
            BY <1>0, <4>1, Sizes
          <5> QED BY <2>1, <5>1
        <4>4. g[C] = w[x] + g[D] /\ w[x] \in Nat
          BY <4>1 DEF Sums
        <4>5. g[A \cup C] = w[x] + g[A \cup D]
          <5>1. x \in A \cup C
            BY <4>1
          <5>2. g[A \cup C] = w[x] + g[(A \cup C) \ {x}]
            BY <4>2, <5>1 DEF Sums
          <5> QED BY <4>2, <5>2
        <4> HIDE DEF D
        <4>6. g[A \cup D] = g[A] + g[D]
          BY <1>2, <4>2, <4>3
        <4> QED BY <1>0, <4>2, <4>4, <4>5, <4>6
      <3> QED BY <3>1, <3>2
    <2> QED BY <2>1
  <1>3. \A k \in 0..n : k \in P
    <2> HIDE DEF P, n
    <2> QED BY <1>0, <1>1, <1>2, Induction
  <1>4. n \in P /\ Cardinality(B) <= n
    BY <1>0, <1>3, Sizes
  <1> HIDE DEF n
  <1> QED BY <1>4
=============================================================================
