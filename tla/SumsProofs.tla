----------------------------- MODULE SumsProofs -----------------------------
(***************************************************************************)
(* Sums of naturals over a finite set.  The fold of the community modules  *)
(* takes the elements in an order that CHOOSE fixes; that the order does   *)
(* not matter is shown by counting tokens, of which each element has as    *)
(* many as its number.                                                     *)
(***************************************************************************)
EXTENDS Sums, Integers, FiniteSets, FiniteSetTheorems, TLAPS

Plus(m, n) == m + n

Tokens(f, S) == UNION {{x} \X (1..f[x]) : x \in S}

\* A number's tokens.
LEMMA TokensOfOne ==
    ASSUME NEW x, NEW n \in Nat
    PROVE  IsFiniteSet({x} \X (1..n)) /\ Cardinality({x} \X (1..n)) = n
<1>1. IsFiniteSet(1..n) /\ Cardinality(1..n) = n
  BY FS_Interval
<1>2. IsFiniteSet({x}) /\ Cardinality({x}) = 1
  BY FS_Singleton
<1>. QED BY <1>1, <1>2, FS_Product

\* What two sets with nothing in common have together.
LEMMA DisjointUnion ==
    ASSUME NEW A, IsFiniteSet(A), NEW B, IsFiniteSet(B), Cardinality(A \cap B) = 0
    PROVE  /\ IsFiniteSet(A \cup B)
           /\ Cardinality(A \cup B) = Cardinality(A) + Cardinality(B) - 0
<1>1. /\ IsFiniteSet(A \cup B)
      /\ Cardinality(A \cup B) = Cardinality(A) + Cardinality(B) - Cardinality(A \cap B)
  BY FS_Union, Zenon
<1>. QED BY <1>1

\* One more element brings its tokens.
LEMMA TokensOfMore ==
    ASSUME NEW f, NEW T, NEW x \in T, f[x] \in Nat, IsFiniteSet(Tokens(f, T \ {x}))
    PROVE  /\ IsFiniteSet(Tokens(f, T))
           /\ Cardinality(Tokens(f, T)) = Plus(f[x], Cardinality(Tokens(f, T \ {x})))
<1>1. Tokens(f, T) = Tokens(f, T \ {x}) \cup ({x} \X (1..f[x]))
  BY DEF Tokens
<1>2. Tokens(f, T \ {x}) \cap ({x} \X (1..f[x])) = {}
  BY DEF Tokens
<1>3. IsFiniteSet({x} \X (1..f[x])) /\ Cardinality({x} \X (1..f[x])) = f[x]
  BY TokensOfOne
<1>4. Cardinality(Tokens(f, T \ {x}) \cap ({x} \X (1..f[x]))) = 0
  BY <1>2, FS_EmptySet
<1>5. Cardinality(Tokens(f, T \ {x})) \in Nat
  BY FS_CardinalityType
<1>7. f[x] \in Nat
  OBVIOUS
<1>8. /\ IsFiniteSet(Tokens(f, T \ {x}) \cup ({x} \X (1..f[x])))
      /\ Cardinality(Tokens(f, T \ {x}) \cup ({x} \X (1..f[x]))) =
            Cardinality(Tokens(f, T \ {x})) + Cardinality({x} \X (1..f[x])) - 0
  BY <1>3, <1>4, DisjointUnion
<1>9. Cardinality(Tokens(f, T)) = Cardinality(Tokens(f, T \ {x})) + f[x]
  BY <1>1, <1>3, <1>7, <1>8
<1>. QED BY <1>1, <1>5, <1>7, <1>8, <1>9 DEF Plus

\* A statement about subsets of a finite set holds of all of them if it holds of
\* each one when it holds of the smaller ones.  G is the set of those of which it holds.
LEMMA SubsetInduction ==
    ASSUME NEW S, IsFiniteSet(S), NEW G,
           \A T \in SUBSET S : (\A U \in SUBSET T : U # T => U \in G) => T \in G
    PROVE  SUBSET S \subseteq G
<1>. SUFFICES ASSUME ~(SUBSET S \subseteq G) PROVE FALSE
  OBVIOUS
<1>. DEFINE Bad == (SUBSET S) \ G
<1>1. Bad # {} /\ Bad \subseteq FiniteSubsetsOf(S)
  BY FS_Subset DEF FiniteSubsetsOf
<1>2. IsWellFoundedOn(StrictSubsetOrdering(S), FiniteSubsetsOf(S))
  BY FS_StrictSubsetOrderingWellFounded
<1>3. PICK T \in Bad : \A U \in Bad : <<U, T>> \notin StrictSubsetOrdering(S)
  <2>. HIDE DEF Bad
  <2>. QED BY <1>1, <1>2, WFMin
<1>4. \A U \in SUBSET T : U # T => U \in G
  BY <1>3 DEF StrictSubsetOrdering
<1>. QED BY <1>3, <1>4

\* Tokens are finitely many.
LEMMA TokensAreFinite ==
    ASSUME NEW S, IsFiniteSet(S), NEW f, \A x \in S : f[x] \in Nat
    PROVE  \A T \in SUBSET S : IsFiniteSet(Tokens(f, T))
<1>. DEFINE G == {T \in SUBSET S : IsFiniteSet(Tokens(f, T))}
<1>1. ASSUME NEW T \in SUBSET S, \A U \in SUBSET T : U # T => U \in G PROVE T \in G
  <2>1. CASE T = {}
    <3>1. Tokens(f, T) = {}
      BY <2>1 DEF Tokens
    <3>. QED BY <3>1, FS_EmptySet
  <2>2. CASE T # {}
    <3>1. PICK x \in T : TRUE
      BY <2>2
    <3>2. IsFiniteSet(Tokens(f, T \ {x}))
      BY <1>1, <3>1
    <3>. QED BY <3>1, <3>2, TokensOfMore
  <2>. QED BY <2>1, <2>2
<1>2. SUBSET S \subseteq G
  <2>. HIDE DEF G
  <2>. QED BY <1>1, SubsetInduction
<1>. QED BY <1>2

\* The sum over a finite set is the number of the tokens of its elements.
LEMMA SumCountsTokens ==
    ASSUME NEW S, IsFiniteSet(S), NEW f, \A x \in S : f[x] \in Nat
    PROVE  Sum(f, S) = Cardinality(Tokens(f, S))
<1>. DEFINE E(it) == [s \in SUBSET S |-> IF s = {} THEN 0
                       ELSE LET x == CHOOSE x \in s : TRUE IN f[x] + it[s \ {x}]]
            it == CHOOSE it : it = E(it)
            g == [s \in SUBSET S |-> Cardinality(Tokens(f, s))]
<1>1. Sum(f, S) = it[S]
  BY DEF Sum, MapThenSumSet, MapThenFoldSet
<1>2. \A s \in SUBSET S : s # {} =>
          g[s] = f[CHOOSE x \in s : TRUE] + g[s \ {CHOOSE x \in s : TRUE}]
  <2>1. ASSUME NEW s \in SUBSET S, NEW x \in s
        PROVE  Cardinality(Tokens(f, s)) = f[x] + Cardinality(Tokens(f, s \ {x}))
    <3>1. s \ {x} \in SUBSET S
      OBVIOUS
    <3>2. IsFiniteSet(Tokens(f, s \ {x}))
      BY <3>1, TokensAreFinite
    <3>. HIDE DEF g, it, E
    <3>3. \A y \in S : f[y] \in Nat
      OBVIOUS
    <3>4. Cardinality(Tokens(f, s)) = Plus(f[x], Cardinality(Tokens(f, s \ {x})))
      BY <3>2, <3>3, TokensOfMore
    <3>. QED BY <3>4 DEF Plus
  <2>2. \A s \in SUBSET S : s # {} => (CHOOSE x \in s : TRUE) \in s
    OBVIOUS
  <2>. QED BY <2>1, <2>2
<1>3. g[{}] = 0
  BY FS_EmptySet DEF Tokens
<1>4. g = E(g)
  BY <1>2, <1>3
<1>5. it = E(it)
  <2>. HIDE DEF E, g
  <2>. QED BY <1>4
<1>6. SUBSET S \subseteq {s \in SUBSET S : it[s] = g[s]}
  <2>. DEFINE G == {s \in SUBSET S : it[s] = g[s]}
  <2>1. ASSUME NEW s \in SUBSET S, \A U \in SUBSET s : U # s => U \in G PROVE s \in G
    <3>. HIDE DEF it, g
    <3>1. it[s] = E(it)[s] /\ g[s] = E(g)[s]
      BY <1>4, <1>5
    <3>2. CASE s = {}
      BY <3>1, <3>2
    <3>3. CASE s # {}
      <4>1. PICK x \in s : x = CHOOSE y \in s : TRUE
        BY <3>3
      <4>2. it[s \ {x}] = g[s \ {x}]
        BY <2>1, <4>1
      <4>3. it[s] = f[x] + it[s \ {x}] /\ g[s] = f[x] + g[s \ {x}]
        BY <3>1, <3>3, <4>1
      <4>. QED BY <4>2, <4>3
    <3>. QED BY <3>2, <3>3
  <2>. HIDE DEF G
  <2>2. SUBSET S \subseteq G
    BY <2>1, SubsetInduction
  <2>. QED BY <2>2 DEF G
<1>7. it[S] = g[S]
  <2>. HIDE DEF it, g
  <2>. QED BY <1>6
<1>. QED BY <1>1, <1>7

-----------------------------------------------------------------------------
(* What a sum is worth, and how it changes.                                *)

\* A sum of naturals is a natural; that of nothing is zero.
LEMMA SumType ==
    ASSUME NEW S, IsFiniteSet(S), NEW f, \A x \in S : f[x] \in Nat
    PROVE  Sum(f, S) \in Nat
<1>1. Sum(f, S) = Cardinality(Tokens(f, S))
  BY SumCountsTokens
<1>2. IsFiniteSet(Tokens(f, S))
  BY TokensAreFinite
<1>. QED BY <1>1, <1>2, FS_CardinalityType

\* Only the values on the set count.
LEMMA SumSame ==
    ASSUME NEW S, IsFiniteSet(S), NEW f, NEW g, \A x \in S : f[x] \in Nat /\ g[x] = f[x]
    PROVE  Sum(g, S) = Sum(f, S)
<1>1. Tokens(f, S) = Tokens(g, S)
  BY DEF Tokens
<1>2. Sum(f, S) = Cardinality(Tokens(f, S))
  BY SumCountsTokens
<1>3. Sum(g, S) = Cardinality(Tokens(g, S))
  BY SumCountsTokens
<1>. QED BY <1>1, <1>2, <1>3

\* The sum over two sets that have nothing in common.
LEMMA SumOfUnion ==
    ASSUME NEW A, IsFiniteSet(A), NEW B, IsFiniteSet(B), A \cap B = {},
           NEW f, \A x \in A \cup B : f[x] \in Nat
    PROVE  Sum(f, A \cup B) = Sum(f, A) + Sum(f, B)
<1>1. Tokens(f, A \cup B) = Tokens(f, A) \cup Tokens(f, B)
      /\ Tokens(f, A) \cap Tokens(f, B) = {}
  BY DEF Tokens
<1>2. IsFiniteSet(Tokens(f, A)) /\ IsFiniteSet(Tokens(f, B))
  BY TokensAreFinite
<1>3. IsFiniteSet(A \cup B)
  BY FS_Union
<1>4. /\ Sum(f, A) = Cardinality(Tokens(f, A))
      /\ Sum(f, B) = Cardinality(Tokens(f, B))
      /\ Sum(f, A \cup B) = Cardinality(Tokens(f, A \cup B))
  BY <1>3, SumCountsTokens
<1>5. Cardinality(Tokens(f, A) \cap Tokens(f, B)) = 0
  BY <1>1, FS_EmptySet
<1>6. Cardinality(Tokens(f, A) \cup Tokens(f, B)) =
          Cardinality(Tokens(f, A)) + Cardinality(Tokens(f, B)) - 0
  BY <1>2, <1>5, DisjointUnion
<1>7. Sum(f, A) \in Nat /\ Sum(f, B) \in Nat
  BY SumType
<1>8. Sum(f, A \cup B) = Sum(f, A) + Sum(f, B) - 0
  BY <1>1, <1>4, <1>6, Zenon
<1>. QED BY <1>7, <1>8

\* The sum over one element.
LEMMA SumOfOne ==
    ASSUME NEW x, NEW f, f[x] \in Nat
    PROVE  Sum(f, {x}) = f[x]
<1>1. IsFiniteSet({x})
  BY FS_Singleton
<1>2. Sum(f, {x}) = Cardinality(Tokens(f, {x}))
  BY <1>1, SumCountsTokens
<1>3. Tokens(f, {x}) = {x} \X (1..f[x])
  BY DEF Tokens
<1>. QED BY <1>2, <1>3, TokensOfOne

\* One element is taken out of a sum.
LEMMA SumSplit ==
    ASSUME NEW S, IsFiniteSet(S), NEW x \in S, NEW f, \A y \in S : f[y] \in Nat
    PROVE  /\ Sum(f, S) = f[x] + Sum(f, S \ {x})
           /\ Sum(f, S \ {x}) \in Nat
<1>1. IsFiniteSet({x}) /\ IsFiniteSet(S \ {x})
  BY FS_Singleton, FS_Difference
<1>2. Sum(f, {x}) = f[x]
  BY SumOfOne
<1>3. Sum(f, S \ {x}) \in Nat
  BY <1>1, SumType
<1>4. {x} \cap (S \ {x}) = {} /\ {x} \cup (S \ {x}) = S
  OBVIOUS
<1>5. Sum(f, {x} \cup (S \ {x})) = Sum(f, {x}) + Sum(f, S \ {x})
  BY <1>1, <1>4, SumOfUnion
<1>. QED BY <1>2, <1>3, <1>4, <1>5

\* The value of one element changes.
LEMMA SumChange ==
    ASSUME NEW S, IsFiniteSet(S), NEW x \in S,
           NEW f, \A y \in S : f[y] \in Nat,
           NEW g, \A y \in S : g[y] \in Nat,
           \A y \in S : y # x => g[y] = f[y]
    PROVE  Sum(g, S) = Sum(f, S) - f[x] + g[x]
<1>1. /\ Sum(f, S) = f[x] + Sum(f, S \ {x})
      /\ Sum(f, S \ {x}) \in Nat
  BY SumSplit
<1>2. /\ Sum(g, S) = g[x] + Sum(g, S \ {x})
      /\ Sum(g, S \ {x}) \in Nat
  BY SumSplit
<1>3. IsFiniteSet(S \ {x})
  BY FS_Difference
<1>4. Sum(g, S \ {x}) = Sum(f, S \ {x})
  BY <1>3, SumSame
<1>5. f[x] \in Nat /\ g[x] \in Nat
  OBVIOUS
<1>. QED BY <1>1, <1>2, <1>4, <1>5

\* A value is at most the sum.
LEMMA SumBounds ==
    ASSUME NEW S, IsFiniteSet(S), NEW x \in S, NEW f, \A y \in S : f[y] \in Nat
    PROVE  f[x] <= Sum(f, S)
<1>1. Sum(f, S) = f[x] + Sum(f, S \ {x}) /\ Sum(f, S \ {x}) \in Nat
  BY SumSplit
<1>2. f[x] \in Nat
  OBVIOUS
<1>. QED BY <1>1, <1>2

\* Zeros add up to zero.
LEMMA SumOfZeros ==
    ASSUME NEW S, IsFiniteSet(S), NEW f, \A x \in S : f[x] = 0
    PROVE  Sum(f, S) = 0
<1>1. Sum(f, S) = Cardinality(Tokens(f, S))
  BY SumCountsTokens
<1>2. Tokens(f, S) = {}
  BY DEF Tokens
<1>. QED BY <1>1, <1>2, FS_EmptySet

\* Sums of two functions add up.
LEMMA SumOfPairs ==
    ASSUME NEW S, IsFiniteSet(S), NEW f, NEW g, NEW h,
           \A x \in S : f[x] \in Nat /\ g[x] \in Nat /\ h[x] = f[x] + g[x]
    PROVE  Sum(h, S) = Sum(f, S) + Sum(g, S)
<1>. DEFINE G == {T \in SUBSET S : Sum(h, T) = Sum(f, T) + Sum(g, T)}
<1>1. ASSUME NEW T \in SUBSET S, \A U \in SUBSET T : U # T => U \in G PROVE T \in G
  <2>1. CASE T = {}
    <3>1. Sum(f, T) = 0 /\ Sum(g, T) = 0 /\ Sum(h, T) = 0
      BY <2>1, FS_EmptySet, SumOfZeros
    <3>. QED BY <3>1
  <2>2. CASE T # {}
    <3>1. PICK x \in T : TRUE
      BY <2>2
    <3>2. IsFiniteSet(T)
      BY FS_Subset
    <3>3. \A y \in T : f[y] \in Nat /\ g[y] \in Nat /\ h[y] \in Nat
      OBVIOUS
    <3>4. /\ Sum(f, T) = f[x] + Sum(f, T \ {x}) /\ Sum(f, T \ {x}) \in Nat
          /\ Sum(g, T) = g[x] + Sum(g, T \ {x}) /\ Sum(g, T \ {x}) \in Nat
          /\ Sum(h, T) = h[x] + Sum(h, T \ {x}) /\ Sum(h, T \ {x}) \in Nat
      <4>. HIDE DEF G
      <4>. QED BY <3>1, <3>2, <3>3, SumSplit
    <3>5. Sum(h, T \ {x}) = Sum(f, T \ {x}) + Sum(g, T \ {x})
      BY <1>1, <3>1
    <3>6. f[x] \in Nat /\ g[x] \in Nat /\ h[x] = f[x] + g[x]
      BY <3>1
    <3>. QED BY <3>4, <3>5, <3>6
  <2>. QED BY <2>1, <2>2
<1>2. SUBSET S \subseteq G
  <2>. HIDE DEF G
  <2>. QED BY <1>1, SubsetInduction
<1>. QED BY <1>2

\* The elements are put into classes; the sums of the classes add up to the whole.
LEMMA SumOfClasses ==
    ASSUME NEW S, IsFiniteSet(S), NEW f, \A x \in S : f[x] \in Nat,
           NEW C, IsFiniteSet(C), NEW class, \A x \in S : class[x] \in C,
           NEW part, \A c \in C : \A x : x \in part[c] <=> x \in S /\ class[x] = c,
           NEW h, \A c \in C : h[c] = Sum(f, part[c])
    PROVE  Sum(h, C) = Sum(f, S)
<1>. DEFINE In(T) == {x \in S : class[x] \in T}
            G == {T \in SUBSET C : Sum(h, T) = Sum(f, In(T))}
<1>0. \A c \in C : h[c] \in Nat
  <2>. TAKE c \in C
  <2>1. part[c] \subseteq S
    OBVIOUS
  <2>2. IsFiniteSet(part[c])
    BY <2>1, FS_Subset
  <2>3. \A x \in part[c] : f[x] \in Nat
    BY <2>1
  <2>4. Sum(f, part[c]) \in Nat
    BY <2>2, <2>3, SumType
  <2>. QED BY <2>4
<1>1. ASSUME NEW T \in SUBSET C, \A U \in SUBSET T : U # T => U \in G PROVE T \in G
  <2>1. CASE T = {}
    <3>1. Sum(f, {}) = 0 /\ Sum(h, {}) = 0
      BY FS_EmptySet, SumOfZeros
    <3>2. In(T) = {}
      BY <2>1
    <3>. QED BY <2>1, <3>1, <3>2
  <2>2. CASE T # {}
    <3>1. PICK c \in T : TRUE
      BY <2>2
    <3>2. IsFiniteSet(T)
      BY FS_Subset
    <3>3. \A d \in T : h[d] \in Nat
      BY <1>0
    <3>4. Sum(h, T) = h[c] + Sum(h, T \ {c})
      <4>. HIDE DEF G
      <4>. QED BY <3>1, <3>2, <3>3, SumSplit
    <3>5. Sum(h, T \ {c}) = Sum(f, In(T \ {c}))
      BY <1>1, <3>1
    <3>6. h[c] = Sum(f, In({c}))
      <4>1. In({c}) = part[c]
        OBVIOUS
      <4>. QED BY <3>1, <4>1
    <3>7. In({c}) \cap In(T \ {c}) = {} /\ In({c}) \cup In(T \ {c}) = In(T)
      BY <3>1
    <3>8. IsFiniteSet(In({c})) /\ IsFiniteSet(In(T \ {c}))
      BY FS_Subset
    <3>9. \A x \in In({c}) \cup In(T \ {c}) : f[x] \in Nat
      OBVIOUS
    <3>10. Sum(f, In({c}) \cup In(T \ {c})) = Sum(f, In({c})) + Sum(f, In(T \ {c}))
      <4>. DEFINE A == In({c})
                  B == In(T \ {c})
      <4>1. /\ IsFiniteSet(A) /\ IsFiniteSet(B) /\ A \cap B = {}
            /\ \A x \in A \cup B : f[x] \in Nat
        BY <3>7, <3>8, <3>9
      <4>. HIDE DEF A, B
      <4>2. Sum(f, A \cup B) = Sum(f, A) + Sum(f, B)
        BY <4>1, SumOfUnion
      <4>. QED BY <4>2 DEF A, B
    <3>11. Sum(h, T) = Sum(f, In(T))
      <4>. HIDE DEF G, In
      <4>. QED BY <3>4, <3>5, <3>6, <3>7, <3>10
    <3>. QED BY <3>11
  <2>. QED BY <2>1, <2>2
<1>2. SUBSET C \subseteq G
  <2>. HIDE DEF G
  <2>. QED BY <1>1, SubsetInduction
<1>3. In(C) = S
  OBVIOUS
<1>. QED BY <1>2, <1>3

\* A sum is at most the size of a set into which its tokens go without meeting.
LEMMA SumFits ==
    ASSUME NEW S, IsFiniteSet(S), NEW f, \A x \in S : f[x] \in Nat,
           NEW n \in Nat, NEW place,
           \A t \in Tokens(f, S) : place[t] \in 1..n,
           \A t, w \in Tokens(f, S) : place[t] = place[w] => t = w
    PROVE  Sum(f, S) <= n
<1>1. Sum(f, S) = Cardinality(Tokens(f, S)) /\ IsFiniteSet(Tokens(f, S))
  BY SumCountsTokens, TokensAreFinite
<1>2. IsFiniteSet(1..n) /\ Cardinality(1..n) = n
  BY FS_Interval
<1>. DEFINE g == [t \in Tokens(f, S) |-> place[t]]
<1>3. g \in Injection(Tokens(f, S), 1..n)
  BY DEF Injection, IsInjective
<1>. HIDE DEF g
<1>4. Cardinality(Tokens(f, S)) <= Cardinality(1..n)
  BY <1>2, <1>3, FS_Injection
<1>. QED BY <1>1, <1>2, <1>4

\* It is that size if they fill it.
LEMMA SumFills ==
    ASSUME NEW S, IsFiniteSet(S), NEW f, \A x \in S : f[x] \in Nat,
           NEW n \in Nat, NEW place,
           \A t \in Tokens(f, S) : place[t] \in 1..n,
           \A t, w \in Tokens(f, S) : place[t] = place[w] => t = w,
           \A i \in 1..n : \E t \in Tokens(f, S) : place[t] = i
    PROVE  Sum(f, S) = n
<1>1. Sum(f, S) = Cardinality(Tokens(f, S)) /\ IsFiniteSet(Tokens(f, S))
  BY SumCountsTokens, TokensAreFinite
<1>2. IsFiniteSet(1..n) /\ Cardinality(1..n) = n
  BY FS_Interval
<1>. DEFINE g == [t \in Tokens(f, S) |-> place[t]]
<1>3. g \in Bijection(Tokens(f, S), 1..n)
  BY DEF Bijection, Injection, Surjection, IsInjective
<1>4. ExistsBijection(Tokens(f, S), 1..n)
  BY <1>3 DEF ExistsBijection
<1>. QED BY <1>1, <1>2, <1>4, FS_Bijection
=============================================================================
