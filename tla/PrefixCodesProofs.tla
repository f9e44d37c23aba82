------------------------- MODULE PrefixCodesProofs -------------------------
(***************************************************************************)
(* Proofs about PrefixCodes, for every alphabet, every table of counts and *)
(* every size of block.                                                    *)
(*                                                                         *)
(* CodesInv says that the codes made so far differ pairwise in a bit, that *)
(* the trees of build_tree and the calls of shannon_fano_encode share the  *)
(* other symbols out, and that their codes are as far apart.  What         *)
(* make_canonical_codes counts is right if its values fit their lengths:   *)
(* CodesFit shows this for lengths that codes had before, by counting the  *)
(* words that begin with each, and ShannonFit for the lengths of           *)
(* generate_shannon_codes, by comparing each with its symbol's share of    *)
(* the weight.  OptimalInv says of build_tree that its trees can still be  *)
(* given codes as cheap as any; a turn of the loop keeps that, because the *)
(* two lightest trees may as well have the longest codes (Exchange).       *)
(*                                                                         *)
(* The numbers are unbounded: code values are not cut to the 64 bits of    *)
(* size_t.  A code as long as that takes counts no simulation reaches.     *)
(***************************************************************************)
EXTENDS PrefixCodes, QueueLemmas

-----------------------------------------------------------------------------
(* Induction, with the property given as a set. *)

\* Induction over the naturals.
LEMMA NatInduct ==
    ASSUME NEW P, 0 \in P, \A n \in Nat : n \in P => n + 1 \in P
    PROVE  \A n \in Nat : n \in P
<1> SUFFICES ASSUME NEW n \in Nat, n \notin P PROVE FALSE
  OBVIOUS
<1>1. PICK m \in Nat \ P : \A k \in Nat \ P : m <= k
  BY FirstPosition
<1>2. m # 0
  BY <1>1
<1>3. m - 1 \in Nat /\ (m - 1) + 1 = m
  BY <1>1, <1>2
<1>4. m - 1 \in P
  BY <1>1, <1>3
<1> QED
  BY <1>1, <1>3, <1>4

\* Induction over the subsets of a finite set.
LEMMA SetInduct ==
    ASSUME NEW S, IsFiniteSet(S), NEW P,
           \A T \in SUBSET S : (\A U \in SUBSET T : U # T => U \in P) => T \in P
    PROVE  \A T \in SUBSET S : T \in P
<1> SUFFICES ASSUME NEW V \in SUBSET S, V \notin P PROVE FALSE
  OBVIOUS
<1> DEFINE Bad == {T \in SUBSET S : T \notin P}
           N == {Cardinality(T) : T \in Bad}
<1>1. \A T \in SUBSET S : IsFiniteSet(T) /\ Cardinality(T) \in Nat
  BY FS_Subset, FS_CardinalityType
<1>2. N \in SUBSET Nat /\ N # {}
  BY <1>1
<1>3. PICK n \in N : \A m \in N : n <= m
  <2> HIDE DEF N
  <2> QED
    BY <1>2, FirstPosition
<1>4. PICK T \in Bad : n = Cardinality(T)
  BY <1>3
<1>5. ASSUME NEW U \in SUBSET T, U # T PROVE U \in P
  <2>1. U \in SUBSET S /\ IsFiniteSet(T)
    BY <1>1, <1>4
  <2>2. Cardinality(U) < Cardinality(T)
    <3>1. Cardinality(U) <= Cardinality(T) /\ (Cardinality(U) = Cardinality(T) => U = T)
      BY <2>1, FS_Subset
    <3> QED
      BY <1>1, <1>4, <1>5, <2>1, <3>1
  <2>3. U \notin P => Cardinality(U) \in N
    BY <2>1
  <2>4. Cardinality(U) \in N => n <= Cardinality(U)
    BY <1>3
  <2>5. Cardinality(U) \in Nat /\ Cardinality(T) \in Nat
    BY <1>1, <1>4, <2>1
  <2> QED
    BY <1>4, <2>2, <2>3, <2>4, <2>5
<1> QED
  BY <1>4, <1>5

-----------------------------------------------------------------------------
(* Powers of two, from the number of subsets of an interval. *)

\* 2^n is a positive number, and twice 2^(n - 1).
LEMMA PowerFacts ==
    /\ 2^0 = 1
    /\ \A n \in Nat : 2^n \in Nat /\ 2^n >= 1 /\ 2^(n + 1) = 2 * 2^n
<1>1. ASSUME NEW n \in Nat
      PROVE  /\ IsFiniteSet(1 .. n) /\ IsFiniteSet(SUBSET (1 .. n))
             /\ Cardinality(SUBSET (1 .. n)) = 2^n
  <2>1. IsFiniteSet(1 .. n) /\ Cardinality(1 .. n) = n
    BY FS_Interval
  <2> QED
    BY <2>1, FS_SUBSET
<1>2. 2^0 = 1
  <2>1. 1 .. 0 = {} /\ SUBSET {} = {{}}
    OBVIOUS
  <2> QED
    BY <1>1, <2>1, FS_Singleton
<1>3. ASSUME NEW n \in Nat PROVE 2^n \in Nat /\ 2^n >= 1
  <2>1. 2^n \in Nat
    BY <1>1, FS_CardinalityType
  <2>2. SUBSET (1 .. n) # {}
    OBVIOUS
  <2>3. 2^n # 0
    BY <1>1, <2>2, FS_EmptySet
  <2> QED
    BY <2>1, <2>3
<1>4. ASSUME NEW n \in Nat PROVE 2^(n + 1) = 2 * 2^n
  <2> DEFINE A == SUBSET (1 .. n)
             B == {a \cup {n + 1} : a \in A}
             f == [a \in A |-> a \cup {n + 1}]
  <2>1. SUBSET (1 .. n + 1) = A \cup B
    <3>1. ASSUME NEW a \in SUBSET (1 .. n + 1), a \notin A PROVE a \in B
      <4>1. n + 1 \in a
        BY <3>1
      <4>2. a \ {n + 1} \in A /\ a = (a \ {n + 1}) \cup {n + 1}
        BY <4>1
      <4> QED
        BY <4>2
    <3>2. 1 .. n \subseteq 1 .. n + 1 /\ n + 1 \in 1 .. n + 1
      OBVIOUS
    <3>3. A \subseteq SUBSET (1 .. n + 1)
      BY <3>2
    <3>4. B \subseteq SUBSET (1 .. n + 1)
      BY <3>2
    <3> QED
      BY <3>1, <3>3, <3>4
  <2>2. A \cap B = {}
    OBVIOUS
  <2>3. f \in Bijection(A, B)
    <3>1. f \in [A -> B]
      OBVIOUS
    <3>2. ASSUME NEW a \in A, NEW b \in A, a \cup {n + 1} = b \cup {n + 1} PROVE a = b
      <4>1. n + 1 \notin a /\ n + 1 \notin b
        OBVIOUS
      <4> QED
        BY <3>2, <4>1
    <3> QED
      BY <3>1, <3>2 DEF Bijection, Injection, Surjection, IsInjective
  <2>4. IsFiniteSet(A) /\ Cardinality(A) = 2^n
    BY <1>1
  <2> HIDE DEF A, B, f
  <2>5. IsFiniteSet(B) /\ Cardinality(B) = 2^n
    BY <2>3, <2>4, FS_Bijection DEF ExistsBijection
  <2>6. Cardinality(A \cup B) = Cardinality(A) + Cardinality(B) - Cardinality(A \cap B)
    BY <2>4, <2>5, FS_Union
  <2>7. Cardinality(A \cap B) = 0
    BY <2>2, FS_EmptySet
  <2>8. 2^(n + 1) = Cardinality(A \cup B)
    <3>1. n + 1 \in Nat
      OBVIOUS
    <3>2. Cardinality(SUBSET (1 .. n + 1)) = 2^(n + 1)
      BY <1>1, <3>1
    <3> QED
      BY <2>1, <3>2
  <2>9. 2^(n + 1) = 2^n + 2^n - 0 /\ 2^n \in Nat
    BY <1>3, <2>4, <2>5, <2>6, <2>7, <2>8
  <2> QED
    BY <2>9
<1> QED
  BY <1>2, <1>3, <1>4

\* The law of exponents.
LEMMA PowerAdd ==
    ASSUME NEW m \in Nat, NEW n \in Nat
    PROVE  2^(m + n) = 2^m * 2^n
<1> DEFINE P == {k \in Nat : 2^(m + k) = 2^m * 2^k}
<1>1. 0 \in P
  BY PowerFacts
<1>2. ASSUME NEW k \in Nat, k \in P PROVE k + 1 \in P
  <2> DEFINE a == 2^m
             b == 2^k
  <2>1. a \in Nat /\ b \in Nat
    BY PowerFacts
  <2>2. 2^(m + k) = a * b /\ 2^(k + 1) = 2 * b
    BY <1>2, PowerFacts
  <2>3. m + k \in Nat /\ m + (k + 1) = (m + k) + 1
    OBVIOUS
  <2>4. 2^(m + (k + 1)) = 2 * 2^(m + k)
    BY <2>3, PowerFacts
  <2> HIDE DEF a, b
  <2>5. 2 * (a * b) = a * (2 * b)
    BY <2>1
  <2> QED
    BY <2>2, <2>4, <2>5 DEF a
<1> HIDE DEF P
<1>3. n \in P
  BY <1>1, <1>2, NatInduct
<1> QED
  BY <1>3 DEF P

-----------------------------------------------------------------------------
(* Greatest and least elements *)

\* A finite set of numbers that is not empty has a greatest one.
LEMMA GreatestExists ==
    ASSUME NEW S \in SUBSET Nat, IsFiniteSet(S), S # {}
    PROVE  \E x \in S : \A y \in S : y <= x
<1> DEFINE P == {T \in SUBSET S : T = {} \/ \E x \in T : \A y \in T : y <= x}
<1>1. ASSUME NEW T \in SUBSET S, \A U \in SUBSET T : U # T => U \in P
      PROVE  T \in P
  <2>1. CASE T = {}
    BY <2>1
  <2>2. CASE T # {}
    <3>1. PICK a \in T : TRUE
      BY <2>2
    <3> DEFINE U == T \ {a}
    <3>2. U \in P
      BY <1>1, <3>1
    <3>3. CASE U = {}
      <4>1. \A y \in T : y <= a
        BY <3>1, <3>3
      <4> QED
        BY <3>1, <4>1
    <3>4. CASE U # {}
      <4>1. PICK x \in U : \A y \in U : y <= x
        BY <3>2, <3>4
      <4>2. CASE x <= a
        <5>1. \A y \in T : y <= a
          BY <3>1, <4>1, <4>2
        <5> QED
          BY <3>1, <5>1
      <4>3. CASE ~(x <= a)
        <5>1. \A y \in T : y <= x
          BY <3>1, <4>1, <4>3
        <5> QED
          BY <4>1, <5>1
      <4> QED
        BY <4>2, <4>3
    <3> QED
      BY <3>3, <3>4
  <2> QED
    BY <2>1, <2>2
<1> HIDE DEF P
<1>2. S \in P
  BY <1>1, SetInduct
<1> QED
  BY <1>2 DEF P

\* Max is the greatest element, and nothing else is.
LEMMA MaxFacts ==
    ASSUME NEW S \in SUBSET Nat, IsFiniteSet(S), S # {}
    PROVE  /\ Max(S) \in S
           /\ \A y \in S : y <= Max(S)
           /\ \A x \in S : (\A y \in S : y <= x) => x = Max(S)
<1>1. \E x \in S : \A y \in S : x >= y
  BY GreatestExists
<1> DEFINE m == Max(S)
<1>2. m \in S /\ \A y \in S : m >= y
  BY <1>1 DEF Max
<1> HIDE DEF m
<1>3. \A y \in S : y <= m
  BY <1>2
<1>4. \A x \in S : (\A y \in S : y <= x) => x = m
  <2> SUFFICES ASSUME NEW x \in S, \A y \in S : y <= x PROVE x = m
    OBVIOUS
  <2>1. m <= x /\ x <= m /\ m \in Nat /\ x \in Nat
    BY <1>2, <1>3
  <2> QED
    BY <2>1
<1> QED
  BY <1>2, <1>3, <1>4 DEF m

\* Min is the least element.
LEMMA MinFacts ==
    ASSUME NEW S \in SUBSET Nat, S # {}
    PROVE  /\ Min(S) \in S
           /\ \A y \in S : Min(S) <= y
<1>1. \E x \in S : \A y \in S : x <= y
  BY FirstPosition
<1> QED
  BY <1>1 DEF Min

\* The greater of two numbers.
LEMMA MaxOfTwo ==
    ASSUME NEW a \in Nat, NEW b \in Nat
    PROVE  Max({a, b}) = IF a >= b THEN a ELSE b
<1>1. {a, b} \in SUBSET Nat /\ IsFiniteSet({a, b}) /\ {a, b} # {}
  <2>1. IsFiniteSet({a}) /\ {a, b} = {a} \cup {b}
    BY FS_Singleton
  <2>2. IsFiniteSet({a} \cup {b})
    BY <2>1, FS_AddElement
  <2> QED
    BY <2>1, <2>2
<1> DEFINE m == Max({a, b})
<1>2. m \in {a, b} /\ \A y \in {a, b} : y <= m
  BY <1>1, MaxFacts
<1> HIDE DEF m
<1> QED
  BY <1>2 DEF m

-----------------------------------------------------------------------------
(* Sums.  The community module folds in the order CHOOSE takes the         *)
(* elements; the sum does not depend on it.                                *)

\* The fold that SumFunctionOnSet(f, S) is.
Adds(f, S, iter) ==
    iter = [s \in SUBSET S |-> IF s = {} THEN 0
                               ELSE LET x == CHOOSE x \in s : TRUE
                                    IN  f[x] + iter[s \ {x}]]

Iter(f, S) == CHOOSE iter : Adds(f, S, iter)

\* Unfolding the definitions of the community modules.
LEMMA SumIsIter ==
    ASSUME NEW f, NEW S
    PROVE  SumFunctionOnSet(f, S) = Iter(f, S)[S]
BY DEF SumFunctionOnSet, FoldFunctionOnSet, MapThenFoldSet, Iter, Adds

\* The fold exists.
LEMMA AddsExists ==
    ASSUME NEW S, IsFiniteSet(S), NEW f \in [S -> Nat]
    PROVE  \E iter : Adds(f, S, iter)
<1> DEFINE Upto(n) == {s \in SUBSET S : Cardinality(s) <= n}
           Pick(s) == CHOOSE x \in s : TRUE
           Folds(g, n) == \A s \in Upto(n) :
                             g[s] = IF s = {} THEN 0 ELSE f[Pick(s)] + g[s \ {Pick(s)}]
           P == {n \in Nat : \E g : Folds(g, n)}
<1>1. \A s \in SUBSET S : /\ IsFiniteSet(s) /\ Cardinality(s) \in Nat
                          /\ Cardinality(s) = 0 <=> s = {}
  BY FS_Subset, FS_CardinalityType, FS_EmptySet
<1>2. ASSUME NEW s \in SUBSET S, s # {}
      PROVE  /\ Pick(s) \in s /\ s \ {Pick(s)} \in SUBSET S
             /\ Cardinality(s \ {Pick(s)}) = Cardinality(s) - 1
  <2>1. Pick(s) \in s
    BY <1>2
  <2> HIDE DEF Pick
  <2> QED
    BY <1>1, <2>1, FS_RemoveElement
<1> HIDE DEF Pick
<1>3. 0 \in P
  <2>1. \A s \in Upto(0) : s = {}
    BY <1>1
  <2>2. Folds([s \in SUBSET S |-> 0], 0)
    BY <2>1
  <2> QED
    BY <2>2
<1>4. ASSUME NEW n \in Nat, n \in P PROVE n + 1 \in P
  <2>1. PICK g : Folds(g, n)
    BY <1>4
  <2> DEFINE h == [s \in SUBSET S |-> IF Cardinality(s) <= n THEN g[s]
                                      ELSE f[Pick(s)] + g[s \ {Pick(s)}]]
  <2>2. ASSUME NEW s \in Upto(n + 1)
        PROVE  h[s] = IF s = {} THEN 0 ELSE f[Pick(s)] + h[s \ {Pick(s)}]
    <3>1. s \in SUBSET S /\ Cardinality(s) \in Nat /\ Cardinality(s) <= n + 1
      BY <1>1
    <3>2. CASE s = {}
      <4>1. Cardinality(s) <= n /\ s \in Upto(n)
        BY <1>1, <3>1, <3>2
      <4> QED
        BY <2>1, <3>1, <3>2, <4>1
    <3>3. CASE s # {}
      <4> DEFINE t == s \ {Pick(s)}
      <4>1. t \in SUBSET S /\ Cardinality(t) = Cardinality(s) - 1
        BY <1>2, <3>1, <3>3
      <4>2. Cardinality(t) <= n
        BY <3>1, <4>1
      <4>3. h[t] = g[t]
        BY <4>1, <4>2
      <4>4. h[s] = f[Pick(s)] + g[t]
        <5>1. CASE Cardinality(s) <= n
          BY <2>1, <3>1, <3>3, <5>1
        <5>2. CASE ~(Cardinality(s) <= n)
          BY <3>1, <5>2
        <5> QED
          BY <5>1, <5>2
      <4> HIDE DEF t, h
      <4> QED
        BY <3>3, <4>3, <4>4 DEF t
    <3> QED
      BY <3>2, <3>3
  <2>3. Folds(h, n + 1)
    BY <2>2
  <2>4. n + 1 \in Nat
    OBVIOUS
  <2> HIDE DEF h, Folds
  <2> QED
    BY <2>3, <2>4
<1> DEFINE n == Cardinality(S)
<1>5. n \in Nat
  BY <1>1
<1>6. n \in P
  <2> HIDE DEF P, n
  <2> QED
    BY <1>3, <1>4, <1>5, NatInduct
<1>7. PICK g : Folds(g, n)
  BY <1>6
<1>8. Upto(n) = SUBSET S
  BY <1>5, FS_Subset
<1> DEFINE iter == [s \in SUBSET S |-> g[s]]
<1>9. ASSUME NEW s \in SUBSET S
      PROVE  iter[s] = IF s = {} THEN 0 ELSE f[Pick(s)] + iter[s \ {Pick(s)}]
  <2>1. g[s] = IF s = {} THEN 0 ELSE f[Pick(s)] + g[s \ {Pick(s)}]
    BY <1>7, <1>8
  <2>2. s \ {Pick(s)} \in SUBSET S
    OBVIOUS
  <2> QED
    BY <2>1, <2>2
<1>10. iter = [s \in SUBSET S |-> IF s = {} THEN 0 ELSE f[Pick(s)] + iter[s \ {Pick(s)}]]
  <2>1. iter = [s \in SUBSET S |-> iter[s]]
    OBVIOUS
  <2> HIDE DEF iter
  <2> QED
    BY <1>9, <2>1
<1>11. Adds(f, S, iter)
  <2> HIDE DEF iter
  <2> QED
    BY <1>10 DEF Adds, Pick
<1> QED
  BY <1>11

\* What the fold says of one of its values.
LEMMA IterFacts ==
    ASSUME NEW S, IsFiniteSet(S), NEW f \in [S -> Nat]
    PROVE  /\ Iter(f, S)[{}] = 0
           /\ \A T \in SUBSET S : T # {} =>
                 \E x \in T : Iter(f, S)[T] = f[x] + Iter(f, S)[T \ {x}]
<1> DEFINE g == Iter(f, S)
<1>1. Adds(f, S, g)
  BY AddsExists DEF Iter
<1> HIDE DEF g
<1>2. ASSUME NEW T \in SUBSET S
      PROVE  g[T] = IF T = {} THEN 0 ELSE LET x == CHOOSE x \in T : TRUE
                                          IN  f[x] + g[T \ {x}]
  BY <1>1 DEF Adds
<1>3. g[{}] = 0
  BY <1>2
<1>4. ASSUME NEW T \in SUBSET S, T # {}
      PROVE  \E x \in T : g[T] = f[x] + g[T \ {x}]
  <2> DEFINE x == CHOOSE x \in T : TRUE
  <2>1. x \in T
    BY <1>4
  <2>2. g[T] = f[x] + g[T \ {x}]
    BY <1>2, <1>4
  <2> QED
    BY <2>1, <2>2
<1> QED
  BY <1>3, <1>4 DEF g

\* The values of the fold are numbers, and a new element adds its own.
Additive(g, f, S) ==
    \A T \in SUBSET S :
        g[T] \in Nat /\ \A x \in S \ T : g[T \cup {x}] = g[T] + f[x]

\* An element adds its value to the sum, in whichever order they are taken.
LEMMA IterAdds ==
    ASSUME NEW S, IsFiniteSet(S), NEW f \in [S -> Nat]
    PROVE  Additive(Iter(f, S), f, S)
<1> DEFINE g == Iter(f, S)
<1>1. g[{}] = 0 /\ \A T \in SUBSET S : T # {} => \E x \in T : g[T] = f[x] + g[T \ {x}]
  BY IterFacts
<1> HIDE DEF g
<1> DEFINE P == {T \in SUBSET S : g[T] \in Nat}
           Q == {T \in SUBSET S : \A x \in S \ T : g[T \cup {x}] = g[T] + f[x]}
<1>2. ASSUME NEW T \in SUBSET S, \A U \in SUBSET T : U # T => U \in P
      PROVE  T \in P
  <2>1. CASE T = {}
    BY <1>1, <2>1
  <2>2. CASE T # {}
    <3>1. PICK x \in T : g[T] = f[x] + g[T \ {x}]
      BY <1>1, <2>2
    <3>2. T \ {x} \in P
      BY <1>2, <3>1
    <3>3. g[T \ {x}] \in Nat /\ f[x] \in Nat
      BY <3>1, <3>2
    <3> QED
      BY <3>1, <3>3
  <2> QED
    BY <2>1, <2>2
<1>3. \A T \in SUBSET S : g[T] \in Nat
  <2>1. \A T \in SUBSET S : T \in P
    <3> HIDE DEF P
    <3> QED
      BY <1>2, SetInduct
  <2> QED
    BY <2>1
<1>4. ASSUME NEW T \in SUBSET S, \A U \in SUBSET T : U # T => U \in Q
      PROVE  T \in Q
  <2> SUFFICES ASSUME NEW x \in S \ T PROVE g[T \cup {x}] = g[T] + f[x]
    OBVIOUS
  <2> DEFINE A == T \cup {x}
  <2>1. A \in SUBSET S /\ A # {} /\ f[x] \in Nat /\ g[T] \in Nat
    BY <1>3
  <2>2. PICK c \in A : g[A] = f[c] + g[A \ {c}]
    BY <1>1, <2>1
  <2>3. CASE c = x
    <3>1. A \ {c} = T
      BY <2>3
    <3> HIDE DEF A
    <3>2. g[A] = g[T] + f[x]
      BY <2>1, <2>2, <2>3, <3>1
    <3> QED
      BY <3>2 DEF A
  <2>4. CASE c # x
    <3> DEFINE U == T \ {c}
    <3>1. c \in T /\ U \in SUBSET T /\ U # T /\ U \in SUBSET S /\ c \in S \ U /\ x \in S \ U
      BY <2>2, <2>4
    <3>2. U \in Q
      BY <1>4, <3>1
    <3>3. g[U \cup {x}] = g[U] + f[x] /\ g[U \cup {c}] = g[U] + f[c]
      BY <3>1, <3>2
    <3>4. A \ {c} = U \cup {x} /\ U \cup {c} = T
      BY <2>2, <2>4, <3>1
    <3>5. g[U] \in Nat /\ f[c] \in Nat
      BY <1>3, <3>1
    <3> HIDE DEF U, A
    <3>6. g[A] = f[c] + (g[U] + f[x]) /\ g[T] = g[U] + f[c]
      BY <2>2, <3>3, <3>4
    <3>7. g[A] = g[T] + f[x]
      BY <2>1, <3>5, <3>6
    <3> QED
      BY <3>7 DEF A
  <2> QED
    BY <2>3, <2>4
<1>5. \A T \in SUBSET S : T \in Q
  <2> HIDE DEF Q
  <2> QED
    BY <1>4, SetInduct
<1>6. Additive(g, f, S)
  BY <1>3, <1>5 DEF Additive
<1> QED
  BY <1>6 DEF g

\* The fold over a set and the fold over a part of it agree on the part.
LEMMA IterAgrees ==
    ASSUME NEW S, IsFiniteSet(S), NEW f \in [S -> Nat], NEW R \in SUBSET S,
           NEW e \in [R -> Nat], \A x \in R : e[x] = f[x]
    PROVE  Iter(e, R)[R] = Iter(f, S)[R]
<1> DEFINE g == Iter(f, S)
           h == Iter(e, R)
           P == {T \in SUBSET R : h[T] = g[T]}
<1>1. IsFiniteSet(R)
  BY FS_Subset
<1>2. g[{}] = 0 /\ h[{}] = 0
  BY <1>1, IterFacts
<1>3. \A T \in SUBSET R : T # {} => \E x \in T : h[T] = e[x] + h[T \ {x}]
  BY <1>1, IterFacts
<1>4. Additive(g, f, S)
  BY IterAdds
<1> HIDE DEF g, h
<1> USE DEF Additive
<1>5. ASSUME NEW T \in SUBSET R, \A U \in SUBSET T : U # T => U \in P
      PROVE  T \in P
  <2>1. CASE T = {}
    BY <1>2, <2>1
  <2>2. CASE T # {}
    <3>1. PICK x \in T : h[T] = e[x] + h[T \ {x}]
      BY <1>3, <2>2
    <3> DEFINE U == T \ {x}
    <3>2. U \in P /\ U \in SUBSET S /\ x \in S \ U /\ U \cup {x} = T
      BY <1>5, <3>1
    <3>3. h[U] = g[U] /\ g[U] \in Nat /\ f[x] \in Nat /\ e[x] = f[x]
      BY <1>4, <3>1, <3>2
    <3>4. g[U \cup {x}] = g[U] + f[x]
      BY <1>4, <3>2
    <3>5. h[T] = e[x] + h[U]
      BY <3>1
    <3> HIDE DEF U
    <3>6. h[T] = g[T]
      BY <3>2, <3>3, <3>4, <3>5
    <3> QED
      BY <3>6
  <2> QED
    BY <2>1, <2>2
<1>6. R \in P
  <2> HIDE DEF P
  <2> QED
    BY <1>1, <1>5, SetInduct
<1> QED
  BY <1>6 DEF g, h

\* The laws of a sum over the subsets of a set of indices.
IsSum(f, S) ==
    /\ SumFunctionOnSet(f, {}) = 0
    /\ \A T \in SUBSET S :
          /\ SumFunctionOnSet(f, T) \in Nat
          /\ \A x \in S \ T :
                SumFunctionOnSet(f, T \cup {x}) = SumFunctionOnSet(f, T) + f[x]

\* They hold if the set is finite.
LEMMA SumLaws ==
    ASSUME NEW S, IsFiniteSet(S), NEW f, \A x \in S : f[x] \in Nat
    PROVE  IsSum(f, S)
<1> DEFINE e == [x \in S |-> f[x]]
           g == Iter(e, S)
<1>1. e \in [S -> Nat]
  OBVIOUS
<1>2. ASSUME NEW T \in SUBSET S PROVE SumFunctionOnSet(f, T) = g[T]
  <2> DEFINE d == [x \in T |-> f[x]]
  <2>1. d \in [T -> Nat] /\ \A x \in T : d[x] = e[x]
    OBVIOUS
  <2>2. Iter(d, T) = Iter(f, T)
    <3>1. ASSUME NEW iter PROVE Adds(d, T, iter) <=> Adds(f, T, iter)
      <4>1. ASSUME NEW s \in SUBSET T, s # {}
            PROVE  LET x == CHOOSE x \in s : TRUE IN d[x] = f[x]
        BY <4>1
      <4> HIDE DEF d
      <4>2. [s \in SUBSET T |-> IF s = {} THEN 0
                                ELSE LET x == CHOOSE x \in s : TRUE
                                     IN  d[x] + iter[s \ {x}]]
            = [s \in SUBSET T |-> IF s = {} THEN 0
                                  ELSE LET x == CHOOSE x \in s : TRUE
                                       IN  f[x] + iter[s \ {x}]]
        BY <4>1
      <4> QED
        BY <4>2 DEF Adds
    <3> HIDE DEF d
    <3> QED
      BY <3>1, Zenon DEF Iter
  <2> HIDE DEF d, e
  <2>3. Iter(d, T)[T] = Iter(e, S)[T]
    BY <1>1, <2>1, IterAgrees
  <2> QED
    BY <2>2, <2>3, SumIsIter
<1> HIDE DEF e
<1>3. /\ g[{}] = 0
      /\ \A T \in SUBSET S : g[T] \in Nat /\ \A x \in S \ T : g[T \cup {x}] = g[T] + e[x]
  <2>1. g[{}] = 0
    BY <1>1, IterFacts
  <2>2. Additive(g, e, S)
    BY <1>1, IterAdds
  <2> HIDE DEF g
  <2> QED
    BY <2>1, <2>2 DEF Additive
<1> HIDE DEF g
<1>4. SumFunctionOnSet(f, {}) = 0
  BY <1>2, <1>3
<1>5. ASSUME NEW T \in SUBSET S PROVE SumFunctionOnSet(f, T) \in Nat
  BY <1>2, <1>3
<1>6. ASSUME NEW T \in SUBSET S, NEW x \in S \ T
      PROVE  SumFunctionOnSet(f, T \cup {x}) = SumFunctionOnSet(f, T) + f[x]
  <2>1. e[x] = f[x] /\ T \cup {x} \in SUBSET S
    BY DEF e
  <2> QED
    BY <1>2, <1>3, <2>1
<1> QED
  BY <1>4, <1>5, <1>6 DEF IsSum

\* A sum is not less than the sum of a part, nor than one of its terms.
LEMMA SumBounds ==
    ASSUME NEW S, IsFiniteSet(S), NEW f, \A x \in S : f[x] \in Nat
    PROVE  /\ \A T \in SUBSET S : SumFunctionOnSet(f, T) <= SumFunctionOnSet(f, S)
           /\ \A x \in S : f[x] <= SumFunctionOnSet(f, S)
<1> DEFINE sum(T) == SumFunctionOnSet(f, T)
<1>0. IsSum(f, S)
  BY SumLaws
<1>1. \A T \in SUBSET S : sum(T) \in Nat
  BY <1>0, Zenon DEF IsSum
<1>2. \A T \in SUBSET S : \A x \in S \ T : sum(T \cup {x}) = sum(T) + f[x]
  BY <1>0, Zenon DEF IsSum
<1>3. sum({}) = 0
  BY <1>0, Zenon DEF IsSum
<1> HIDE DEF sum
<1> DEFINE P == {U \in SUBSET S : sum(S \ U) <= sum(S)}
<1>4. ASSUME NEW T \in SUBSET S, \A U \in SUBSET T : U # T => U \in P
      PROVE  T \in P
  <2>1. CASE T = {}
    <3>1. S \ T = S
      BY <2>1
    <3> QED
      BY <1>1, <3>1
  <2>2. CASE T # {}
    <3>1. PICK x \in T : TRUE
      BY <2>2
    <3> DEFINE A == S \ T
               B == S \ (T \ {x})
    <3>2. sum(B) <= sum(S)
      BY <1>4, <3>1
    <3>3. A \in SUBSET S /\ x \in S \ A /\ A \cup {x} = B
      BY <3>1
    <3> HIDE DEF A, B
    <3>4. sum(B) = sum(A) + f[x] /\ sum(A) \in Nat /\ sum(S) \in Nat /\ f[x] \in Nat
      BY <1>1, <1>2, <3>1, <3>3
    <3>5. sum(A) <= sum(S)
      BY <3>2, <3>4
    <3> QED
      BY <3>5 DEF A
  <2> QED
    BY <2>1, <2>2
<1>5. \A U \in SUBSET S : U \in P
  <2> HIDE DEF P
  <2> QED
    BY <1>4, SetInduct
<1>6. ASSUME NEW T \in SUBSET S PROVE sum(T) <= sum(S)
  <2>1. S \ T \in SUBSET S /\ S \ (S \ T) = T
    OBVIOUS
  <2> QED
    BY <1>5, <2>1
<1>7. ASSUME NEW x \in S PROVE f[x] <= sum(S)
  <2>1. {} \in SUBSET S /\ x \in S \ {} /\ {} \cup {x} = {x} /\ {x} \in SUBSET S
    OBVIOUS
  <2>2. sum({x}) = 0 + f[x]
    BY <1>2, <1>3, <2>1
  <2>3. sum({x}) <= sum(S)
    BY <1>6, <2>1
  <2> QED
    BY <1>1, <2>1, <2>2, <2>3
<1> QED
  BY <1>6, <1>7 DEF sum

\* A set that a function on a finite set reaches is finite.
LEMMA FiniteImage ==
    ASSUME NEW D, IsFiniteSet(D), NEW T, NEW f \in [D -> T], \A t \in T : \E x \in D : f[x] = t
    PROVE  IsFiniteSet(T)
<1>1. f \in Surjection(D, T)
  BY DEF Surjection
<1> QED
  BY <1>1, FS_Surjection DEF ExistsSurjection

\* g gives every part of S a sum of values of f.
Sums(g, f, S) ==
    /\ g[{}] = 0
    /\ \A T \in SUBSET S : \A x \in S \ T : g[T \cup {x}] = g[T] + f[x]

\* There is only one way to.
LEMMA SumUnique ==
    ASSUME NEW S, IsFiniteSet(S), NEW f, \A x \in S : f[x] \in Nat,
           NEW g, Sums(g, f, S)
    PROVE  g[S] = SumFunctionOnSet(f, S)
<1> DEFINE sum(T) == SumFunctionOnSet(f, T)
           P == {T \in SUBSET S : g[T] = sum(T)}
<1>0. IsSum(f, S)
  BY SumLaws
<1>1. sum({}) = 0 /\ \A T \in SUBSET S : \A x \in S \ T : sum(T \cup {x}) = sum(T) + f[x]
  BY <1>0, Zenon DEF IsSum
<1>2. g[{}] = 0 /\ \A T \in SUBSET S : \A x \in S \ T : g[T \cup {x}] = g[T] + f[x]
  BY Zenon DEF Sums
<1> HIDE DEF sum
<1>3. ASSUME NEW T \in SUBSET S, \A U \in SUBSET T : U # T => U \in P
      PROVE  T \in P
  <2>1. CASE T = {}
    BY <1>1, <1>2, <2>1
  <2>2. CASE T # {}
    <3>1. PICK x \in T : TRUE
      BY <2>2
    <3> DEFINE U == T \ {x}
    <3>2. U \in SUBSET S /\ x \in S \ U /\ U \cup {x} = T
      BY <3>1
    <3>3. g[U] = sum(U)
      BY <1>3, <3>1
    <3> HIDE DEF U
    <3>4. g[T] = g[U] + f[x] /\ sum(T) = sum(U) + f[x]
      BY <1>1, <1>2, <3>2
    <3> QED
      BY <3>3, <3>4
  <2> QED
    BY <2>1, <2>2
<1> HIDE DEF P
<1>4. S \in P
  BY <1>3, SetInduct
<1> QED
  BY <1>4 DEF P, sum

\* Equal terms have equal sums.
LEMMA SumAgrees ==
    ASSUME NEW S, IsFiniteSet(S), NEW f, NEW e, \A x \in S : f[x] \in Nat,
           \A x \in S : e[x] = f[x]
    PROVE  SumFunctionOnSet(e, S) = SumFunctionOnSet(f, S)
<1> DEFINE sum(T) == SumFunctionOnSet(e, T)
           g == [T \in SUBSET S |-> sum(T)]
<1>1. IsSum(e, S)
  BY SumLaws
<1>2. sum({}) = 0 /\ \A T \in SUBSET S : \A x \in S \ T : sum(T \cup {x}) = sum(T) + e[x]
  BY <1>1, Zenon DEF IsSum
<1> HIDE DEF sum
<1>3. Sums(g, f, S)
  BY <1>2 DEF Sums
<1>4. g[S] = sum(S)
  OBVIOUS
<1> HIDE DEF g
<1>5. g[S] = SumFunctionOnSet(f, S)
  BY <1>3, SumUnique
<1> QED
  BY <1>4, <1>5 DEF sum

\* A common factor.
LEMMA SumScale ==
    ASSUME NEW S, IsFiniteSet(S), NEW f, NEW e, NEW c \in Nat,
           \A x \in S : f[x] \in Nat, \A x \in S : e[x] = c * f[x]
    PROVE  SumFunctionOnSet(e, S) = c * SumFunctionOnSet(f, S)
<1> DEFINE sum(T) == SumFunctionOnSet(f, T)
           g == [T \in SUBSET S |-> c * sum(T)]
<1>1. IsSum(f, S)
  BY SumLaws
<1>2. /\ sum({}) = 0
      /\ \A T \in SUBSET S : sum(T) \in Nat
      /\ \A T \in SUBSET S : \A x \in S \ T : sum(T \cup {x}) = sum(T) + f[x]
  BY <1>1, Zenon DEF IsSum
<1> HIDE DEF sum
<1>3. ASSUME NEW T \in SUBSET S, NEW x \in S \ T PROVE g[T \cup {x}] = g[T] + e[x]
  <2>1. T \cup {x} \in SUBSET S /\ x \in S
    OBVIOUS
  <2>2. g[T \cup {x}] = c * sum(T \cup {x}) /\ g[T] = c * sum(T)
    BY <2>1
  <2>3. c * (sum(T) + f[x]) = c * sum(T) + c * f[x]
    BY <1>2, <2>1
  <2> QED
    BY <1>2, <2>1, <2>2, <2>3
<1>4. g[{}] = 0
  <2>1. g[{}] = c * sum({})
    OBVIOUS
  <2> QED
    BY <1>2, <2>1
<1>5. g[S] = c * sum(S)
  OBVIOUS
<1> HIDE DEF g
<1>6. Sums(g, e, S)
  BY <1>3, <1>4 DEF Sums
<1>7. \A x \in S : e[x] \in Nat
  OBVIOUS
<1>8. g[S] = SumFunctionOnSet(e, S)
  BY <1>6, <1>7, SumUnique
<1> QED
  BY <1>5, <1>8 DEF sum

\* Sums of sums.
LEMMA SumPlus ==
    ASSUME NEW S, IsFiniteSet(S), NEW f, NEW e, NEW d, \A x \in S : f[x] \in Nat,
           \A x \in S : e[x] \in Nat, \A x \in S : d[x] = f[x] + e[x]
    PROVE  SumFunctionOnSet(d, S) = SumFunctionOnSet(f, S) + SumFunctionOnSet(e, S)
<1> DEFINE fs(T) == SumFunctionOnSet(f, T)
           es(T) == SumFunctionOnSet(e, T)
           g == [T \in SUBSET S |-> fs(T) + es(T)]
<1>1. IsSum(f, S) /\ IsSum(e, S)
  BY SumLaws
<1>2. /\ fs({}) = 0
      /\ \A T \in SUBSET S : fs(T) \in Nat
      /\ \A T \in SUBSET S : \A x \in S \ T : fs(T \cup {x}) = fs(T) + f[x]
  BY <1>1, Zenon DEF IsSum
<1>3. /\ es({}) = 0
      /\ \A T \in SUBSET S : es(T) \in Nat
      /\ \A T \in SUBSET S : \A x \in S \ T : es(T \cup {x}) = es(T) + e[x]
  BY <1>1, Zenon DEF IsSum
<1> HIDE DEF fs, es
<1>4. ASSUME NEW T \in SUBSET S, NEW x \in S \ T PROVE g[T \cup {x}] = g[T] + d[x]
  <2>1. T \cup {x} \in SUBSET S /\ x \in S
    OBVIOUS
  <2>2. g[T \cup {x}] = fs(T \cup {x}) + es(T \cup {x}) /\ g[T] = fs(T) + es(T)
    BY <2>1
  <2> QED
    BY <1>2, <1>3, <2>1, <2>2
<1>5. g[{}] = 0
  <2>1. g[{}] = fs({}) + es({})
    OBVIOUS
  <2> QED
    BY <1>2, <1>3, <2>1
<1>6. g[S] = fs(S) + es(S)
  OBVIOUS
<1> HIDE DEF g
<1>7. Sums(g, d, S)
  BY <1>4, <1>5 DEF Sums
<1>8. \A x \in S : d[x] \in Nat
  OBVIOUS
<1>9. g[S] = SumFunctionOnSet(d, S)
  BY <1>7, <1>8, SumUnique
<1> QED
  BY <1>6, <1>9 DEF fs, es

\* The sum over two parts.
LEMMA SumUnion ==
    ASSUME NEW A, NEW B, IsFiniteSet(A), IsFiniteSet(B), A \cap B = {},
           NEW f, \A x \in A \cup B : f[x] \in Nat
    PROVE  SumFunctionOnSet(f, A \cup B) = SumFunctionOnSet(f, A) + SumFunctionOnSet(f, B)
<1> DEFINE S == A \cup B
           sum(T) == SumFunctionOnSet(f, T)
           g == [T \in SUBSET B |-> sum(A \cup T) - sum(A)]
<1>1. IsSum(f, S)
  BY SumLaws, FS_Union
<1>2. /\ \A T \in SUBSET S : sum(T) \in Nat
      /\ \A T \in SUBSET S : \A x \in S \ T : sum(T \cup {x}) = sum(T) + f[x]
  BY <1>1, Zenon DEF IsSum
<1> HIDE DEF sum
<1>3. ASSUME NEW T \in SUBSET B, NEW x \in B \ T PROVE g[T \cup {x}] = g[T] + f[x]
  <2> DEFINE U == A \cup T
  <2>1. /\ U \in SUBSET S /\ x \in S \ U /\ A \cup (T \cup {x}) = U \cup {x}
        /\ T \cup {x} \in SUBSET B /\ x \in B /\ A \in SUBSET S
    OBVIOUS
  <2>2. g[T \cup {x}] = sum(U \cup {x}) - sum(A) /\ g[T] = sum(U) - sum(A)
    BY <2>1
  <2> HIDE DEF U
  <2>3. sum(U \cup {x}) = sum(U) + f[x] /\ sum(U) \in Nat /\ sum(A) \in Nat /\ f[x] \in Nat
    BY <1>2, <2>1
  <2> QED
    BY <2>2, <2>3
<1>4. A \in SUBSET S /\ A \cup B \in SUBSET S /\ A \cup {} = A
  OBVIOUS
<1>5. g[{}] = 0
  <2>1. g[{}] = sum(A \cup {}) - sum(A)
    OBVIOUS
  <2> QED
    BY <1>2, <1>4, <2>1
<1>6. g[B] = sum(A \cup B) - sum(A)
  OBVIOUS
<1> HIDE DEF g
<1>7. Sums(g, f, B)
  BY <1>3, <1>5 DEF Sums
<1>8. g[B] = SumFunctionOnSet(f, B)
  BY <1>7, SumUnique
<1>9. sum(A \cup B) \in Nat /\ sum(A) \in Nat
  BY <1>2, <1>4
<1>10. sum(A \cup B) = sum(A) + g[B]
  BY <1>6, <1>9
<1> QED
  BY <1>8, <1>10 DEF sum

\* The sum over the elements that p names.
LEMMA SumRenamed ==
    ASSUME NEW S, IsFiniteSet(S), NEW p, \A x, y \in S : p[x] = p[y] => x = y,
           NEW f, NEW e, \A x \in S : f[x] \in Nat, \A x \in S : e[p[x]] = f[x]
    PROVE  SumFunctionOnSet(e, {p[x] : x \in S}) = SumFunctionOnSet(f, S)
<1> DEFINE Im(T) == {p[x] : x \in T}
           R == Im(S)
           sum(T) == SumFunctionOnSet(e, T)
           g == [T \in SUBSET S |-> sum(Im(T))]
<1>1. \A y \in R : e[y] \in Nat
  OBVIOUS
<1>2. IsFiniteSet(R)
  <2> DEFINE q == [x \in S |-> p[x]]
  <2>1. q \in [S -> R] /\ \A y \in R : \E x \in S : q[x] = y
    OBVIOUS
  <2> HIDE DEF q, R
  <2> QED
    BY <2>1, FiniteImage
<1>3. IsSum(e, R)
  <2> HIDE DEF R
  <2> QED
    BY <1>1, <1>2, SumLaws
<1>4. /\ sum({}) = 0
      /\ \A T \in SUBSET R : \A y \in R \ T : sum(T \cup {y}) = sum(T) + e[y]
  BY <1>3, Zenon DEF IsSum
<1> HIDE DEF sum
<1>5. ASSUME NEW T \in SUBSET S, NEW x \in S \ T PROVE g[T \cup {x}] = g[T] + f[x]
  <2>1. Im(T) \in SUBSET R /\ p[x] \in R \ Im(T) /\ Im(T \cup {x}) = Im(T) \cup {p[x]}
    OBVIOUS
  <2>2. g[T \cup {x}] = sum(Im(T \cup {x})) /\ g[T] = sum(Im(T))
    OBVIOUS
  <2>3. e[p[x]] = f[x]
    OBVIOUS
  <2> DEFINE A == Im(T)
             y == p[x]
  <2> HIDE DEF Im, R, g, A, y
  <2>4. A \in SUBSET R /\ y \in R \ A /\ Im(T \cup {x}) = A \cup {y}
    BY <2>1 DEF A, y
  <2>5. sum(A \cup {y}) = sum(A) + e[y]
    BY <1>4, <2>4
  <2> QED
    BY <2>2, <2>3, <2>4, <2>5 DEF A, y
<1>6. g[{}] = 0
  <2>1. Im({}) = {} /\ g[{}] = sum(Im({}))
    OBVIOUS
  <2> QED
    BY <1>4, <2>1
<1>7. g[S] = sum(R)
  OBVIOUS
<1> HIDE DEF g
<1>8. Sums(g, f, S)
  BY <1>5, <1>6 DEF Sums
<1>9. g[S] = SumFunctionOnSet(f, S)
  BY <1>8, SumUnique
<1> QED
  BY <1>7, <1>9 DEF sum

\* The sum, with two terms set apart.
LEMMA SumTwo ==
    ASSUME NEW S, IsFiniteSet(S), NEW f, \A x \in S : f[x] \in Nat,
           NEW a \in S, NEW b \in S, a # b
    PROVE  /\ SumFunctionOnSet(f, S \ {a, b}) \in Nat
           /\ SumFunctionOnSet(f, S) = SumFunctionOnSet(f, S \ {a, b}) + f[a] + f[b]
<1> DEFINE T == S \ {a, b}
           U == T \cup {a}
<1>1. IsSum(f, S)
  BY SumLaws
<1>2. /\ T \in SUBSET S /\ a \in S \ T
      /\ U \in SUBSET S /\ b \in S \ U /\ S = U \cup {b}
  OBVIOUS
<1>3. SumFunctionOnSet(f, U) = SumFunctionOnSet(f, T) + f[a]
  <2> HIDE DEF T
  <2> QED
    BY <1>1, <1>2, Zenon DEF IsSum
<1>4. SumFunctionOnSet(f, U \cup {b}) = SumFunctionOnSet(f, U) + f[b]
  <2> HIDE DEF U
  <2> QED
    BY <1>1, <1>2, Zenon DEF IsSum
<1>5. SumFunctionOnSet(f, T) \in Nat
  <2> HIDE DEF T
  <2> QED
    BY <1>1, <1>2, Zenon DEF IsSum
<1> HIDE DEF T, U
<1>6. SumFunctionOnSet(f, S) = SumFunctionOnSet(f, T) + f[a] + f[b]
  BY <1>2, <1>3, <1>4
<1> QED
  BY <1>5, <1>6 DEF T

-----------------------------------------------------------------------------
(* Products and quotients *)

\* A product grows with its factors.
LEMMA ProductMonotone ==
    ASSUME NEW a \in Nat, NEW b \in Nat, NEW c \in Nat, a <= b
    PROVE  a * c <= b * c /\ a * c \in Nat /\ b * c \in Nat
OBVIOUS

\* A common factor is dropped.
LEMMA ProductCancel ==
    ASSUME NEW a \in Nat, NEW b \in Nat, NEW c \in Nat, c >= 1, a * c <= b * c
    PROVE  a <= b
<1> SUFFICES ASSUME b + 1 <= a PROVE FALSE
  OBVIOUS
<1>1. (b + 1) * c <= a * c
  BY ProductMonotone
<1>2. (b + 1) * c = b * c + c
  OBVIOUS
<1> QED
  BY <1>1, <1>2

\* What the quotient is.
LEMMA QuotientFacts ==
    ASSUME NEW a \in Nat, NEW d \in Nat, d >= 1
    PROVE  /\ a \div d \in Nat
           /\ d * (a \div d) <= a
           /\ a < d * (a \div d) + d
OBVIOUS

\* Nothing else is.
LEMMA QuotientUnique ==
    ASSUME NEW a \in Nat, NEW d \in Nat, d >= 1, NEW n \in Nat,
           d * n <= a, a < d * n + d
    PROVE  a \div d = n
<1> DEFINE m == a \div d
<1>1. m \in Nat /\ d * m <= a /\ a < d * m + d
  BY QuotientFacts
<1> HIDE DEF m
<1>2. ASSUME NEW i \in Nat, NEW j \in Nat, d * i <= a, a < d * j + d PROVE i <= j
  <2> SUFFICES ASSUME j + 1 <= i PROVE FALSE
    OBVIOUS
  <2>1. (j + 1) * d <= i * d
    BY ProductMonotone
  <2>2. (j + 1) * d = d * j + d /\ i * d = d * i
    OBVIOUS
  <2>3. d * j \in Nat /\ d * i \in Nat
    OBVIOUS
  <2> QED
    BY <1>2, <2>1, <2>2, <2>3
<1>3. m <= n /\ n <= m
  BY <1>1, <1>2
<1> QED
  BY <1>1, <1>3 DEF m

\* Two divisions are one by the product.
LEMMA QuotientTwice ==
    ASSUME NEW a \in Nat, NEW d \in Nat, NEW e \in Nat, d >= 1, e >= 1
    PROVE  (a \div d) \div e = a \div (d * e)
<1> DEFINE m == a \div d
           n == m \div e
<1>1. m \in Nat /\ d * m <= a /\ a < d * m + d
  BY QuotientFacts
<1> HIDE DEF m
<1>2. n \in Nat /\ e * n <= m /\ m < e * n + e
  BY <1>1, QuotientFacts
<1> HIDE DEF n
<1>3. e * n \in Nat /\ d * e \in Nat /\ (d * e) * n \in Nat
  BY <1>2
<1>4. (e * n) * d <= m * d
  BY <1>1, <1>2, <1>3, ProductMonotone
<1>5. (m + 1) * d <= (e * n + e) * d
  BY <1>1, <1>2, <1>3, ProductMonotone
<1>6. (e * n) * d = (d * e) * n /\ m * d = d * m /\ (m + 1) * d = d * m + d
  BY <1>1, <1>2
<1>7. (e * n + e) * d = (d * e) * n + d * e
  BY <1>2
<1>8. d * m \in Nat
  BY <1>1
<1>9. (d * e) * n <= a /\ a < (d * e) * n + d * e
  BY <1>1, <1>3, <1>4, <1>5, <1>6, <1>7, <1>8
<1>10. d * e >= 1
  <2>1. 1 * e <= d * e
    BY ProductMonotone
  <2> QED
    BY <1>3, <2>1
<1> DEFINE p == d * e
<1>11. p \in Nat /\ p >= 1 /\ p * n <= a /\ a < p * n + p
  BY <1>3, <1>9, <1>10
<1> HIDE DEF p
<1>12. a \div p = n
  BY <1>2, <1>11, QuotientUnique
<1> QED
  BY <1>12 DEF p, n, m

-----------------------------------------------------------------------------
(* Codes and the words they begin *)

\* The two codes differ at a position both have.
Apart(c, d) == \E i \in Nat : i \in 1 .. Len(c) /\ i \in 1 .. Len(d) /\ c[i] # d[i]

AllApart(codes) ==
    \A s, t \in DOMAIN codes : s # t => Apart(codes[s], codes[t])

\* Then neither begins with the other.
LEMMA ApartNoPrefix ==
    ASSUME NEW c \in Seq(BOOLEAN), NEW d \in Seq(BOOLEAN), Apart(c, d)
    PROVE  ~IsPrefix(c, d)
<1> SUFFICES ASSUME IsPrefix(c, d) PROVE FALSE
  OBVIOUS
<1>1. Len(c) \in Nat /\ Len(d) \in Nat
  BY LenProperties
<1>2. PICK i \in 1 .. Len(c) : i \in 1 .. Len(d) /\ c[i] # d[i]
  BY DEF Apart
<1>3. Len(c) <= Len(d) /\ SubSeq(c, 1, Len(c)) = SubSeq(d, 1, Len(c))
  BY DEF IsPrefix
<1>4. SubSeq(c, 1, Len(c))[i] = c[i] /\ SubSeq(d, 1, Len(c))[i] = d[i]
  BY <1>1, <1>2, <1>3
<1> QED
  BY <1>2, <1>3, <1>4

\* The words of l bits that begin with the code.
Words(c, l) == {w \in [1 .. l -> BOOLEAN] : \A i \in 1 .. Len(c) : w[i] = c[i]}

\* A code begins as many words as its missing bits can be filled in.
LEMMA WordCount ==
    ASSUME NEW l \in Nat, NEW c \in Seq(BOOLEAN), Len(c) <= l
    PROVE  IsFiniteSet(Words(c, l)) /\ Cardinality(Words(c, l)) = 2^(l - Len(c))
<1> DEFINE Counted(b, n) == /\ IsFiniteSet(Words(b, l))
                            /\ Cardinality(Words(b, l)) = 2^n
           P == {n \in Nat : \A b \in Seq(BOOLEAN) : Len(b) + n = l => Counted(b, n)}
<1>1. 0 \in P
  <2> SUFFICES ASSUME NEW b \in Seq(BOOLEAN), Len(b) + 0 = l PROVE Counted(b, 0)
    OBVIOUS
  <2>1. Len(b) = l /\ b \in [1 .. l -> BOOLEAN]
    BY LenProperties
  <2>2. ASSUME NEW w \in Words(b, l) PROVE w = b
    <3>1. w \in [1 .. l -> BOOLEAN] /\ \A i \in 1 .. l : w[i] = b[i]
      BY <2>1 DEF Words
    <3> QED
      BY <2>1, <3>1
  <2>3. b \in Words(b, l)
    BY <2>1 DEF Words
  <2>4. Words(b, l) = {b}
    BY <2>2, <2>3
  <2> QED
    BY <2>4, FS_Singleton, PowerFacts
<1>2. ASSUME NEW n \in Nat, n \in P PROVE n + 1 \in P
  <2> SUFFICES ASSUME NEW b \in Seq(BOOLEAN), Len(b) + (n + 1) = l
               PROVE  Counted(b, n + 1)
    OBVIOUS
  <2> DEFINE f == Append(b, FALSE)
             t == Append(b, TRUE)
             k == Len(b) + 1
  <2>1. Len(b) \in Nat /\ k \in 1 .. l
    BY LenProperties
  <2>2. /\ f \in Seq(BOOLEAN) /\ t \in Seq(BOOLEAN) /\ Len(f) = k /\ Len(t) = k
        /\ f[k] = FALSE /\ t[k] = TRUE
        /\ \A i \in 1 .. Len(b) : f[i] = b[i] /\ t[i] = b[i]
    BY <2>1, AppendProperties
  <2>3. Len(f) + n = l /\ Len(t) + n = l
    BY <2>1, <2>2
  <2>4. Counted(f, n) /\ Counted(t, n)
    BY <1>2, <2>2, <2>3
  <2> HIDE DEF f, t
  <2> DEFINE A == Words(f, l)
             B == Words(t, l)
  <2>5. Words(b, l) = A \cup B
    <3>1. ASSUME NEW w \in Words(b, l) PROVE w \in A \cup B
      <4>1. w \in [1 .. l -> BOOLEAN] /\ \A i \in 1 .. Len(b) : w[i] = b[i]
        BY DEF Words
      <4>2. w[k] \in BOOLEAN
        BY <2>1, <4>1
      <4>3. \A i \in 1 .. k : i \in 1 .. Len(b) \/ i = k
        BY <2>1
      <4>4. CASE w[k] = FALSE
        <5>1. \A i \in 1 .. Len(f) : w[i] = f[i]
          BY <2>2, <4>1, <4>3, <4>4
        <5> QED
          BY <4>1, <5>1 DEF Words
      <4>5. CASE w[k] = TRUE
        <5>1. \A i \in 1 .. Len(t) : w[i] = t[i]
          BY <2>2, <4>1, <4>3, <4>5
        <5> QED
          BY <4>1, <5>1 DEF Words
      <4> QED
        BY <4>2, <4>4, <4>5
    <3>2. 1 .. Len(b) \subseteq 1 .. k
      BY <2>1
    <3>3. A \subseteq Words(b, l)
      BY <2>2, <3>2 DEF Words
    <3>4. B \subseteq Words(b, l)
      BY <2>2, <3>2 DEF Words
    <3> QED
      BY <3>1, <3>3, <3>4
  <2>6. A \cap B = {}
    <3>1. k \in 1 .. Len(f) /\ k \in 1 .. Len(t)
      BY <2>1, <2>2
    <3>2. \A w \in A : w[k] = FALSE
      BY <2>2, <3>1 DEF Words
    <3>3. \A w \in B : w[k] = TRUE
      BY <2>2, <3>1 DEF Words
    <3> QED
      BY <3>2, <3>3
  <2>7. IsFiniteSet(A) /\ IsFiniteSet(B) /\ Cardinality(A) = 2^n /\ Cardinality(B) = 2^n
    BY <2>4
  <2> HIDE DEF A, B
  <2>8. /\ IsFiniteSet(A \cup B)
        /\ Cardinality(A \cup B) = Cardinality(A) + Cardinality(B) - Cardinality(A \cap B)
    BY <2>7, FS_Union
  <2>9. Cardinality(A \cap B) = 0
    BY <2>6, FS_EmptySet
  <2>10. Cardinality(A \cup B) = 2^n + 2^n - 0 /\ 2^n \in Nat /\ 2^(n + 1) = 2 * 2^n
    BY <2>7, <2>8, <2>9, PowerFacts
  <2>11. Cardinality(A \cup B) = 2^(n + 1)
    BY <2>10
  <2> QED
    BY <2>5, <2>8, <2>11
<1> HIDE DEF P
<1>3. Len(c) \in Nat /\ l - Len(c) \in Nat /\ Len(c) + (l - Len(c)) = l
  BY LenProperties
<1>4. l - Len(c) \in P
  BY <1>1, <1>2, <1>3, NatInduct
<1> QED
  BY <1>3, <1>4 DEF P

\* Codes that are apart begin different words.
LEMMA WordsApart ==
    ASSUME NEW l \in Nat, NEW c \in Seq(BOOLEAN), NEW d \in Seq(BOOLEAN), Apart(c, d)
    PROVE  Words(c, l) \cap Words(d, l) = {}
<1> SUFFICES ASSUME NEW w, w \in Words(c, l), w \in Words(d, l) PROVE FALSE
  OBVIOUS
<1>1. PICK i \in 1 .. Len(c) : i \in 1 .. Len(d) /\ c[i] # d[i]
  BY DEF Apart
<1> QED
  BY <1>1 DEF Words

-----------------------------------------------------------------------------
(* The bits of a code value *)

\* A code of a given length.
LEMMA BitsAreCode ==
    ASSUME NEW v \in Nat, NEW n \in Nat
    PROVE  Bits(v, n) \in Seq(BOOLEAN) /\ Len(Bits(v, n)) = n
<1>1. Bits(v, n) \in [1 .. n -> BOOLEAN]
  BY DEF Bits
<1>2. \A s \in [1 .. n -> BOOLEAN] : s \in Seq(BOOLEAN) /\ Len(s) = n
  BY SeqDef, LenProperties
<1> QED
  BY <1>1, <1>2

\* The leading bits of a value are the bits of its quotient.
LEMMA LeadingBits ==
    ASSUME NEW v \in Nat, NEW n \in Nat, NEW m \in Nat, m <= n, NEW i \in 1 .. m
    PROVE  Bits(v, n)[i] <=> Bits(v \div 2^(n - m), m)[i]
<1>1. n - m \in Nat /\ m - i \in Nat /\ n - i = (n - m) + (m - i) /\ i \in 1 .. n
  OBVIOUS
<1> DEFINE a == 2^(n - m)
           b == 2^(m - i)
<1>2. a \in Nat /\ a >= 1 /\ b \in Nat /\ b >= 1
  BY <1>1, PowerFacts
<1>3. 2^(n - i) = a * b
  BY <1>1, PowerAdd
<1>4. (v \div a) \div b = v \div (a * b)
  <2> HIDE DEF a, b
  <2> QED
    BY <1>2, QuotientTwice
<1>5. Bits(v, n)[i] <=> (v \div 2^(n - i)) % 2 = 1
  BY <1>1 DEF Bits
<1>6. Bits(v \div a, m)[i] <=> ((v \div a) \div b) % 2 = 1
  BY DEF Bits
<1> QED
  BY <1>3, <1>4, <1>5, <1>6

\* Two values below 2^n have different bits.
LEMMA BitsDiffer ==
    ASSUME NEW n \in Nat, NEW v \in Nat, NEW w \in Nat, v < 2^n, w < 2^n, v # w
    PROVE  \E i \in 1 .. n : ~(Bits(v, n)[i] <=> Bits(w, n)[i])
<1> DEFINE Differ(a, b, m) == \E i \in 1 .. m : ~(Bits(a, m)[i] <=> Bits(b, m)[i])
           P == {m \in Nat : \A a, b \in Nat :
                                a < 2^m /\ b < 2^m /\ a # b => Differ(a, b, m)}
<1>1. 0 \in P
  BY PowerFacts
<1>2. ASSUME NEW m \in Nat, m \in P PROVE m + 1 \in P
  <2> SUFFICES ASSUME NEW a \in Nat, NEW b \in Nat, a < 2^(m + 1), b < 2^(m + 1), a # b
               PROVE  Differ(a, b, m + 1)
    OBVIOUS
  <2>1. 2^(m + 1) = 2 * 2^m /\ 2^m \in Nat
    BY PowerFacts
  <2> DEFINE c == a \div 2
             d == b \div 2
  <2>2. ASSUME NEW x \in Nat
        PROVE  /\ x \div 2 \in Nat /\ x % 2 = x - 2 * (x \div 2)
               /\ x % 2 = 0 \/ x % 2 = 1
    OBVIOUS
  <2>3. /\ c \in Nat /\ a % 2 = a - 2 * c /\ (a % 2 = 0 \/ a % 2 = 1)
        /\ d \in Nat /\ b % 2 = b - 2 * d /\ (b % 2 = 0 \/ b % 2 = 1)
        /\ c < 2^m /\ d < 2^m
    <3> DEFINE e == 2^m
    <3>1. a < 2 * e /\ b < 2 * e /\ e \in Nat
      BY <2>1
    <3>2. /\ c \in Nat /\ a % 2 = a - 2 * c /\ (a % 2 = 0 \/ a % 2 = 1)
          /\ d \in Nat /\ b % 2 = b - 2 * d /\ (b % 2 = 0 \/ b % 2 = 1)
      BY <2>2
    <3> HIDE DEF c, d, e
    <3>3. 2 * c <= a /\ 2 * d <= b
      BY <3>2
    <3>4. c < e /\ d < e
      BY <3>1, <3>2, <3>3
    <3> QED
      BY <3>2, <3>4 DEF e
  <2>4. CASE c # d
    <3>1. PICK i \in 1 .. m : ~(Bits(c, m)[i] <=> Bits(d, m)[i])
      BY <1>2, <2>3, <2>4
    <3>2. /\ m + 1 \in Nat /\ m <= m + 1 /\ (m + 1) - m = 1 /\ i \in 1 .. m + 1
          /\ 2^1 = 2
      <4>1. 0 \in Nat /\ 0 + 1 = 1
        OBVIOUS
      <4>2. 2^(0 + 1) = 2 * 2^0
        BY <4>1, PowerFacts
      <4> QED
        BY <4>1, <4>2, PowerFacts
    <3>3. ASSUME NEW x \in Nat
          PROVE  Bits(x, m + 1)[i] <=> Bits(x \div 2, m)[i]
      <4>1. 2^((m + 1) - m) = 2
        BY <3>2
      <4> DEFINE k == m + 1
      <4>2. k \in Nat /\ m <= k
        OBVIOUS
      <4> HIDE DEF k
      <4>3. Bits(x, k)[i] <=> Bits(x \div 2^(k - m), m)[i]
        BY <3>1, <4>2, LeadingBits
      <4> QED
        BY <4>1, <4>3 DEF k
    <3>4. (Bits(a, m + 1)[i] <=> Bits(c, m)[i]) /\ (Bits(b, m + 1)[i] <=> Bits(d, m)[i])
      BY <3>3
    <3> QED
      BY <3>1, <3>2, <3>4
  <2>5. CASE c = d
    <3>1. a % 2 # b % 2
      <4> HIDE DEF c, d
      <4> QED
        BY <2>3, <2>5
    <3>2. m + 1 \in 1 .. m + 1 /\ (m + 1) - (m + 1) = 0 /\ a \div 1 = a /\ b \div 1 = b
      OBVIOUS
    <3>3. Bits(a, m + 1)[m + 1] <=> a % 2 = 1
      BY <3>2, PowerFacts DEF Bits
    <3>4. Bits(b, m + 1)[m + 1] <=> b % 2 = 1
      BY <3>2, PowerFacts DEF Bits
    <3> QED
      BY <2>3, <3>1, <3>2, <3>3, <3>4
  <2> QED
    BY <2>4, <2>5
<1> HIDE DEF P
<1>3. n \in P
  BY <1>1, <1>2, NatInduct
<1> QED
  BY <1>3 DEF P

\* The code of a value that lies above all words the first code begins.
LEMMA BitsApart ==
    ASSUME NEW m \in Nat, NEW n \in Nat, m <= n, NEW v \in Nat, NEW w \in Nat,
           v < 2^m, w < 2^n, (v + 1) * 2^(n - m) <= w
    PROVE  Apart(Bits(v, m), Bits(w, n)) /\ Apart(Bits(w, n), Bits(v, m))
<1> DEFINE d == 2^(n - m)
           u == w \div d
           e == 2^m
<1>1. n - m \in Nat /\ n = m + (n - m)
  OBVIOUS
<1>2. d \in Nat /\ d >= 1 /\ e \in Nat
  BY <1>1, PowerFacts
<1>3. 2^n = e * d
  BY <1>1, PowerAdd
<1>4. (v + 1) * d <= w /\ w < e * d /\ v < e
  BY <1>3
<1> HIDE DEF d, e
<1>5. u \in Nat /\ d * u <= w /\ w < d * u + d
  BY <1>2, QuotientFacts
<1> HIDE DEF u
<1>6. u # v
  <2>1. (v + 1) * d = d * v + d
    BY <1>2
  <2> QED
    BY <1>2, <1>4, <1>5, <2>1
<1>7. u < e
  <2> SUFFICES ASSUME e <= u PROVE FALSE
    BY <1>2, <1>5
  <2>1. e * d <= u * d /\ u * d = d * u
    BY <1>2, <1>5, ProductMonotone
  <2>2. e * d \in Nat /\ d * u \in Nat
    BY <1>2, <1>5
  <2> QED
    BY <1>4, <1>5, <2>1, <2>2
<1>8. PICK i \in 1 .. m : ~(Bits(v, m)[i] <=> Bits(u, m)[i])
  BY <1>4, <1>5, <1>6, <1>7, BitsDiffer DEF e
<1>9. Bits(w, n)[i] <=> Bits(u, m)[i]
  BY LeadingBits DEF u, d
<1>10. Bits(v, m)[i] # Bits(w, n)[i]
  BY <1>8, <1>9
<1>11. Len(Bits(v, m)) = m /\ Len(Bits(w, n)) = n
  BY BitsAreCode
<1>12. i \in Nat /\ i \in 1 .. m /\ i \in 1 .. n
  OBVIOUS
<1> QED
  BY <1>10, <1>11, <1>12 DEF Apart

-----------------------------------------------------------------------------
(* The order and the values of make_canonical_codes *)

\* The lengths of the codes of a finite set of symbols.
AreLengths(lengths) == /\ IsFiniteSet(DOMAIN lengths)
                       /\ DOMAIN lengths \subseteq Nat
                       /\ \A s \in DOMAIN lengths : lengths[s] \in Nat

\* o lists the symbols in T by length, then by value.
Lists(lengths, T, o) ==
    /\ o \in SetToSeqs(T)
    /\ \A i, j \in DOMAIN o : i < j => Precedes(lengths, o[i], o[j])

\* Some symbol comes last.
LEMMA LastExists ==
    ASSUME NEW lengths, AreLengths(lengths), NEW T \in SUBSET DOMAIN lengths, T # {}
    PROVE  \E m \in T : \A x \in T : x # m => Precedes(lengths, x, m)
<1> DEFINE P == {U \in SUBSET DOMAIN lengths :
                    U = {} \/ \E m \in U : \A x \in U : x # m => Precedes(lengths, x, m)}
<1> USE DEF AreLengths
<1>1. ASSUME NEW U \in SUBSET DOMAIN lengths, \A V \in SUBSET U : V # U => V \in P
      PROVE  U \in P
  <2>1. CASE U = {}
    BY <2>1
  <2>2. CASE U # {}
    <3>1. PICK a \in U : TRUE
      BY <2>2
    <3> DEFINE V == U \ {a}
    <3>2. V \in P
      BY <1>1, <3>1
    <3>3. CASE V = {}
      <4>1. \A x \in U : x = a
        BY <3>3
      <4> QED
        BY <3>1, <4>1
    <3>4. CASE V # {}
      <4>1. PICK m \in V : \A x \in V : x # m => Precedes(lengths, x, m)
        BY <3>2, <3>4
      <4>2. CASE Precedes(lengths, a, m)
        <5>1. \A x \in U : x # m => Precedes(lengths, x, m)
          BY <4>1, <4>2
        <5> QED
          BY <4>1, <5>1
      <4>3. CASE ~Precedes(lengths, a, m)
        <5>1. Precedes(lengths, m, a)
          BY <3>1, <4>1, <4>3 DEF Precedes
        <5>2. ASSUME NEW x \in U, x # a PROVE Precedes(lengths, x, a)
          <6>1. x = m \/ Precedes(lengths, x, m)
            BY <4>1, <5>2
          <6> QED
            BY <3>1, <4>1, <5>1, <6>1 DEF Precedes
        <5> QED
          BY <3>1, <5>2
      <4> QED
        BY <4>2, <4>3
    <3> QED
      BY <3>3, <3>4
  <2> QED
    BY <2>1, <2>2
<1> HIDE DEF P
<1>2. T \in P
  BY <1>1, SetInduct
<1> QED
  BY <1>2 DEF P

\* Any set of symbols can be listed.
LEMMA ListExists ==
    ASSUME NEW lengths, AreLengths(lengths)
    PROVE  \E o : Lists(lengths, DOMAIN lengths, o)
<1> DEFINE P == {T \in SUBSET DOMAIN lengths : \E o : Lists(lengths, T, o)}
<1>0. IsFiniteSet(DOMAIN lengths)
  BY DEF AreLengths
<1>1. ASSUME NEW T \in SUBSET DOMAIN lengths, \A U \in SUBSET T : U # T => U \in P
      PROVE  T \in P
  <2>1. CASE T = {}
    <3>1. Cardinality(T) = 0
      BY <2>1, FS_EmptySet
    <3> DEFINE o == [i \in 1 .. 0 |-> 0]
    <3>2. o \in SetToSeqs(T)
      BY <3>1 DEF SetToSeqs
    <3>3. Lists(lengths, T, o)
      BY <3>2 DEF Lists
    <3> QED
      BY <3>3
  <2>2. CASE T # {}
    <3>1. PICK m \in T : \A x \in T : x # m => Precedes(lengths, x, m)
      BY <2>2, LastExists
    <3> DEFINE U == T \ {m}
               k == Cardinality(U)
    <3>2. PICK o : Lists(lengths, U, o)
      BY <1>1, <3>1
    <3>3. k \in Nat /\ Cardinality(T) = k + 1
      <4>1. IsFiniteSet(T)
        BY <1>0, FS_Subset
      <4>2. IsFiniteSet(U) /\ Cardinality(U) = Cardinality(T) - 1
        BY <3>1, <4>1, FS_RemoveElement
      <4>3. Cardinality(T) \in Nat /\ k \in Nat
        BY <4>1, <4>2, FS_CardinalityType
      <4> HIDE DEF U
      <4> QED
        BY <4>2, <4>3
    <3>4. /\ o \in [1 .. k -> U]
          /\ \A i, j \in 1 .. k : i # j => o[i] # o[j]
          /\ \A i, j \in 1 .. k : i < j => Precedes(lengths, o[i], o[j])
      BY <3>2 DEF Lists, SetToSeqs
    <3> HIDE DEF k
    <3> DEFINE p == [i \in 1 .. k + 1 |-> IF i = k + 1 THEN m ELSE o[i]]
    <3>5. \A i \in 1 .. k + 1 : i = k + 1 \/ (i \in 1 .. k /\ i # k + 1 /\ i < k + 1)
      BY <3>3
    <3>6. p \in [1 .. k + 1 -> T]
      BY <3>1, <3>4, <3>5
    <3>7. ASSUME NEW i \in 1 .. k + 1, NEW j \in 1 .. k + 1, i # j PROVE p[i] # p[j]
      BY <3>1, <3>4, <3>5, <3>7
    <3>8. ASSUME NEW i \in 1 .. k + 1, NEW j \in 1 .. k + 1, i < j
          PROVE  Precedes(lengths, p[i], p[j])
      <4>1. i \in 1 .. k /\ p[i] = o[i] /\ o[i] \in U
        BY <3>3, <3>4, <3>5, <3>8
      <4>2. CASE j = k + 1
        BY <3>1, <4>1, <4>2
      <4>3. CASE j # k + 1
        BY <3>4, <3>5, <3>8, <4>1, <4>3
      <4> QED
        BY <4>2, <4>3
    <3>9. p \in SetToSeqs(T)
      BY <3>3, <3>6, <3>7 DEF SetToSeqs
    <3>10. Lists(lengths, T, p)
      BY <3>6, <3>8, <3>9 DEF Lists
    <3> QED
      BY <3>10
  <2> QED
    BY <2>1, <2>2
<1> HIDE DEF P
<1>2. DOMAIN lengths \in P
  BY <1>0, <1>1, SetInduct
<1> QED
  BY <1>2 DEF P

\* What the sort of make_canonical_codes returns: all symbols, each once, the
\* lengths growing.
LEMMA SortFacts ==
    ASSUME NEW lengths, AreLengths(lengths)
    PROVE  LET o == code_lengths(lengths)
               n == Cardinality(DOMAIN lengths)
           IN  /\ n \in Nat
               /\ o \in [1 .. n -> DOMAIN lengths]
               /\ \A i, j \in 1 .. n : i # j => o[i] # o[j]
               /\ \A s \in DOMAIN lengths : \E i \in 1 .. n : o[i] = s
               /\ \A i, j \in 1 .. n : i < j => lengths[o[i]] <= lengths[o[j]]
<1> DEFINE D == DOMAIN lengths
           o == code_lengths(lengths)
           n == Cardinality(D)
<1>1. Lists(lengths, D, o)
  <2>1. code_lengths(lengths) = CHOOSE p \in SetToSeqs(D) :
                \A i, j \in DOMAIN p : i < j => Precedes(lengths, p[i], p[j])
    BY DEF code_lengths
  <2>2. \E p \in SetToSeqs(D) :
                \A i, j \in DOMAIN p : i < j => Precedes(lengths, p[i], p[j])
    BY ListExists DEF Lists
  <2> HIDE DEF D
  <2> QED
    BY <2>1, <2>2 DEF Lists
<1>2. IsFiniteSet(D) /\ n \in Nat
  BY FS_CardinalityType DEF AreLengths
<1> HIDE DEF o
<1>3. /\ o \in [1 .. n -> D]
      /\ \A i, j \in 1 .. n : i # j => o[i] # o[j]
      /\ \A i, j \in 1 .. n : i < j => Precedes(lengths, o[i], o[j])
  BY <1>1 DEF Lists, SetToSeqs
<1> HIDE DEF D
<1>4. o \in Injection(1 .. n, D)
  BY <1>3 DEF Injection, IsInjective
<1>5. IsFiniteSet(1 .. n) /\ Cardinality(1 .. n) = Cardinality(D)
  BY <1>2, FS_Interval
<1>6. o \in Surjection(1 .. n, D)
  BY <1>2, <1>4, <1>5, FS_Injection
<1>7. \A s \in D : \E i \in 1 .. n : o[i] = s
  BY <1>6 DEF Surjection
<1>8. \A i, j \in 1 .. n : i < j => lengths[o[i]] <= lengths[o[j]]
  <2> SUFFICES ASSUME NEW i \in 1 .. n, NEW j \in 1 .. n, i < j
               PROVE  lengths[o[i]] <= lengths[o[j]]
    OBVIOUS
  <2>1. Precedes(lengths, o[i], o[j])
    BY <1>3
  <2>2. lengths[o[i]] \in Nat /\ lengths[o[j]] \in Nat
    BY <1>3 DEF AreLengths, D
  <2> QED
    BY <2>1, <2>2 DEF Precedes
<1> QED
  BY <1>2, <1>3, <1>7, <1>8 DEF o, D

\* The lengths are listed in growing order.
Growing(lengths, o, n) ==
    /\ n \in Nat /\ DOMAIN o = 1 .. n
    /\ \A i \in 1 .. n : lengths[o[i]] \in Nat
    /\ \A i, j \in 1 .. n : i < j => lengths[o[i]] <= lengths[o[j]]

\* The values of code in the loop of make_canonical_codes.
Counted(lengths, o, v, n) ==
    \A i \in 1 .. n :
        /\ v[i] \in Nat
        /\ i = 1 => v[i] = 0
        /\ i # 1 => v[i] = (v[i - 1] + 1) * 2^(lengths[o[i]] - lengths[o[i - 1]])

\* The loop computes them.
LEMMA CodeValueFacts ==
    ASSUME NEW lengths, NEW o, NEW n, Growing(lengths, o, n)
    PROVE  Counted(lengths, o, CodeValues(lengths, o), n)
<1> DEFINE shift(i) == 2^(lengths[o[i]] - lengths[o[i - 1]])
           Follows(v, i) == v[i] = IF i = 1 THEN 0 ELSE (v[i - 1] + 1) * shift(i)
           P == {k \in Nat : \E v : \A i \in 1 .. k : Follows(v, i)}
<1> USE DEF Growing
<1>1. 0 \in P
  OBVIOUS
<1>2. ASSUME NEW k \in Nat, k \in P PROVE k + 1 \in P
  <2>1. PICK v : \A i \in 1 .. k : Follows(v, i)
    BY <1>2
  <2> HIDE DEF shift
  <2> DEFINE w == [i \in 1 .. k + 1 |->
                      IF i = k + 1 THEN IF i = 1 THEN 0 ELSE (v[i - 1] + 1) * shift(i)
                                   ELSE v[i]]
  <2>2. ASSUME NEW i \in 1 .. k + 1 PROVE Follows(w, i)
    <3>1. CASE i = k + 1
      <4>1. i # 1 => i - 1 \in 1 .. k + 1 /\ i - 1 # k + 1
        BY <3>1
      <4> QED
        BY <3>1, <4>1
    <3>2. CASE i # k + 1
      <4>1. i \in 1 .. k /\ (i # 1 => i - 1 \in 1 .. k + 1 /\ i - 1 # k + 1)
        BY <3>2
      <4> QED
        BY <2>1, <3>2, <4>1
    <3> QED
      BY <3>1, <3>2
  <2>3. k + 1 \in Nat
    OBVIOUS
  <2> HIDE DEF w, Follows
  <2> QED
    BY <2>2, <2>3
<1>3. n \in P
  <2> HIDE DEF P
  <2> QED
    BY <1>1, <1>2, NatInduct
<1>4. PICK v : \A i \in 1 .. n : Follows(v, i)
  BY <1>3
<1> DEFINE Is(code) == code = [i \in DOMAIN o |->
               IF i = 1 THEN 0
               ELSE (code[i - 1] + 1) * 2^(lengths[o[i]] - lengths[o[i - 1]])]
           u == CodeValues(lengths, o)
           w == [i \in 1 .. n |-> v[i]]
<1>5. Is(w)
  <2>1. ASSUME NEW i \in 1 .. n
        PROVE  w[i] = IF i = 1 THEN 0 ELSE (w[i - 1] + 1) * shift(i)
    <3>1. i # 1 => i - 1 \in 1 .. n
      OBVIOUS
    <3> HIDE DEF shift
    <3> QED
      BY <1>4, <3>1
  <2>2. w = [i \in 1 .. n |-> w[i]]
    OBVIOUS
  <2> HIDE DEF w
  <2> QED
    BY <2>1, <2>2
<1>6. Is(u)
  <2>1. u = CHOOSE code : Is(code)
    BY DEF CodeValues
  <2> HIDE DEF u, w, Is
  <2> QED
    BY <1>5, <2>1
<1>7. ASSUME NEW i \in 1 .. n PROVE Follows(u, i)
  <2> HIDE DEF u
  <2> QED
    BY <1>6
<1> HIDE DEF u, Is, w
<1>8. ASSUME NEW i \in 1 .. n, i # 1 PROVE shift(i) \in Nat
  <2>1. i - 1 \in 1 .. n /\ i - 1 < i
    BY <1>8
  <2>2. lengths[o[i]] - lengths[o[i - 1]] \in Nat
    BY <2>1
  <2> QED
    BY <2>2, PowerFacts
<1> HIDE DEF shift
<1> DEFINE Q == {k \in Nat : k \in 1 .. n => u[k] \in Nat}
<1>9. 0 \in Q
  OBVIOUS
<1>10. ASSUME NEW k \in Nat, k \in Q PROVE k + 1 \in Q
  <2> SUFFICES ASSUME k + 1 \in 1 .. n PROVE u[k + 1] \in Nat
    OBVIOUS
  <2>1. CASE k = 0
    BY <1>7, <2>1
  <2>2. CASE k # 0
    <3>1. k + 1 # 1 /\ (k + 1) - 1 = k /\ k \in 1 .. n
      BY <2>2
    <3>2. u[k + 1] = (u[k] + 1) * shift(k + 1)
      BY <1>7, <3>1
    <3>3. u[k] \in Nat /\ shift(k + 1) \in Nat
      BY <1>8, <1>10, <3>1
    <3> QED
      BY <3>2, <3>3
  <2> QED
    BY <2>1, <2>2
<1>11. \A i \in 1 .. n : u[i] \in Nat
  <2>1. \A k \in Nat : k \in Q
    <3> HIDE DEF Q
    <3> QED
      BY <1>9, <1>10, NatInduct
  <2> QED
    BY <2>1
<1>12. Counted(lengths, o, u, n)
  BY <1>7, <1>11 DEF Counted, shift
<1> QED
  BY <1>12 DEF u

\* A later value lies above all words the code of an earlier one begins.
LEMMA ValuesGrow ==
    ASSUME NEW lengths, NEW o, NEW n, NEW v, Growing(lengths, o, n),
           Counted(lengths, o, v, n), NEW i \in 1 .. n, NEW j \in 1 .. n, i < j
    PROVE  (v[i] + 1) * 2^(lengths[o[j]] - lengths[o[i]]) <= v[j]
<1> DEFINE len(k) == lengths[o[k]]
           P == {d \in Nat : i + (d + 1) <= n =>
                    (v[i] + 1) * 2^(len(i + (d + 1)) - len(i)) <= v[i + (d + 1)]}
<1>1. n \in Nat /\ i \in Nat /\ j \in Nat
  BY DEF Growing
<1>2. /\ \A k \in 1 .. n : len(k) \in Nat /\ v[k] \in Nat
      /\ \A k, m \in 1 .. n : k < m => len(k) <= len(m)
      /\ \A k \in 1 .. n : k # 1 => v[k] = (v[k - 1] + 1) * 2^(len(k) - len(k - 1))
  BY DEF Growing, Counted
<1> HIDE DEF len
<1>3. 0 \in P
  <2> SUFFICES ASSUME i + 1 <= n PROVE (v[i] + 1) * 2^(len(i + 1) - len(i)) <= v[i + 1]
    BY <1>1
  <2>1. i + 1 \in 1 .. n /\ i + 1 # 1 /\ (i + 1) - 1 = i /\ i < i + 1
    BY <1>1
  <2>2. v[i + 1] = (v[i] + 1) * 2^(len(i + 1) - len(i)) /\ v[i + 1] \in Nat
    BY <1>2, <2>1
  <2> QED
    BY <2>2
<1>4. ASSUME NEW d \in Nat, d \in P PROVE d + 1 \in P
  <2> DEFINE k == i + (d + 1)
  <2> SUFFICES ASSUME k + 1 <= n PROVE (v[i] + 1) * 2^(len(k + 1) - len(i)) <= v[k + 1]
    <3>1. i + ((d + 1) + 1) = k + 1 /\ d + 1 \in Nat
      BY <1>1
    <3> HIDE DEF k
    <3> QED
      BY <3>1
  <2>1. /\ k \in 1 .. n /\ k + 1 \in 1 .. n /\ k + 1 # 1 /\ (k + 1) - 1 = k
        /\ k < k + 1 /\ i < k
    BY <1>1
  <2>2. (v[i] + 1) * 2^(len(k) - len(i)) <= v[k]
    BY <1>4, <2>1
  <2> HIDE DEF k
  <2>3. /\ len(k + 1) \in Nat /\ len(k) \in Nat /\ len(i) \in Nat
        /\ len(i) <= len(k) /\ len(k) <= len(k + 1)
        /\ v[i] \in Nat /\ v[k] \in Nat
    BY <1>2, <2>1
  <2> DEFINE a == len(k) - len(i)
             b == len(k + 1) - len(k)
             x == 2^a
             y == 2^b
  <2>4. a \in Nat /\ b \in Nat /\ len(k + 1) - len(i) = a + b
    BY <2>3
  <2>5. 2^(len(k + 1) - len(i)) = x * y /\ x \in Nat /\ y \in Nat
    <3> HIDE DEF a, b
    <3>1. 2^(a + b) = x * y
      BY <2>4, PowerAdd
    <3>2. x \in Nat /\ y \in Nat
      BY <2>4, PowerFacts
    <3> QED
      BY <2>4, <3>1, <3>2
  <2>6. v[k + 1] = (v[k] + 1) * y
    BY <1>2, <2>1
  <2>7. (v[i] + 1) * x <= v[k]
    BY <2>2
  <2> HIDE DEF x, y
  <2>8. (v[i] + 1) * x \in Nat /\ v[k] + 1 \in Nat /\ (v[i] + 1) * x <= v[k] + 1
    BY <2>3, <2>5, <2>7
  <2>9. ((v[i] + 1) * x) * y <= (v[k] + 1) * y
    BY <2>5, <2>8, ProductMonotone
  <2>10. ((v[i] + 1) * x) * y = (v[i] + 1) * (x * y)
    BY <2>3, <2>5
  <2> DEFINE z == 2^(len(k + 1) - len(i))
  <2>11. z = x * y
    BY <2>5
  <2> HIDE DEF z
  <2>12. (v[i] + 1) * z <= v[k + 1]
    BY <2>6, <2>9, <2>10, <2>11
  <2> QED
    BY <2>12 DEF z
<1>5. j - i - 1 \in P
  <2>1. j - i - 1 \in Nat
    BY <1>1
  <2> HIDE DEF P
  <2> QED
    BY <1>3, <1>4, <2>1, NatInduct
<1>6. i + ((j - i - 1) + 1) = j
  BY <1>1
<1> QED
  BY <1>5, <1>6 DEF len

\* The number of words of l bits that the first i codes begin, as the loop
\* counts them.
Total(lengths, o, v, l, i) == (v[i] + 1) * 2^(l - lengths[o[i]])

\* Each code adds the words it begins.
AddsWords(lengths, o, v, l, i) ==
    /\ Total(lengths, o, v, l, i) \in Nat
    /\ 2^(l - lengths[o[i]]) \in Nat
    /\ i = 1 => Total(lengths, o, v, l, i) = 2^(l - lengths[o[i]])
    /\ i # 1 => Total(lengths, o, v, l, i)
                  = Total(lengths, o, v, l, i - 1) + 2^(l - lengths[o[i]])

\* So it is in the loop; and a value fits if its total does.
LEMMA TotalFacts ==
    ASSUME NEW lengths, NEW o, NEW n, NEW v, Growing(lengths, o, n),
           Counted(lengths, o, v, n), NEW l \in Nat, NEW i \in 1 .. n,
           \A k \in 1 .. n : lengths[o[k]] <= l
    PROVE  /\ AddsWords(lengths, o, v, l, i)
           /\ Total(lengths, o, v, l, i) <= 2^l => v[i] + 1 <= 2^lengths[o[i]]
<1> DEFINE a == lengths[o[i]]
           x == 2^(l - a)
<1>1. a \in Nat /\ a <= l /\ l - a \in Nat /\ v[i] \in Nat /\ n \in Nat
  BY DEF Growing, Counted
<1>2. x \in Nat /\ x >= 1
  <2> HIDE DEF a
  <2> QED
    BY <1>1, PowerFacts
<1>3. Total(lengths, o, v, l, i) = (v[i] + 1) * x
  BY DEF Total
<1>4. (v[i] + 1) * x \in Nat
  <2> HIDE DEF x
  <2> QED
    BY <1>1, <1>2
<1>5. i = 1 => (v[i] + 1) * x = x
  <2> HIDE DEF x
  <2>1. i = 1 => v[i] = 0
    BY DEF Counted
  <2> QED
    BY <1>2, <2>1
<1>6. ASSUME i # 1
      PROVE  Total(lengths, o, v, l, i) = Total(lengths, o, v, l, i - 1) + x
  <2> DEFINE b == lengths[o[i - 1]]
             y == 2^(a - b)
             z == 2^(l - b)
  <2>1. i - 1 \in 1 .. n /\ i - 1 < i
    BY <1>1, <1>6
  <2>2. b \in Nat /\ b <= a /\ v[i - 1] \in Nat /\ v[i] = (v[i - 1] + 1) * y
    BY <1>6, <2>1 DEF Growing, Counted
  <2>3. a - b \in Nat /\ l - b = (a - b) + (l - a)
    BY <1>1, <2>2
  <2>4. z = y * x /\ y \in Nat
    <3> HIDE DEF a, b
    <3>1. 2^((a - b) + (l - a)) = 2^(a - b) * 2^(l - a)
      BY <1>1, <2>3, PowerAdd
    <3>2. y \in Nat
      BY <2>3, PowerFacts
    <3> QED
      BY <2>3, <3>1, <3>2
  <2>5. Total(lengths, o, v, l, i - 1) = (v[i - 1] + 1) * z
    BY DEF Total
  <2> HIDE DEF x, y, z
  <2>6. ((v[i - 1] + 1) * y + 1) * x = (v[i - 1] + 1) * (y * x) + x
    BY <1>2, <2>2, <2>4
  <2> QED
    BY <1>3, <2>2, <2>4, <2>5, <2>6
<1>7. ASSUME (v[i] + 1) * x <= 2^l PROVE v[i] + 1 <= 2^a
  <2> DEFINE e == 2^a
  <2>1. e \in Nat
    BY <1>1, PowerFacts
  <2>2. 2^l = e * x
    <3>1. l = a + (l - a)
      BY <1>1
    <3> HIDE DEF a
    <3>2. 2^(a + (l - a)) = 2^a * 2^(l - a)
      BY <1>1, PowerAdd
    <3> QED
      BY <3>1, <3>2
  <2> HIDE DEF x, e
  <2>3. (v[i] + 1) * x <= e * x
    BY <1>7, <2>2
  <2>4. v[i] + 1 <= e
    BY <1>1, <1>2, <2>1, <2>3, ProductCancel
  <2> QED
    BY <2>4 DEF e
<1> QED
  BY <1>2, <1>3, <1>4, <1>5, <1>6, <1>7 DEF AddsWords

\* The values have no more bits than the lengths say.
Fit(lengths) ==
    LET o == code_lengths(lengths)
    IN  \A i \in DOMAIN o : CodeValues(lengths, o)[i] + 1 <= 2^lengths[o[i]]

\* The facts about the order and the values together.
LEMMA LoopFacts ==
    ASSUME NEW lengths, AreLengths(lengths)
    PROVE  LET o == code_lengths(lengths)
               n == Cardinality(DOMAIN lengths)
           IN  /\ Growing(lengths, o, n)
               /\ Counted(lengths, o, CodeValues(lengths, o), n)
<1> DEFINE o == code_lengths(lengths)
           n == Cardinality(DOMAIN lengths)
<1>1. Growing(lengths, o, n)
  BY SortFacts DEF Growing, AreLengths
<1> HIDE DEF o, n
<1>2. Counted(lengths, o, CodeValues(lengths, o), n)
  BY <1>1, CodeValueFacts
<1> QED
  BY <1>1, <1>2 DEF o, n

\* make_canonical_codes keeps the symbols and the lengths of their codes.
LEMMA CanonicalShape ==
    ASSUME NEW lengths, AreLengths(lengths)
    PROVE  /\ DOMAIN Canonical(lengths) = DOMAIN lengths
           /\ \A s \in DOMAIN lengths : /\ Canonical(lengths)[s] \in Seq(BOOLEAN)
                                        /\ Len(Canonical(lengths)[s]) = lengths[s]
<1> DEFINE o == code_lengths(lengths)
           v == CodeValues(lengths, o)
           n == Cardinality(DOMAIN lengths)
<1>1. Growing(lengths, o, n) /\ Counted(lengths, o, v, n)
  BY LoopFacts
<1>2. \A s \in DOMAIN lengths : \E i \in 1 .. n : o[i] = s
  BY SortFacts
<1>3. Canonical(lengths) = [s \in DOMAIN lengths |->
                               Bits(v[CHOOSE i \in DOMAIN o : o[i] = s], lengths[s])]
  BY DEF Canonical
<1> HIDE DEF o, v, n
<1>4. ASSUME NEW s \in DOMAIN lengths
      PROVE  /\ Bits(v[CHOOSE i \in DOMAIN o : o[i] = s], lengths[s]) \in Seq(BOOLEAN)
             /\ Len(Bits(v[CHOOSE i \in DOMAIN o : o[i] = s], lengths[s])) = lengths[s]
  <2> DEFINE i == CHOOSE i \in DOMAIN o : o[i] = s
  <2>1. i \in 1 .. n /\ o[i] = s
    BY <1>1, <1>2 DEF Growing
  <2> HIDE DEF i
  <2>2. v[i] \in Nat /\ lengths[s] \in Nat
    BY <1>1, <2>1 DEF Counted, AreLengths
  <2>3. Bits(v[i], lengths[s]) \in Seq(BOOLEAN) /\ Len(Bits(v[i], lengths[s])) = lengths[s]
    BY <2>2, BitsAreCode
  <2> QED
    BY <2>3 DEF i
<1> QED
  BY <1>3, <1>4

\* Codes whose values fit are apart.
LEMMA CanonicalApart ==
    ASSUME NEW lengths, AreLengths(lengths), Fit(lengths)
    PROVE  AllApart(Canonical(lengths))
<1> DEFINE o == code_lengths(lengths)
           v == CodeValues(lengths, o)
           n == Cardinality(DOMAIN lengths)
<1>1. Growing(lengths, o, n) /\ Counted(lengths, o, v, n)
  BY LoopFacts
<1>2. \A s \in DOMAIN lengths : \E i \in 1 .. n : o[i] = s
  BY SortFacts
<1>3. Canonical(lengths) = [s \in DOMAIN lengths |->
                               Bits(v[CHOOSE i \in DOMAIN o : o[i] = s], lengths[s])]
  BY DEF Canonical
<1>4. \A i \in 1 .. n : v[i] + 1 <= 2^lengths[o[i]]
  BY <1>1 DEF Fit, Growing
<1> HIDE DEF o, v, n
<1>5. ASSUME NEW s \in DOMAIN lengths
      PROVE  \E i \in 1 .. n : o[i] = s /\ Canonical(lengths)[s] = Bits(v[i], lengths[s])
  <2> DEFINE i == CHOOSE i \in DOMAIN o : o[i] = s
  <2>1. i \in 1 .. n /\ o[i] = s
    BY <1>1, <1>2 DEF Growing
  <2>2. Canonical(lengths)[s] = Bits(v[i], lengths[s])
    BY <1>3
  <2> HIDE DEF i
  <2> QED
    BY <2>1, <2>2
<1>6. ASSUME NEW i \in 1 .. n, NEW j \in 1 .. n, i < j
      PROVE  /\ Apart(Bits(v[i], lengths[o[i]]), Bits(v[j], lengths[o[j]]))
             /\ Apart(Bits(v[j], lengths[o[j]]), Bits(v[i], lengths[o[i]]))
  <2> DEFINE a == lengths[o[i]]
             b == lengths[o[j]]
  <2>1. a \in Nat /\ b \in Nat /\ a <= b /\ v[i] \in Nat /\ v[j] \in Nat
    BY <1>1, <1>6 DEF Growing, Counted
  <2>2. v[i] + 1 <= 2^a /\ v[j] + 1 <= 2^b
    BY <1>4
  <2>3. (v[i] + 1) * 2^(b - a) <= v[j]
    BY <1>1, <1>6, ValuesGrow
  <2> HIDE DEF a, b
  <2>4. 2^a \in Nat /\ 2^b \in Nat
    BY <2>1, PowerFacts
  <2>5. v[i] < 2^a /\ v[j] < 2^b
    BY <2>1, <2>2, <2>4
  <2>6. Apart(Bits(v[i], a), Bits(v[j], b)) /\ Apart(Bits(v[j], b), Bits(v[i], a))
    BY <2>1, <2>3, <2>5, BitsApart
  <2> QED
    BY <2>6 DEF a, b
<1>7. DOMAIN Canonical(lengths) = DOMAIN lengths /\ n \in Nat
  BY <1>1, <1>3 DEF Growing
<1>8. ASSUME NEW s \in DOMAIN lengths, NEW t \in DOMAIN lengths, s # t
      PROVE  Apart(Canonical(lengths)[s], Canonical(lengths)[t])
  <2>1. PICK i \in 1 .. n : o[i] = s /\ Canonical(lengths)[s] = Bits(v[i], lengths[s])
    BY <1>5
  <2>2. PICK j \in 1 .. n : o[j] = t /\ Canonical(lengths)[t] = Bits(v[j], lengths[t])
    BY <1>5
  <2>3. i < j \/ j < i
    BY <1>7, <1>8, <2>1, <2>2
  <2> QED
    BY <1>6, <2>1, <2>2, <2>3
<1> QED
  BY <1>7, <1>8 DEF AllApart

-----------------------------------------------------------------------------
(* The codes that fit. *)

\* If no word of the greatest length is counted twice, all values fit.
LEMMA FitFromTotal ==
    ASSUME NEW lengths, AreLengths(lengths), NEW l \in Nat,
           \A s \in DOMAIN lengths : lengths[s] <= l,
           \A i \in 1 .. Cardinality(DOMAIN lengths) :
               Total(lengths, code_lengths(lengths),
                     CodeValues(lengths, code_lengths(lengths)), l, i) <= 2^l
    PROVE  Fit(lengths)
<1> DEFINE o == code_lengths(lengths)
           v == CodeValues(lengths, o)
           n == Cardinality(DOMAIN lengths)
<1>1. Growing(lengths, o, n) /\ Counted(lengths, o, v, n)
  BY LoopFacts
<1>2. \A k \in 1 .. n : lengths[o[k]] <= l
  BY SortFacts
<1>3. \A i \in 1 .. n : Total(lengths, o, v, l, i) <= 2^l
  OBVIOUS
<1> HIDE DEF o, v, n
<1>4. \A i \in 1 .. n : v[i] + 1 <= 2^lengths[o[i]]
  BY <1>1, <1>2, <1>3, TotalFacts
<1>5. \A i \in DOMAIN o : v[i] + 1 <= 2^lengths[o[i]]
  BY <1>1, <1>4 DEF Growing
<1> QED
  BY <1>5 DEF Fit, o, v

\* The lengths of codes that are apart fit (Kraft's inequality).
LEMMA CodesFit ==
    ASSUME NEW codes, IsFiniteSet(DOMAIN codes), DOMAIN codes \subseteq Nat,
           \A s \in DOMAIN codes : codes[s] \in Seq(BOOLEAN), AllApart(codes)
    PROVE  /\ AreLengths([s \in DOMAIN codes |-> Len(codes[s])])
           /\ Fit([s \in DOMAIN codes |-> Len(codes[s])])
<1> DEFINE D == DOMAIN codes
           lengths == [s \in D |-> Len(codes[s])]
           o == code_lengths(lengths)
           v == CodeValues(lengths, o)
           n == Cardinality(D)
<1>1. \A s \in D : Len(codes[s]) \in Nat
  BY LenProperties
<1>2. AreLengths(lengths) /\ DOMAIN lengths = D
  BY <1>1 DEF AreLengths
<1>3. /\ Growing(lengths, o, n) /\ Counted(lengths, o, v, n)
      /\ n \in Nat
      /\ o \in [1 .. n -> D]
      /\ \A i, j \in 1 .. n : i # j => o[i] # o[j]
      /\ \A s \in D : \E i \in 1 .. n : o[i] = s
      /\ \A i, j \in 1 .. n : i < j => lengths[o[i]] <= lengths[o[j]]
  <2> HIDE DEF lengths
  <2> QED
    BY <1>2, LoopFacts, SortFacts
<1>4. \A s \in D : lengths[s] = Len(codes[s])
  OBVIOUS
<1> HIDE DEF lengths, o, v, n
<1>5. n \in Nat /\ Growing(lengths, o, n) /\ Counted(lengths, o, v, n)
  BY <1>3
<1>6. CASE n = 0
  <2>1. D = {}
    <3>1. 1 .. n = {}
      BY <1>6
    <3> QED
      BY <1>3, <3>1
  <2>2. \A s \in DOMAIN lengths : lengths[s] <= 0
    BY <1>2, <2>1
  <2>3. 1 .. Cardinality(DOMAIN lengths) = {}
    BY <1>2, <1>6 DEF n
  <2>4. Fit(lengths)
    BY <1>2, <2>2, <2>3, FitFromTotal
  <2> QED
    BY <1>2, <2>4 DEF lengths
<1>7. CASE n # 0
  <2> DEFINE l == lengths[o[n]]
             Begun(i) == UNION {Words(codes[o[j]], l) : j \in 1 .. i}
             Size(i) == /\ IsFiniteSet(Begun(i))
                        /\ Cardinality(Begun(i)) = Total(lengths, o, v, l, i)
             P == {i \in Nat : i \in 1 .. n => Size(i)}
  <2>1. n \in 1 .. n /\ l \in Nat
    BY <1>1, <1>3, <1>4, <1>7
  <2>2. \A k \in 1 .. n : lengths[o[k]] <= l
    <3> SUFFICES ASSUME NEW k \in 1 .. n PROVE lengths[o[k]] <= l
      OBVIOUS
    <3>1. k < n \/ k = n
      BY <1>3
    <3> QED
      BY <1>3, <2>1, <3>1
  <2>3. \A s \in DOMAIN lengths : lengths[s] <= l
    BY <1>2, <1>3, <2>2
  <2> HIDE DEF l
  <2>4. ASSUME NEW i \in 1 .. n
        PROVE  /\ codes[o[i]] \in Seq(BOOLEAN)
               /\ IsFiniteSet(Words(codes[o[i]], l))
               /\ Cardinality(Words(codes[o[i]], l)) = 2^(l - lengths[o[i]])
    <3>1. o[i] \in D /\ codes[o[i]] \in Seq(BOOLEAN) /\ Len(codes[o[i]]) = lengths[o[i]]
      BY <1>3, <1>4
    <3>2. Len(codes[o[i]]) <= l
      BY <2>2, <3>1
    <3> HIDE DEF D
    <3> QED
      BY <2>1, <3>1, <3>2, WordCount
  <2>5. ASSUME NEW i \in 1 .. n
         PROVE  AddsWords(lengths, o, v, l, i)
    BY <1>5, <2>1, <2>2, TotalFacts
  <2>6. 0 \in P
    OBVIOUS
  <2>7. ASSUME NEW i \in Nat, i \in P PROVE i + 1 \in P
    <3> SUFFICES ASSUME i + 1 \in 1 .. n PROVE Size(i + 1)
      OBVIOUS
    <3> DEFINE k == i + 1
    <3>1. k \in 1 .. n /\ k \in Nat /\ 1 .. k = (1 .. i) \cup {k}
      BY <1>3
    <3>2. Begun(k) = Begun(i) \cup Words(codes[o[k]], l)
      <4> HIDE DEF k
      <4>1. ASSUME NEW w PROVE w \in Begun(k) <=> w \in Begun(i) \cup Words(codes[o[k]], l)
        BY <3>1
      <4> QED
        BY <4>1
    <3>3. /\ Total(lengths, o, v, l, k) \in Nat
          /\ 2^(l - lengths[o[k]]) \in Nat
          /\ k = 1 => Total(lengths, o, v, l, k) = 2^(l - lengths[o[k]])
          /\ k # 1 => Total(lengths, o, v, l, k)
                        = Total(lengths, o, v, l, k - 1) + 2^(l - lengths[o[k]])
      <4> HIDE DEF k
      <4> QED
        BY <2>5, <3>1, Zenon DEF AddsWords
    <3>4. /\ IsFiniteSet(Words(codes[o[k]], l))
          /\ Cardinality(Words(codes[o[k]], l)) = 2^(l - lengths[o[k]])
      <4> HIDE DEF k
      <4> QED
        BY <2>4, <3>1
    <3>5. CASE i = 0
      <4>1. Begun(0) = {}
        OBVIOUS
      <4>2. Begun(k) = Words(codes[o[k]], l)
        BY <3>2, <3>5, <4>1
      <4>3. Total(lengths, o, v, l, k) = 2^(l - lengths[o[k]])
        BY <3>3, <3>5
      <4> HIDE DEF Begun
      <4> QED
        BY <3>4, <4>2, <4>3
    <3>6. CASE i # 0
      <4>1. i \in 1 .. n /\ k - 1 = i /\ k # 1
        BY <1>5, <3>1, <3>6
      <4>2. Size(i)
        BY <2>7, <4>1
      <4>3. Begun(i) \cap Words(codes[o[k]], l) = {}
        <5> SUFFICES ASSUME NEW j \in 1 .. i
                     PROVE  Words(codes[o[j]], l) \cap Words(codes[o[k]], l) = {}
          OBVIOUS
        <5>1. j \in 1 .. n /\ j # k
          BY <1>5, <3>1, <4>1
        <5>2. Apart(codes[o[j]], codes[o[k]])
          BY <1>3, <3>1, <5>1 DEF AllApart
        <5> QED
          BY <2>1, <2>4, <3>1, <5>1, <5>2, WordsApart
      <4> DEFINE A == Begun(i)
                 B == Words(codes[o[k]], l)
      <4>4. /\ IsFiniteSet(A) /\ IsFiniteSet(B)
            /\ Cardinality(A) = Total(lengths, o, v, l, i)
            /\ Cardinality(B) = 2^(l - lengths[o[k]])
            /\ A \cap B = {}
            /\ Begun(k) = A \cup B
        BY <3>2, <3>4, <4>2, <4>3
      <4>5. Total(lengths, o, v, l, k) = Total(lengths, o, v, l, i) + 2^(l - lengths[o[k]])
        BY <3>3, <4>1
      <4> HIDE DEF A, B, Begun, k
      <4>6. IsFiniteSet(A \cup B) /\ Cardinality(A \cup B) = Cardinality(A) + Cardinality(B)
        <5>1. Cardinality(A) \in Nat /\ Cardinality(B) \in Nat /\ Cardinality(A \cap B) = 0
          BY <4>4, FS_CardinalityType, FS_EmptySet
        <5>2. /\ IsFiniteSet(A \cup B)
              /\ Cardinality(A \cup B) = Cardinality(A) + Cardinality(B) - Cardinality(A \cap B)
          BY <4>4, FS_Union
        <5> QED
          BY <5>1, <5>2
      <4> QED
        BY <4>4, <4>5, <4>6 DEF k
    <3> QED
      BY <3>5, <3>6
  <2> HIDE DEF P
  <2>8. \A i \in Nat : i \in P
    BY <2>6, <2>7, NatInduct
  <2>9. ASSUME NEW i \in 1 .. n PROVE Total(lengths, o, v, l, i) <= 2^l
    <3>1. i \in Nat
      BY <1>3
    <3>2. Size(i)
      BY <2>8, <3>1 DEF P
    <3>3. << >> \in Seq(BOOLEAN) /\ Len(<< >>) = 0
      BY EmptySeq
    <3> DEFINE W == Words(<< >>, l)
    <3>4. IsFiniteSet(W) /\ Cardinality(W) = 2^l
      <4>1. 0 <= l /\ l - 0 = l
        BY <2>1
      <4>2. IsFiniteSet(W) /\ Cardinality(W) = 2^(l - Len(<< >>))
        BY <2>1, <3>3, <4>1, WordCount
      <4> QED
        BY <3>3, <4>1, <4>2
    <3>5. Begun(i) \in SUBSET W
      BY <3>3 DEF Words
    <3> HIDE DEF W, Begun
    <3>6. Cardinality(Begun(i)) <= Cardinality(W)
      BY <3>4, <3>5, FS_Subset
    <3> QED
      BY <3>2, <3>4, <3>6
  <2>10. Fit(lengths)
    <3>1. Cardinality(DOMAIN lengths) = n
      BY <1>2 DEF n
    <3>2. \A i \in 1 .. Cardinality(DOMAIN lengths) :
             Total(lengths, code_lengths(lengths),
                   CodeValues(lengths, code_lengths(lengths)), l, i) <= 2^l
      BY <2>9, <3>1 DEF o, v
    <3> QED
      BY <1>2, <2>1, <2>3, <3>2, FitFromTotal
  <2> QED
    BY <1>2, <2>10 DEF lengths
<1> QED
  BY <1>6, <1>7

\* A power of two is greater than its exponent.
LEMMA PowerExceeds ==
    \A n \in Nat : n <= 2^n
<1> DEFINE P == {n \in Nat : n <= 2^n}
<1>1. 0 \in P
  BY PowerFacts
<1>2. ASSUME NEW n \in Nat, n \in P PROVE n + 1 \in P
  <2> DEFINE a == 2^n
  <2>1. a \in Nat /\ a >= 1 /\ 2^(n + 1) = 2 * a /\ n <= a
    BY <1>2, PowerFacts
  <2> HIDE DEF a
  <2>2. n + 1 <= 2 * a
    BY <2>1
  <2>3. n + 1 <= 2^(n + 1)
    BY <2>1, <2>2
  <2> QED
    BY <2>3
<1> HIDE DEF P
<1>3. \A n \in Nat : n \in P
  BY <1>1, <1>2, NatInduct
<1> QED
  BY <1>3 DEF P

\* generate_shannon_codes: the length it computes is that of a probability no
\* greater than the symbol's.
LEMMA ShannonLengthFacts ==
    ASSUME NEW s, counts[s] \in Nat, counts[s] >= 1, NEW total \in Nat, total >= 1
    PROVE  /\ ShannonLength(s, total) \in Nat
           /\ ShannonLength(s, total) >= 1
           /\ ShannonLength(s, total) <= total
           /\ total <= counts[s] * 2^ShannonLength(s, total)
<1> DEFINE c == counts[s]
           M == {n \in 0 .. total : c * 2^n >= total}
           m == Min(M)
           len == ShannonLength(s, total)
<1>1. ASSUME NEW n \in Nat PROVE c * 2^n \in Nat /\ 2^n \in Nat /\ 2^n >= 1
  <2> DEFINE a == 2^n
  <2>1. a \in Nat /\ a >= 1
    BY PowerFacts
  <2> HIDE DEF a
  <2>2. c * a \in Nat
    BY <2>1
  <2> QED
    BY <2>1, <2>2 DEF a
<1>2. total \in M
  <2> DEFINE a == 2^total
  <2>1. a \in Nat /\ total <= a
    BY PowerFacts, PowerExceeds
  <2> HIDE DEF a
  <2>2. 1 * a <= c * a
    BY <2>1, ProductMonotone
  <2>3. c * a >= total
    BY <2>1, <2>2
  <2> QED
    BY <2>3 DEF a
<1>3. m \in M
  <2>1. M \in SUBSET Nat
    OBVIOUS
  <2> HIDE DEF M
  <2>2. M # {}
    BY <1>2
  <2> QED
    BY <2>1, <2>2, MinFacts
<1>4. m \in Nat /\ m <= total /\ c * 2^m >= total
  BY <1>3
<1>5. len = Max({1, m})
  BY DEF ShannonLength
<1> HIDE DEF M, m, len, c
<1>6. len = IF 1 >= m THEN 1 ELSE m
  BY <1>4, <1>5, MaxOfTwo
<1>7. len \in Nat /\ len >= 1 /\ len <= total
  BY <1>4, <1>6
<1>8. total <= c * 2^len
  <2>1. CASE m >= 1
    <3>1. len = m
      BY <1>4, <1>6, <2>1
    <3>2. c * 2^m \in Nat
      BY <1>1, <1>4
    <3>3. total <= c * 2^m
      BY <1>4, <3>2
    <3> QED
      BY <3>1, <3>3
  <2>2. CASE m = 0
    <3>1. 2^0 = 1 /\ 2^1 \in Nat /\ 2^1 >= 1
      BY PowerFacts
    <3> DEFINE a == 2^1
    <3>2. len = 1 /\ c * 1 >= total /\ a \in Nat /\ a >= 1 /\ c \in Nat
      BY <1>4, <1>6, <2>2, <3>1 DEF c
    <3> HIDE DEF a
    <3>3. 1 * c <= a * c
      BY <3>2, ProductMonotone
    <3>4. total <= c * a
      BY <3>2, <3>3
    <3> QED
      BY <3>2, <3>4 DEF a
  <2> QED
    BY <1>4, <2>1, <2>2
<1> QED
  BY <1>7, <1>8 DEF c, len

\* The lengths of the Shannon codes fit: a symbol takes no larger a share of the
\* words than of the samples.
LEMMA ShannonFit ==
    ASSUME IsFiniteSet(DOMAIN counts), DOMAIN counts \subseteq Nat, DOMAIN counts # {},
           \A s \in DOMAIN counts : counts[s] \in Nat /\ counts[s] >= 1
    PROVE  LET lengths == [s \in DOMAIN counts |->
                              ShannonLength(s, Weight(DOMAIN counts))]
           IN  /\ AreLengths(lengths) /\ Fit(lengths)
               /\ \A s \in DOMAIN counts : lengths[s] >= 1
<1> DEFINE D == DOMAIN counts
           total == Weight(D)
           lengths == [s \in D |-> ShannonLength(s, total)]
           o == code_lengths(lengths)
           v == CodeValues(lengths, o)
           n == Cardinality(D)
           l == total
           First(i) == {o[j] : j \in 1 .. i}
<1>1. IsSum(counts, D)
  BY SumLaws
<1>2. total \in Nat /\ \A T \in SUBSET D : Weight(T) \in Nat /\ Weight(T) <= total
  <2>1. \A T \in SUBSET D : Weight(T) \in Nat
    BY <1>1, Zenon DEF IsSum, Weight
  <2>2. \A T \in SUBSET D : Weight(T) <= total
    BY SumBounds DEF Weight
  <2> QED
    BY <2>1, <2>2
<1>3. total >= 1
  <2>1. PICK s \in D : TRUE
    OBVIOUS
  <2>2. counts[s] <= total
    BY SumBounds DEF Weight
  <2> QED
    BY <1>2, <2>1, <2>2
<1>4. \A x \in D, T \in SUBSET D : x \notin T => Weight(T \cup {x}) = Weight(T) + counts[x]
  BY <1>1, Zenon DEF IsSum, Weight
<1>5. Weight({}) = 0
  BY <1>1, Zenon DEF IsSum, Weight
<1> HIDE DEF total
<1>6. \A s \in D : /\ lengths[s] \in Nat /\ lengths[s] >= 1 /\ lengths[s] <= total
                   /\ total <= counts[s] * 2^lengths[s]
  BY <1>2, <1>3, ShannonLengthFacts
<1>7. AreLengths(lengths) /\ DOMAIN lengths = D
  BY <1>6 DEF AreLengths
<1>8. /\ Growing(lengths, o, n) /\ Counted(lengths, o, v, n)
      /\ n \in Nat
      /\ o \in [1 .. n -> D]
      /\ \A i, j \in 1 .. n : i # j => o[i] # o[j]
  <2> HIDE DEF lengths
  <2> QED
    BY <1>7, LoopFacts, SortFacts
<1> HIDE DEF lengths, o, v, n
<1>9. \A k \in 1 .. n : lengths[o[k]] <= l
  BY <1>6, <1>8
<1>10. ASSUME NEW i \in 1 .. n PROVE AddsWords(lengths, o, v, l, i)
  BY <1>2, <1>8, <1>9, TotalFacts
<1> DEFINE e == 2^l
           T(i) == Total(lengths, o, v, l, i)
           P == {i \in Nat : i \in 1 .. n => T(i) * total <= e * Weight(First(i))}
<1>11. e \in Nat /\ e >= 1
  BY <1>2, PowerFacts
<1>12. ASSUME NEW k \in 1 .. n
       PROVE  /\ 2^(l - lengths[o[k]]) \in Nat
              /\ 2^(l - lengths[o[k]]) * total <= e * counts[o[k]]
  <2> DEFINE a == lengths[o[k]]
             c == counts[o[k]]
             x == 2^(l - a)
             y == 2^a
  <2>1. a \in Nat /\ a <= l /\ c \in Nat /\ total <= c * y /\ l - a \in Nat
    BY <1>2, <1>6, <1>8
  <2>2. l = a + (l - a)
    BY <1>2, <2>1
  <2> HIDE DEF a, c
  <2>3. e = y * x /\ x \in Nat /\ y \in Nat
    <3> DEFINE b == l - a
    <3>1. b \in Nat /\ l = a + b
      BY <2>1, <2>2
    <3> HIDE DEF b, l
    <3>2. 2^(a + b) = 2^a * 2^b /\ 2^a \in Nat /\ 2^b \in Nat
      BY <2>1, <3>1, PowerAdd, PowerFacts
    <3>3. e = 2^a * 2^b
      BY <3>1, <3>2
    <3> QED
      BY <3>2, <3>3 DEF b
  <2> HIDE DEF x, y, e
  <2>4. c * y \in Nat
    BY <2>1, <2>3
  <2>5. total * x <= (c * y) * x
    BY <1>2, <2>1, <2>3, <2>4, ProductMonotone
  <2>6. (c * y) * x = (y * x) * c
    BY <2>1, <2>3
  <2>7. x * total = total * x
    BY <1>2, <2>3
  <2>8. x * total <= e * c
    BY <2>3, <2>5, <2>6, <2>7
  <2> QED
    BY <2>3, <2>8 DEF x, a, c
<1>13. \A i \in 0 .. n : First(i) \in SUBSET D
  BY <1>8
<1>14. 0 \in P
  OBVIOUS
<1>15. ASSUME NEW i \in Nat, i \in P PROVE i + 1 \in P
  <2> SUFFICES ASSUME i + 1 \in 1 .. n
               PROVE  T(i + 1) * total <= e * Weight(First(i + 1))
    OBVIOUS
  <2> DEFINE k == i + 1
             x == 2^(l - lengths[o[k]])
             c == counts[o[k]]
             w == Weight(First(i))
  <2>1. k \in 1 .. n /\ i \in 0 .. n /\ 1 .. k = (1 .. i) \cup {k} /\ k \notin 1 .. i
    BY <1>8
  <2>2. First(k) = First(i) \cup {o[k]} /\ o[k] \notin First(i) /\ o[k] \in D
    <3>1. \A j \in 1 .. i : j \in 1 .. n /\ j # k
      BY <1>8
    <3> HIDE DEF k
    <3> QED
      BY <1>8, <2>1, <3>1
  <2>3. Weight(First(k)) = w + c /\ w \in Nat /\ c \in Nat
    <3> HIDE DEF First, k
    <3> QED
      BY <1>2, <1>4, <1>13, <2>1, <2>2
  <2>4. AddsWords(lengths, o, v, l, k) /\ x \in Nat /\ x * total <= e * c
    <3> HIDE DEF k
    <3> QED
      BY <1>10, <1>12, <2>1
  <2>5. CASE i = 0
    <3>1. T(k) = x
      <4>1. k = 1
        BY <2>5
      <4> HIDE DEF k
      <4> QED
        BY <2>4, <4>1, Zenon DEF AddsWords
    <3>2. First(0) = {}
      OBVIOUS
    <3>3. w = 0
      BY <1>5, <2>5, <3>2
    <3> HIDE DEF x, c, w, T, First, k, e
    <3>4. Weight(First(k)) = c
      BY <2>3, <3>3
    <3> QED
      BY <2>4, <3>1, <3>4 DEF k
  <2>6. CASE i # 0
    <3>1. i \in 1 .. n /\ k # 1 /\ k - 1 = i
      BY <1>8, <2>1, <2>6
    <3>2. T(i) * total <= e * w
      BY <1>15, <3>1
    <3>3. T(k) = T(i) + x
      BY <2>4, <3>1 DEF AddsWords
    <3>4. T(i) \in Nat
      BY <1>10, <3>1, Zenon DEF AddsWords
    <3> HIDE DEF x, c, w, T, First, k, e
    <3>5. (T(i) + x) * total = T(i) * total + x * total
      BY <1>2, <2>4, <3>4
    <3>6. e * (w + c) = e * w + e * c
      BY <1>11, <2>3
    <3>7. /\ T(i) * total \in Nat /\ x * total \in Nat
          /\ e * w \in Nat /\ e * c \in Nat
      BY <1>2, <1>11, <2>3, <2>4, <3>4
    <3>8. T(i) * total + x * total <= e * w + e * c
      BY <2>4, <3>2, <3>7
    <3>9. T(k) * total <= e * Weight(First(k))
      BY <2>3, <3>3, <3>5, <3>6, <3>8
    <3> QED
      BY <3>9 DEF k
  <2> QED
    BY <2>5, <2>6
<1> HIDE DEF P
<1>16. \A i \in Nat : i \in P
  BY <1>14, <1>15, NatInduct
<1>17. ASSUME NEW i \in 1 .. n PROVE T(i) <= e
  <2> DEFINE w == Weight(First(i))
  <2>1. T(i) * total <= e * w
    <3>1. i \in Nat
      BY <1>8
    <3>2. i \in P
      BY <1>16, <3>1
    <3> HIDE DEF T, e, First
    <3> QED
      BY <3>2 DEF P
  <2>2. T(i) \in Nat
    BY <1>10, Zenon DEF AddsWords
  <2>3. i \in 0 .. n
    BY <1>8
  <2>4. w \in Nat /\ w <= total
    <3> HIDE DEF First
    <3> QED
      BY <1>2, <1>13, <2>3
  <2> HIDE DEF w, T, e
  <2>5. w * e <= total * e /\ w * e \in Nat /\ total * e \in Nat
    BY <1>2, <1>11, <2>4, ProductMonotone
  <2>6. e * w = w * e /\ e * total = total * e /\ T(i) * total \in Nat
    BY <1>2, <1>11, <2>2, <2>4
  <2>7. T(i) * total <= e * total
    BY <2>1, <2>5, <2>6
  <2> QED
    BY <1>2, <1>3, <1>11, <2>2, <2>7, ProductCancel
<1>18. Fit(lengths)
  <2>1. Cardinality(DOMAIN lengths) = n
    BY <1>7 DEF n
  <2>2. \A i \in 1 .. Cardinality(DOMAIN lengths) :
           Total(lengths, code_lengths(lengths),
                 CodeValues(lengths, code_lengths(lengths)), l, i) <= 2^l
    BY <1>17, <2>1 DEF o, v
  <2>3. \A s \in DOMAIN lengths : lengths[s] <= l
    BY <1>6, <1>7
  <2> QED
    BY <1>2, <1>7, <2>2, <2>3, FitFromTotal
<1> QED
  BY <1>6, <1>7, <1>18 DEF lengths, total

-----------------------------------------------------------------------------
(* Codes of subtrees. *)

\* The code d goes on where c ends.
Extends(c, d) == /\ Len(c) <= Len(d)
                 /\ \A i \in 1 .. Len(c) : d[i] = c[i]

\* Being apart goes both ways.
LEMMA ApartBothWays ==
    ASSUME NEW c, NEW d, Apart(c, d)
    PROVE  Apart(d, c)
<1>1. PICK i \in Nat : i \in 1 .. Len(c) /\ i \in 1 .. Len(d) /\ c[i] # d[i]
  BY DEF Apart
<1> QED
  BY <1>1 DEF Apart

\* Codes stay apart when they go on.
LEMMA ExtendApart ==
    ASSUME NEW c \in Seq(BOOLEAN), NEW d \in Seq(BOOLEAN),
           NEW e \in Seq(BOOLEAN), Extends(c, d), Apart(c, e)
    PROVE  Apart(d, e) /\ Apart(e, d)
<1>1. Len(c) \in Nat /\ Len(d) \in Nat
  BY LenProperties
<1>2. PICK i \in Nat : i \in 1 .. Len(c) /\ i \in 1 .. Len(e) /\ c[i] # e[i]
  BY DEF Apart
<1>3. i \in 1 .. Len(d) /\ d[i] # e[i]
  BY <1>1, <1>2 DEF Extends
<1>4. Apart(d, e)
  BY <1>2, <1>3 DEF Apart
<1> QED
  BY <1>4, ApartBothWays

\* The codes of the two subtrees of a node.
LEMMA Siblings ==
    ASSUME NEW c \in Seq(BOOLEAN)
    PROVE  /\ \A b \in BOOLEAN : Append(c, b) \in Seq(BOOLEAN) /\ Extends(c, Append(c, b))
           /\ \A a, b \in BOOLEAN : a # b => Apart(Append(c, a), Append(c, b))
<1>0. Len(c) \in Nat
  BY LenProperties
<1>1. ASSUME NEW b \in BOOLEAN
      PROVE  /\ Append(c, b) \in Seq(BOOLEAN)
             /\ Len(Append(c, b)) = Len(c) + 1
             /\ \A i \in 1 .. Len(c) : Append(c, b)[i] = c[i]
             /\ Append(c, b)[Len(c) + 1] = b
  BY AppendProperties
<1>2. ASSUME NEW b \in BOOLEAN PROVE Extends(c, Append(c, b))
  BY <1>0, <1>1 DEF Extends
<1>3. ASSUME NEW a \in BOOLEAN, NEW b \in BOOLEAN, a # b
      PROVE  Apart(Append(c, a), Append(c, b))
  <2> DEFINE n == Len(c) + 1
  <2>1. n \in Nat /\ n \in 1 .. n
    BY <1>0
  <2>2. Len(Append(c, a)) = n /\ Len(Append(c, b)) = n
    BY <1>1
  <2>3. Append(c, a)[n] # Append(c, b)[n]
    BY <1>1, <1>3
  <2> HIDE DEF n
  <2> QED
    BY <2>1, <2>2, <2>3 DEF Apart
<1> QED
  BY <1>1, <1>2, <1>3

\* The codes under a node begin with the bit of its branch.
LEMMA PrefixedCodes ==
    ASSUME NEW codes, NEW b \in BOOLEAN,
           \A s \in DOMAIN codes : codes[s] \in Seq(BOOLEAN), AllApart(codes)
    PROVE  /\ DOMAIN Prefixed(b, codes) = DOMAIN codes
           /\ \A s \in DOMAIN codes : /\ Prefixed(b, codes)[s] \in Seq(BOOLEAN)
                                      /\ 1 \in 1 .. Len(Prefixed(b, codes)[s])
                                      /\ Prefixed(b, codes)[s][1] = b
           /\ AllApart(Prefixed(b, codes))
<1> DEFINE f == Prefixed(b, codes)
<1>1. DOMAIN f = DOMAIN codes /\ \A s \in DOMAIN codes : f[s] = <<b>> \o codes[s]
  BY DEF Prefixed
<1>2. <<b>> \in Seq(BOOLEAN) /\ Len(<<b>>) = 1 /\ <<b>>[1] = b
  OBVIOUS
<1> HIDE DEF f
<1>3. ASSUME NEW s \in DOMAIN codes
      PROVE  /\ Len(codes[s]) \in Nat
             /\ f[s] \in Seq(BOOLEAN)
             /\ Len(f[s]) = 1 + Len(codes[s])
             /\ f[s][1] = b
             /\ \A i \in 1 .. Len(codes[s]) : f[s][i + 1] = codes[s][i]
  <2> DEFINE d == codes[s]
  <2>1. d \in Seq(BOOLEAN) /\ Len(d) \in Nat
    BY LenProperties
  <2> HIDE DEF d
  <2>2. /\ <<b>> \o d \in Seq(BOOLEAN)
        /\ Len(<<b>> \o d) = 1 + Len(d)
        /\ \A i \in 1 .. 1 + Len(d) :
              (<<b>> \o d)[i] = IF i <= 1 THEN <<b>>[i] ELSE d[i - 1]
    BY <1>2, <2>1, ConcatProperties
  <2>3. f[s] = <<b>> \o d
    BY <1>1 DEF d
  <2>4. f[s][1] = b
    BY <1>2, <2>1, <2>2, <2>3
  <2>5. ASSUME NEW i \in 1 .. Len(d) PROVE f[s][i + 1] = d[i]
    <3>1. i + 1 \in 1 .. 1 + Len(d) /\ ~(i + 1 <= 1) /\ (i + 1) - 1 = i
      BY <2>1
    <3> QED
      BY <2>2, <2>3, <3>1
  <2> QED
    BY <2>1, <2>2, <2>3, <2>4, <2>5 DEF d
<1>4. ASSUME NEW s \in DOMAIN codes, NEW t \in DOMAIN codes, s # t
      PROVE  Apart(f[s], f[t])
  <2>1. PICK i \in Nat : /\ i \in 1 .. Len(codes[s]) /\ i \in 1 .. Len(codes[t])
                         /\ codes[s][i] # codes[t][i]
    BY <1>4 DEF AllApart, Apart
  <2> DEFINE k == i + 1
  <2>2. k \in Nat /\ k \in 1 .. Len(f[s]) /\ k \in 1 .. Len(f[t])
    BY <1>3, <2>1
  <2>3. f[s][k] # f[t][k]
    BY <1>3, <2>1
  <2> HIDE DEF k
  <2> QED
    BY <2>2, <2>3 DEF Apart
<1>5. \A s \in DOMAIN codes : 1 \in 1 .. Len(f[s])
  BY <1>3
<1>6. AllApart(f)
  BY <1>1, <1>4 DEF AllApart
<1> QED
  BY <1>1, <1>3, <1>5, <1>6 DEF f

\* The codes under two nodes with one parent.
LEMMA MergedCodes ==
    ASSUME NEW left, NEW right,
           \A s \in DOMAIN left : left[s] \in Seq(BOOLEAN), AllApart(left),
           \A s \in DOMAIN right : right[s] \in Seq(BOOLEAN), AllApart(right)
    PROVE  LET codes == Merge(Prefixed(FALSE, left), Prefixed(TRUE, right))
           IN  /\ DOMAIN codes = DOMAIN left \cup DOMAIN right
               /\ \A s \in DOMAIN codes : codes[s] \in Seq(BOOLEAN)
               /\ AllApart(codes)
<1> DEFINE f == Prefixed(FALSE, left)
           g == Prefixed(TRUE, right)
           codes == Merge(f, g)
<1>1. /\ DOMAIN f = DOMAIN left
      /\ \A s \in DOMAIN f : /\ f[s] \in Seq(BOOLEAN)
                             /\ 1 \in 1 .. Len(f[s]) /\ f[s][1] = FALSE
      /\ AllApart(f)
  BY PrefixedCodes
<1>2. /\ DOMAIN g = DOMAIN right
      /\ \A s \in DOMAIN g : /\ g[s] \in Seq(BOOLEAN)
                             /\ 1 \in 1 .. Len(g[s]) /\ g[s][1] = TRUE
      /\ AllApart(g)
  BY PrefixedCodes
<1> HIDE DEF f, g
<1>3. /\ DOMAIN codes = DOMAIN f \cup DOMAIN g
      /\ \A s \in DOMAIN f : codes[s] = f[s]
      /\ \A s \in DOMAIN g \ DOMAIN f : codes[s] = g[s]
  BY DEF Merge
<1> HIDE DEF codes
<1>4. ASSUME NEW s \in DOMAIN f, NEW t \in DOMAIN g PROVE Apart(f[s], g[t])
  BY <1>1, <1>2 DEF Apart
<1>5. ASSUME NEW s \in DOMAIN codes, NEW t \in DOMAIN codes, s # t
      PROVE  Apart(codes[s], codes[t])
  <2>1. CASE s \in DOMAIN f /\ t \in DOMAIN f
    BY <1>1, <1>3, <1>5, <2>1 DEF AllApart
  <2>2. CASE s \notin DOMAIN f /\ t \notin DOMAIN f
    BY <1>2, <1>3, <1>5, <2>2 DEF AllApart
  <2>3. CASE s \in DOMAIN f /\ t \notin DOMAIN f
    BY <1>3, <1>4, <2>3
  <2>4. CASE s \notin DOMAIN f /\ t \in DOMAIN f
    BY <1>3, <1>4, <2>4, ApartBothWays
  <2> QED
    BY <2>1, <2>2, <2>3, <2>4
<1>6. AllApart(codes)
  BY <1>5 DEF AllApart
<1> QED
  BY <1>1, <1>2, <1>3, <1>6 DEF codes, f, g

\* x is the greatest length of the codes.
IsLongest(x, codes) ==
    /\ x \in Nat
    /\ \A s \in DOMAIN codes : Len(codes[s]) <= x
    /\ x = 0 \/ \E s \in DOMAIN codes : Len(codes[s]) = x

\* m_max_code_length: there is a greatest length, and only one.
LEMMA LongestFacts ==
    ASSUME NEW codes, IsFiniteSet(DOMAIN codes),
           \A s \in DOMAIN codes : codes[s] \in Seq(BOOLEAN)
    PROVE  \A x : IsLongest(x, codes) <=> x = Longest(codes)
<1> DEFINE D == DOMAIN codes
           T == {Len(codes[s]) : s \in D}
           S == {0} \cup T
<1>1. \A s \in D : Len(codes[s]) \in Nat
  BY LenProperties
<1>2. IsFiniteSet(T)
  <2> DEFINE f == [s \in D |-> Len(codes[s])]
  <2>1. f \in [D -> T] /\ \A t \in T : \E s \in D : f[s] = t
    OBVIOUS
  <2> HIDE DEF f, T
  <2> QED
    BY <2>1, FiniteImage
<1>3. IsFiniteSet(S) /\ S \in SUBSET Nat /\ S # {}
  <2>1. S = T \cup {0} /\ S # {}
    OBVIOUS
  <2>2. S \in SUBSET Nat
    BY <1>1
  <2> HIDE DEF T, S
  <2>3. IsFiniteSet(T \cup {0})
    BY <1>2, FS_AddElement
  <2> QED
    BY <2>1, <2>2, <2>3
<1>4. Longest(codes) = Max(S)
  BY DEF Longest
<1>5. /\ Max(S) \in S
      /\ \A y \in S : y <= Max(S)
      /\ \A x \in S : (\A y \in S : y <= x) => x = Max(S)
  <2> HIDE DEF S
  <2> QED
    BY <1>3, MaxFacts
<1>6. 0 \in S /\ \A s \in D : Len(codes[s]) \in S
  OBVIOUS
<1>7. \A x \in S : x = 0 \/ \E s \in D : Len(codes[s]) = x
  OBVIOUS
<1>8. IsLongest(Longest(codes), codes)
  <2> HIDE DEF S
  <2> QED
    BY <1>3, <1>4, <1>5, <1>6, <1>7 DEF IsLongest
<1>9. ASSUME NEW x, IsLongest(x, codes) PROVE x = Longest(codes)
  <2>1. x \in S /\ \A y \in S : y <= x
    BY <1>1, <1>9 DEF IsLongest
  <2> HIDE DEF S
  <2> QED
    BY <1>4, <1>5, <2>1
<1> QED
  BY <1>8, <1>9

\* Adding the codes of a call to those there are.
LEMMA AddedCodes ==
    ASSUME NEW f, NEW g, IsFiniteSet(DOMAIN f), IsFiniteSet(DOMAIN g),
           \A s \in DOMAIN f : f[s] \in Seq(BOOLEAN), AllApart(f),
           \A s \in DOMAIN g : g[s] \in Seq(BOOLEAN), AllApart(g),
           DOMAIN f \cap DOMAIN g = {},
           \A s \in DOMAIN f, t \in DOMAIN g : Apart(f[s], g[t])
    PROVE  /\ DOMAIN Merge(f, g) = DOMAIN f \cup DOMAIN g
           /\ \A s \in DOMAIN Merge(f, g) : Merge(f, g)[s] \in Seq(BOOLEAN)
           /\ AllApart(Merge(f, g))
           /\ Longest(Merge(f, g)) = Max({Longest(g), Longest(f)})
<1> DEFINE h == Merge(f, g)
<1>1. /\ DOMAIN h = DOMAIN f \cup DOMAIN g
      /\ \A s \in DOMAIN f : h[s] = f[s]
      /\ \A s \in DOMAIN g : h[s] = g[s]
  BY DEF Merge
<1> HIDE DEF h
<1>2. \A s \in DOMAIN h : h[s] \in Seq(BOOLEAN)
  BY <1>1
<1>3. ASSUME NEW s \in DOMAIN h, NEW t \in DOMAIN h, s # t PROVE Apart(h[s], h[t])
  <2>1. CASE s \in DOMAIN f /\ t \in DOMAIN f
    BY <1>1, <1>3, <2>1 DEF AllApart
  <2>2. CASE s \in DOMAIN g /\ t \in DOMAIN g
    BY <1>1, <1>3, <2>2 DEF AllApart
  <2>3. CASE s \in DOMAIN f /\ t \in DOMAIN g
    BY <1>1, <2>3
  <2>4. CASE s \in DOMAIN g /\ t \in DOMAIN f
    BY <1>1, <2>4, ApartBothWays
  <2> QED
    BY <1>1, <2>1, <2>2, <2>3, <2>4
<1>4. IsFiniteSet(DOMAIN h)
  BY <1>1, FS_Union
<1> DEFINE a == Longest(f)
           b == Longest(g)
           x == Max({b, a})
<1>5. IsLongest(a, f) /\ IsLongest(b, g)
  BY LongestFacts
<1> HIDE DEF a, b
<1>6. a \in Nat /\ b \in Nat
  BY <1>5 DEF IsLongest
<1>7. x = IF b >= a THEN b ELSE a
  BY <1>6, MaxOfTwo
<1>8. \A s \in DOMAIN h : Len(h[s]) \in Nat
  BY <1>2, LenProperties
<1> HIDE DEF x
<1>9. IsLongest(x, h)
  <2>1. x \in Nat /\ a <= x /\ b <= x /\ x \in {a, b}
    BY <1>6, <1>7
  <2>2. ASSUME NEW s \in DOMAIN h PROVE Len(h[s]) <= x
    <3>1. Len(h[s]) <= a \/ Len(h[s]) <= b
      BY <1>1, <1>5 DEF IsLongest
    <3> QED
      BY <1>6, <1>8, <2>1, <3>1
  <2>3. x = 0 \/ \E s \in DOMAIN h : Len(h[s]) = x
    BY <1>1, <1>5, <2>1 DEF IsLongest
  <2> QED
    BY <2>1, <2>2, <2>3 DEF IsLongest
<1>10. x = Longest(h)
  BY <1>2, <1>4, <1>9, LongestFacts
<1>11. AllApart(h)
  BY <1>3 DEF AllApart
<1> QED
  BY <1>1, <1>2, <1>10, <1>11 DEF h, x, a, b

\* shannon_fano_encode: neither group is empty.
LEMMA SplitFacts ==
    ASSUME NEW symbols \in Seq(Symbol), Len(symbols) > 2
    PROVE  /\ SplitPoint(symbols) \in Nat
           /\ SplitPoint(symbols) >= 1
           /\ SplitPoint(symbols) < Len(symbols)
<1> DEFINE n == Len(symbols)
           J == {j \in 1 .. n : \A i \in 1 .. j :
                    Imbalance(symbols, i) <= Imbalance(symbols, i - 1)}
           S == {1} \cup J
           k == Max(S)
<1>1. n \in Nat
  BY LenProperties
<1>2. SplitPoint(symbols) = IF k = n THEN 1 + (n - 1) \div 2 ELSE k
  BY DEF SplitPoint
<1>3. S \subseteq 1 .. n /\ S # {}
  BY <1>1
<1> HIDE DEF S
<1>4. IsFiniteSet(S)
  <2>1. IsFiniteSet(1 .. n)
    BY <1>1, FS_Interval
  <2> QED
    BY <1>3, <2>1, FS_Subset
<1>5. k \in S
  BY <1>1, <1>3, <1>4, MaxFacts
<1> HIDE DEF k, n
<1> QED
  BY <1>1, <1>2, <1>3, <1>5 DEF n

\* The two groups share the symbols of the call out.
LEMMA Groups ==
    ASSUME NEW s \in Seq(Symbol), Once(s, Symbol), NEW k \in Nat, k >= 1, k < Len(s)
    PROVE  LET a == SubSeq(s, 1, k)
               b == SubSeq(s, k + 1, Len(s))
           IN  /\ a \in Seq(Symbol) /\ Len(a) >= 1 /\ Once(a, Symbol)
               /\ b \in Seq(Symbol) /\ Len(b) >= 1 /\ Once(b, Symbol)
               /\ ToSet(a) \cap ToSet(b) = {}
               /\ ToSet(s) = ToSet(a) \cup ToSet(b)
               /\ ToSet(a) # {} /\ ToSet(b) # {}
<1> DEFINE n == Len(s)
           m == k + 1
           a == SubSeq(s, 1, k)
           b == SubSeq(s, m, n)
<1>1. /\ n \in Nat /\ DOMAIN s = 1 .. n /\ k < n /\ m \in Nat /\ m <= n
      /\ \A i \in 1 .. n : s[i] \in Symbol
  BY LenProperties, ElementOfSeq
<1>2. \A i, j \in 1 .. n : i # j => s[i] # s[j]
  BY <1>1 DEF Once
<1>3. /\ a \in Seq(Symbol) /\ Len(a) = k
      /\ \A i \in 1 .. k : a[i] = s[i]
  <2>1. \A i \in 1 .. k : s[i] \in Symbol
    BY <1>1
  <2>2. /\ a \in Seq(Symbol) /\ Len(a) = IF 1 <= k THEN k - 1 + 1 ELSE 0
        /\ \A i \in 1 .. k - 1 + 1 : a[i] = s[1 + i - 1]
    BY <2>1, SubSeqProperties
  <2> HIDE DEF a
  <2> QED
    BY <2>2
<1>4. /\ b \in Seq(Symbol) /\ Len(b) = n - k
      /\ \A i \in 1 .. n - k : b[i] = s[k + i]
  <2>1. \A i \in m .. n : s[i] \in Symbol
    BY <1>1
  <2>2. /\ b \in Seq(Symbol) /\ Len(b) = IF m <= n THEN n - m + 1 ELSE 0
        /\ \A i \in 1 .. n - m + 1 : b[i] = s[m + i - 1]
    <3> HIDE DEF m, n
    <3> QED
      BY <1>1, <2>1, SubSeqProperties
  <2>3. n - m + 1 = n - k /\ \A i \in 1 .. n - k : m + i - 1 = k + i
    BY <1>1
  <2> HIDE DEF b
  <2> QED
    BY <1>1, <2>2, <2>3
<1> HIDE DEF a, b
<1>5. DOMAIN a = 1 .. k /\ DOMAIN b = 1 .. n - k
  BY <1>3, <1>4, LenProperties
<1>6. \A x : x \in ToSet(a) <=> \E i \in 1 .. k : x = s[i]
  BY <1>3, <1>5 DEF ToSet
<1>7. \A x : x \in ToSet(b) <=> \E i \in m .. n : x = s[i]
  <2>1. ASSUME NEW x, x \in ToSet(b) PROVE \E i \in m .. n : x = s[i]
    <3>1. PICK i \in 1 .. n - k : x = b[i]
      BY <1>5, <2>1 DEF ToSet
    <3>2. k + i \in m .. n /\ x = s[k + i]
      BY <1>1, <1>4, <3>1
    <3> QED
      BY <3>2
  <2>2. ASSUME NEW x, NEW i \in m .. n, x = s[i] PROVE x \in ToSet(b)
    <3>1. i - k \in 1 .. n - k /\ k + (i - k) = i
      BY <1>1
    <3>2. b[i - k] = s[i]
      BY <1>4, <3>1
    <3> QED
      BY <1>5, <2>2, <3>1, <3>2 DEF ToSet
  <2> QED
    BY <2>1, <2>2
<1>8. \A x : x \in ToSet(s) <=> \E i \in 1 .. n : x = s[i]
  BY <1>1 DEF ToSet
<1>9. Once(a, Symbol)
  BY <1>1, <1>2, <1>3, <1>5 DEF Once
<1>10. Once(b, Symbol)
  <2> SUFFICES ASSUME NEW i \in 1 .. n - k, NEW j \in 1 .. n - k, b[i] = b[j] PROVE i = j
    BY <1>5 DEF Once
  <2>1. k + i \in 1 .. n /\ k + j \in 1 .. n
    BY <1>1
  <2>2. s[k + i] = s[k + j]
    BY <1>4
  <2>3. k + i = k + j
    BY <1>2, <2>1, <2>2
  <2> QED
    BY <1>1, <2>3
<1>11. ToSet(a) \cap ToSet(b) = {}
  <2> SUFFICES ASSUME NEW i \in 1 .. k, NEW j \in m .. n, s[i] = s[j] PROVE FALSE
    BY <1>6, <1>7
  <2>1. i \in 1 .. n /\ j \in 1 .. n /\ i # j
    BY <1>1
  <2> QED
    BY <1>2, <2>1
<1>12. ToSet(s) = ToSet(a) \cup ToSet(b)
  <2>1. \A i : i \in 1 .. n <=> i \in 1 .. k \/ i \in m .. n
    BY <1>1
  <2> HIDE DEF m, n
  <2> QED
    BY <1>6, <1>7, <1>8, <2>1
<1>13. Len(a) >= 1 /\ Len(b) >= 1
  BY <1>1, <1>3, <1>4
<1>14. ToSet(a) # {} /\ ToSet(b) # {}
  <2>1. 1 \in 1 .. k /\ n \in m .. n
    BY <1>1
  <2> QED
    BY <1>6, <1>7, <2>1
<1> QED
  BY <1>3, <1>4, <1>9, <1>10, <1>11, <1>12, <1>13, <1>14 DEF a, b

-----------------------------------------------------------------------------
(* The inductive invariant. *)

\* A codebook: codes of some symbols, of which any two differ in a bit both have.
IsCodebook(codes) == /\ DOMAIN codes \subseteq Symbol
                     /\ \A s \in DOMAIN codes : codes[s] \in Seq(BOOLEAN)
                     /\ AllApart(codes)

\* get_top_frequencies: the entries of the table have been sampled.
TableInv == /\ DOMAIN counts \subseteq Symbol
            /\ \A s \in DOMAIN counts : counts[s] \in Nat /\ counts[s] >= 1

\* The codes made so far, and m_max_code_length.
BookInv == IsCodebook(m_codes) /\ m_max_code_length = Longest(m_codes)

\* build_tree: the trees in the queue share the symbols of the table out.
TreesInv ==
    stage = "build_tree" =>
        /\ IsFiniteSet(pending)
        /\ \A n \in pending : IsCodebook(n) /\ DOMAIN n \subseteq DOMAIN counts
        /\ \A n, m \in pending : n # m => DOMAIN n \cap DOMAIN m = {}
        /\ \A s \in DOMAIN counts : \E n \in pending : s \in DOMAIN n

\* The calls of shannon_fano_encode: each is made on one symbol at least, and on
\* each of its symbols once.
Call == [symbols : Seq(Symbol), code : Seq(BOOLEAN)]

IsCall(call) == /\ call \in Call
                /\ Len(call.symbols) >= 1
                /\ Once(call.symbols, Symbol)

\* A code and the symbols of a subtree are apart from those of another.
CallsApart(c, d) == /\ ToSet(c.symbols) \cap ToSet(d.symbols) = {}
                    /\ Apart(c.code, d.code)

\* A call has neither a symbol that has its code nor the beginning of its code.
CallApartFrom(c, codes) ==
    /\ ToSet(c.symbols) \cap DOMAIN codes = {}
    /\ \A s \in DOMAIN codes : Apart(c.code, codes[s])

\* shannon_fano_encode: the symbols of the table have their codes or are those
\* of one call.
CallsInv ==
    stage = "encode" =>
        /\ calls \in Seq(Call)
        /\ Once(calls, Call)
        /\ \A c \in ToSet(calls) : /\ IsCall(c)
                                   /\ ToSet(c.symbols) \subseteq DOMAIN counts
                                   /\ CallApartFrom(c, m_codes)
        /\ \A c, d \in ToSet(calls) : c # d => CallsApart(c, d)
        /\ DOMAIN m_codes \subseteq DOMAIN counts
        /\ \A s \in DOMAIN counts :
              s \in DOMAIN m_codes \/ \E c \in ToSet(calls) : s \in ToSet(c.symbols)

\* Once the codes are complete, they are those of the symbols of the table.
CompleteInv ==
    stage \in {"canonical", "rebuilt"} => DOMAIN m_codes = DOMAIN counts

CodesInv == TableInv /\ BookInv /\ TreesInv /\ CallsInv /\ CompleteInv

\* The symbols of a codebook are numbers, and finitely many.
LEMMA BookFinite ==
    ASSUME NEW codes, DOMAIN codes \subseteq Symbol
    PROVE  IsFiniteSet(DOMAIN codes) /\ DOMAIN codes \subseteq Nat
BY BlockAssumption, FS_Subset

\* An empty codebook.
LEMMA NoCodesBook ==
    IsCodebook(NoCodes) /\ Longest(NoCodes) = 0
<1>1. DOMAIN NoCodes = {}
  BY DEF NoCodes
<1>2. IsCodebook(NoCodes)
  BY <1>1 DEF IsCodebook, AllApart
<1>3. IsFiniteSet(DOMAIN NoCodes)
  BY <1>1, FS_EmptySet
<1>4. IsLongest(0, NoCodes)
  BY <1>1 DEF IsLongest
<1> QED
  BY <1>1, <1>2, <1>3, <1>4, LongestFacts

\* Initially.
LEMMA CodesInit ==
    Init => CodesInv
<1> SUFFICES ASSUME Init PROVE CodesInv
  OBVIOUS
<1>1. PICK S \in SUBSET Symbol : counts \in [S -> 1 .. MaxCount]
  BY DEF Init
<1>2. TableInv
  BY <1>1, BlockAssumption DEF TableInv
<1>3. BookInv
  BY NoCodesBook DEF Init, BookInv
<1> QED
  BY <1>2, <1>3 DEF Init, CodesInv, TreesInv, CallsInv, CompleteInv

\* generate_huffman_codes: each leaf is a tree of one symbol.
LEMMA HuffmanStarts ==
    ASSUME CodesInv, generate_huffman_codes
    PROVE  CodesInv'
<1> DEFINE D == DOMAIN counts
           leaf(x) == [s \in {x} |-> << >>]
<1>1. TableInv' /\ CallsInv' /\ CompleteInv'
  BY DEF generate_huffman_codes, CodesInv, TableInv, CallsInv, CompleteInv
<1>2. BookInv'
  BY NoCodesBook DEF generate_huffman_codes, BookInv
<1>3. pending' = {leaf(x) : x \in D} /\ counts' = counts
  BY DEF generate_huffman_codes
<1>4. D \subseteq Symbol /\ IsFiniteSet(D)
  BY BookFinite DEF CodesInv, TableInv
<1>5. IsFiniteSet(pending')
  <2> DEFINE f == [x \in D |-> leaf(x)]
             T == {leaf(x) : x \in D}
  <2>1. f \in [D -> T] /\ \A t \in T : \E x \in D : f[x] = t
    OBVIOUS
  <2> HIDE DEF f, T
  <2>2. IsFiniteSet(T)
    BY <1>4, <2>1, FiniteImage
  <2> QED
    BY <1>3, <2>2 DEF T
<1>6. ASSUME NEW x \in D PROVE DOMAIN leaf(x) = {x} /\ IsCodebook(leaf(x))
  <2>1. << >> \in Seq(BOOLEAN)
    BY EmptySeq
  <2>2. DOMAIN leaf(x) = {x} /\ leaf(x)[x] = << >>
    OBVIOUS
  <2> HIDE DEF leaf
  <2> QED
    BY <1>4, <2>1, <2>2 DEF IsCodebook, AllApart
<1> HIDE DEF leaf
<1>7. \A n \in pending' : \E x \in D : n = leaf(x)
  BY <1>3
<1>8. \A n \in pending' : IsCodebook(n) /\ DOMAIN n \subseteq DOMAIN counts'
  BY <1>3, <1>6, <1>7
<1>9. \A n, m \in pending' : n # m => DOMAIN n \cap DOMAIN m = {}
  <2> SUFFICES ASSUME NEW n \in pending', NEW m \in pending', n # m
               PROVE  DOMAIN n \cap DOMAIN m = {}
    OBVIOUS
  <2>1. PICK x \in D : n = leaf(x)
    BY <1>7
  <2>2. PICK y \in D : m = leaf(y)
    BY <1>7
  <2>3. x # y
    BY <2>1, <2>2
  <2> QED
    BY <1>6, <2>1, <2>2, <2>3
<1>10. \A s \in DOMAIN counts' : \E n \in pending' : s \in DOMAIN n
  BY <1>3, <1>6
<1>11. TreesInv'
  BY <1>5, <1>8, <1>9, <1>10 DEF TreesInv
<1> QED
  BY <1>1, <1>2, <1>11 DEF CodesInv

\* One turn of the loop of build_tree.
LEMMA TreesMerge ==
    ASSUME CodesInv, MergeLightest
    PROVE  CodesInv'
<1>1. TableInv' /\ BookInv' /\ CallsInv' /\ CompleteInv'
  BY DEF MergeLightest, CodesInv, TableInv, BookInv, CallsInv, CompleteInv
<1>2. stage = "build_tree" /\ counts' = counts
  BY DEF MergeLightest
<1>3. /\ IsFiniteSet(pending)
      /\ \A n \in pending : IsCodebook(n) /\ DOMAIN n \subseteq DOMAIN counts
      /\ \A n, m \in pending : n # m => DOMAIN n \cap DOMAIN m = {}
      /\ \A s \in DOMAIN counts : \E n \in pending : s \in DOMAIN n
  BY <1>2 DEF CodesInv, TreesInv
<1>4. PICK left \in Lightest(pending) : \E right \in Lightest(pending \ {left}) :
           pending' = (pending \ {left, right})
                        \cup {Merge(Prefixed(FALSE, left), Prefixed(TRUE, right))}
  BY DEF MergeLightest
<1>5. PICK right \in Lightest(pending \ {left}) :
           pending' = (pending \ {left, right})
                        \cup {Merge(Prefixed(FALSE, left), Prefixed(TRUE, right))}
  BY <1>4
<1> DEFINE node == Merge(Prefixed(FALSE, left), Prefixed(TRUE, right))
<1>6. left \in pending /\ right \in pending /\ left # right
  BY <1>4, <1>5 DEF Lightest
<1>7. DOMAIN node = DOMAIN left \cup DOMAIN right /\ IsCodebook(node)
  <2>1. /\ \A s \in DOMAIN left : left[s] \in Seq(BOOLEAN)
        /\ AllApart(left) /\ DOMAIN left \subseteq Symbol
    BY <1>3, <1>6 DEF IsCodebook
  <2>2. /\ \A s \in DOMAIN right : right[s] \in Seq(BOOLEAN)
        /\ AllApart(right) /\ DOMAIN right \subseteq Symbol
    BY <1>3, <1>6 DEF IsCodebook
  <2>3. /\ DOMAIN node = DOMAIN left \cup DOMAIN right
        /\ \A s \in DOMAIN node : node[s] \in Seq(BOOLEAN)
        /\ AllApart(node)
    BY <2>1, <2>2, MergedCodes
  <2> HIDE DEF node
  <2> QED
    BY <2>1, <2>2, <2>3 DEF IsCodebook
<1> HIDE DEF node
<1>8. pending' = (pending \ {left, right}) \cup {node}
  BY <1>5 DEF node
<1>9. IsFiniteSet(pending')
  <2>1. IsFiniteSet(pending \ {left, right})
    BY <1>3, FS_Subset
  <2> QED
    BY <1>8, <2>1, FS_AddElement
<1>10. \A n \in pending' : IsCodebook(n) /\ DOMAIN n \subseteq DOMAIN counts'
  BY <1>2, <1>3, <1>6, <1>7, <1>8
<1>11. \A n, m \in pending' : n # m => DOMAIN n \cap DOMAIN m = {}
  <2>1. \A n \in pending \ {left, right} : DOMAIN n \cap DOMAIN node = {}
    BY <1>3, <1>6, <1>7
  <2> QED
    BY <1>3, <1>8, <2>1
<1>12. \A s \in DOMAIN counts' : \E n \in pending' : s \in DOMAIN n
  <2> SUFFICES ASSUME NEW s \in DOMAIN counts PROVE \E n \in pending' : s \in DOMAIN n
    BY <1>2
  <2>1. PICK n \in pending : s \in DOMAIN n
    BY <1>3
  <2>2. CASE n \in {left, right}
    BY <1>7, <1>8, <2>1, <2>2
  <2>3. CASE n \notin {left, right}
    BY <1>8, <2>1, <2>3
  <2> QED
    BY <2>2, <2>3
<1>13. TreesInv'
  BY <1>9, <1>10, <1>11, <1>12 DEF TreesInv
<1> QED
  BY <1>1, <1>13 DEF CodesInv

\* generate_codes_from_tree: the one tree left has all symbols.
LEMMA TreeFinishes ==
    ASSUME CodesInv, generate_codes_from_tree
    PROVE  CodesInv'
<1>1. TableInv' /\ CallsInv' /\ TreesInv'
  BY DEF generate_codes_from_tree, CodesInv, TableInv, CallsInv, TreesInv
<1>2. /\ stage = "build_tree" /\ counts' = counts /\ Cardinality(pending) = 1
      /\ m_codes' = TreeCodes /\ m_max_code_length' = Longest(TreeCodes)
  BY DEF generate_codes_from_tree
<1>3. /\ IsFiniteSet(pending)
      /\ \A n \in pending : IsCodebook(n) /\ DOMAIN n \subseteq DOMAIN counts
      /\ \A s \in DOMAIN counts : \E n \in pending : s \in DOMAIN n
  BY <1>2 DEF CodesInv, TreesInv
<1> DEFINE root == CHOOSE n \in pending : TRUE
<1>4. root \in pending /\ \A n \in pending : n = root
  BY <1>2, <1>3, FS_Singleton
<1>5. TreeCodes = IF Cardinality(DOMAIN counts) = 1 THEN Prefixed(FALSE, root) ELSE root
  BY DEF TreeCodes
<1> HIDE DEF root
<1>6. IsCodebook(root) /\ DOMAIN root = DOMAIN counts
  BY <1>3, <1>4
<1>7. IsCodebook(Prefixed(FALSE, root)) /\ DOMAIN Prefixed(FALSE, root) = DOMAIN root
  BY <1>6, PrefixedCodes DEF IsCodebook
<1>8. IsCodebook(TreeCodes) /\ DOMAIN TreeCodes = DOMAIN counts
  BY <1>5, <1>6, <1>7
<1>9. BookInv' /\ CompleteInv'
  BY <1>2, <1>8 DEF BookInv, CompleteInv
<1> QED
  BY <1>1, <1>9 DEF CodesInv

\* std::sort returns a sequence of all symbols, each once.
LEMMA Arrangement ==
    ASSUME NEW D \in SUBSET Symbol, IsFiniteSet(D), D # {}, NEW o \in SetToSeqs(D)
    PROVE  o \in Seq(Symbol) /\ Len(o) >= 1 /\ Once(o, Symbol) /\ ToSet(o) = D
<1> DEFINE n == Cardinality(D)
<1>1. n \in Nat /\ n # 0
  BY FS_CardinalityType, FS_EmptySet
<1>2. o \in [1 .. n -> D] /\ \A i, j \in 1 .. n : i # j => o[i] # o[j]
  BY DEF SetToSeqs
<1> HIDE DEF n
<1>3. o \in [1 .. n -> Symbol]
  BY <1>2
<1>4. o \in Seq(Symbol) /\ Len(o) = n
  BY <1>1, <1>3, SeqDef, LenProperties
<1>5. Once(o, Symbol)
  BY <1>2 DEF Once
<1>6. o \in Injection(1 .. n, D)
  BY <1>2 DEF Injection, IsInjective
<1>7. IsFiniteSet(1 .. n) /\ Cardinality(1 .. n) = Cardinality(D)
  BY <1>1, FS_Interval DEF n
<1>8. o \in Surjection(1 .. n, D)
  BY <1>6, <1>7, FS_Injection
<1>9. ToSet(o) = D
  BY <1>2, <1>8 DEF Surjection, ToSet
<1> QED
  BY <1>1, <1>4, <1>5, <1>9

\* generate_shannon_fano_codes: the first call is made on all symbols.
LEMMA ShannonFanoStarts ==
    ASSUME CodesInv, generate_shannon_fano_codes
    PROVE  CodesInv'
<1> DEFINE D == DOMAIN counts
<1>1. TableInv' /\ TreesInv' /\ CompleteInv'
  BY DEF generate_shannon_fano_codes, CodesInv, TableInv, TreesInv, CompleteInv
<1>2. BookInv'
  BY NoCodesBook DEF generate_shannon_fano_codes, BookInv
<1>3. PICK o \in Orders : calls' = <<[symbols |-> o, code |-> << >>]>>
  BY DEF generate_shannon_fano_codes
<1>4. D \in SUBSET Symbol /\ IsFiniteSet(D) /\ D # {} /\ o \in SetToSeqs(D)
  BY <1>3, BookFinite DEF generate_shannon_fano_codes, CodesInv, TableInv, Orders
<1>5. o \in Seq(Symbol) /\ Len(o) >= 1 /\ Once(o, Symbol) /\ ToSet(o) = D
  <2> HIDE DEF D
  <2> QED
    BY <1>4, Arrangement
<1> DEFINE call == [symbols |-> o, code |-> << >>]
<1>6. call \in Call /\ IsCall(call) /\ call.symbols = o
  BY <1>5, EmptySeq DEF Call, IsCall
<1> HIDE DEF call
<1>7. calls' = <<call>>
  BY <1>3 DEF call
<1>8. calls' \in Seq(Call) /\ ToSet(calls') = {call} /\ Once(calls', Call)
  BY <1>6, <1>7, SingleQueue, SingleOnce
<1>9. DOMAIN m_codes' = {} /\ counts' = counts
  BY DEF generate_shannon_fano_codes, NoCodes
<1>10. CallApartFrom(call, m_codes')
  BY <1>9 DEF CallApartFrom
<1>11. /\ \A c \in ToSet(calls') : /\ IsCall(c)
                                   /\ ToSet(c.symbols) \subseteq DOMAIN counts'
                                   /\ CallApartFrom(c, m_codes')
       /\ \A c, d \in ToSet(calls') : c # d => CallsApart(c, d)
       /\ \A s \in DOMAIN counts' : \E c \in ToSet(calls') : s \in ToSet(c.symbols)
  BY <1>5, <1>6, <1>8, <1>9, <1>10
<1>12. CallsInv'
  BY <1>8, <1>9, <1>11 DEF CallsInv
<1> QED
  BY <1>1, <1>2, <1>12 DEF CodesInv

\* The base cases of shannon_fano_encode.
LEMMA LeafFacts ==
    ASSUME NEW call, IsCall(call), Len(call.symbols) <= 2
    PROVE  /\ DOMAIN LeafCodes(call) = ToSet(call.symbols)
           /\ DOMAIN LeafCodes(call) \subseteq Symbol
           /\ \A s \in DOMAIN LeafCodes(call) : /\ LeafCodes(call)[s] \in Seq(BOOLEAN)
                                                /\ Extends(call.code, LeafCodes(call)[s])
           /\ AllApart(LeafCodes(call))
<1> DEFINE f == LeafCodes(call)
           o == call.symbols
           c == call.code
<1>1. o \in Seq(Symbol) /\ c \in Seq(BOOLEAN) /\ Once(o, Symbol) /\ Len(o) >= 1
  BY DEF IsCall, Call
<1>2. /\ DOMAIN f = ToSet(o)
      /\ \A s \in ToSet(o) : f[s] = IF Len(o) = 1 THEN c ELSE Append(c, s = o[2])
  BY DEF LeafCodes
<1> HIDE DEF f, o, c
<1>3. ToSet(o) \subseteq Symbol /\ Len(o) \in Nat /\ DOMAIN o = 1 .. Len(o)
  BY <1>1, QueueElements, LenProperties
<1>4. /\ \A b \in BOOLEAN : Append(c, b) \in Seq(BOOLEAN) /\ Extends(c, Append(c, b))
      /\ \A a, b \in BOOLEAN : a # b => Apart(Append(c, a), Append(c, b))
  BY <1>1, Siblings
<1>5. Extends(c, c)
  <2>1. Len(c) \in Nat
    BY <1>1, LenProperties
  <2> QED
    BY <2>1 DEF Extends
<1>6. CASE Len(o) = 1
  <2>1. \A s \in ToSet(o) : s = o[1]
    BY <1>3, <1>6 DEF ToSet
  <2>2. AllApart(f)
    BY <1>2, <2>1 DEF AllApart
  <2>3. \A s \in ToSet(o) : f[s] \in Seq(BOOLEAN) /\ Extends(c, f[s])
    BY <1>1, <1>2, <1>5, <1>6
  <2> QED
    BY <1>2, <1>3, <2>2, <2>3 DEF f, o, c
<1>7. CASE Len(o) = 2
  <2>1. \A s \in ToSet(o) : s = o[1] \/ s = o[2]
    BY <1>3, <1>7 DEF ToSet
  <2>2. ASSUME NEW s \in ToSet(o) PROVE f[s] = Append(c, s = o[2])
    BY <1>2, <1>7
  <2>3. ASSUME NEW s \in ToSet(o) PROVE f[s] \in Seq(BOOLEAN) /\ Extends(c, f[s])
    <3>1. (s = o[2]) \in BOOLEAN
      OBVIOUS
    <3> QED
      BY <1>4, <2>2, <3>1
  <2>4. ASSUME NEW s \in ToSet(o), NEW t \in ToSet(o), s # t
        PROVE  Apart(f[s], f[t])
    <3>1. CASE s = o[2]
      <4>1. t # o[2] /\ f[s] = Append(c, TRUE) /\ f[t] = Append(c, FALSE)
        <5>1. (s = o[2]) = TRUE /\ (t = o[2]) = FALSE
          BY <2>4, <3>1
        <5> QED
          BY <2>2, <2>4, <3>1, <5>1
      <4> QED
        BY <1>4, <4>1
    <3>2. CASE t = o[2]
      <4>1. s # o[2] /\ f[s] = Append(c, FALSE) /\ f[t] = Append(c, TRUE)
        <5>1. (s = o[2]) = FALSE /\ (t = o[2]) = TRUE
          BY <2>4, <3>2
        <5> QED
          BY <2>2, <2>4, <3>2, <5>1
      <4> QED
        BY <1>4, <4>1
    <3> QED
      BY <2>1, <2>4, <3>1, <3>2
  <2>5. AllApart(f)
    BY <1>2, <2>4 DEF AllApart
  <2> QED
    BY <1>2, <1>3, <2>3, <2>5 DEF f, o, c
<1>8. Len(o) <= 2
  BY DEF o
<1>9. Len(o) = 1 \/ Len(o) = 2
  BY <1>1, <1>3, <1>8
<1> QED
  BY <1>6, <1>7, <1>9

\* What the invariant says of the call that is made next.
LEMMA NextCall ==
    ASSUME CodesInv, stage = "encode", calls # << >>
    PROVE  /\ calls \in Seq(Call) /\ Head(calls) \in ToSet(calls) /\ IsCall(Head(calls))
           /\ Tail(calls) \in Seq(Call) /\ Once(Tail(calls), Call)
           /\ Head(calls) \notin ToSet(Tail(calls))
           /\ ToSet(calls) = ToSet(Tail(calls)) \cup {Head(calls)}
           /\ \A d \in ToSet(Tail(calls)) : /\ IsCall(d)
                                            /\ CallsApart(Head(calls), d)
                                            /\ CallsApart(d, Head(calls))
<1>1. /\ calls \in Seq(Call) /\ Once(calls, Call)
      /\ \A c \in ToSet(calls) : IsCall(c)
      /\ \A c, d \in ToSet(calls) : c # d => CallsApart(c, d)
  BY DEF CodesInv, CallsInv
<1>2. /\ Tail(calls) \in Seq(Call)
      /\ Head(calls) \in Call
      /\ Head(calls) \in ToSet(calls)
      /\ ToSet(calls) = ToSet(Tail(calls)) \cup {Head(calls)}
  BY <1>1, TailQueue
<1>3. Once(Tail(calls), Call) /\ Head(calls) \notin ToSet(Tail(calls))
  BY <1>1, <1>2, TailOnce
<1> QED
  BY <1>1, <1>2, <1>3

\* A base case of shannon_fano_encode.
LEMMA LeavesEncoded ==
    ASSUME CodesInv, stage = "encode", calls # << >>, EncodeLeaves(Head(calls)),
           UNCHANGED <<method, stage, counts, pending>>
    PROVE  CodesInv'
<1> DEFINE call == Head(calls)
           rest == Tail(calls)
           f == LeafCodes(call)
           g == m_codes
<1>1. TableInv' /\ TreesInv' /\ CompleteInv'
  BY DEF CodesInv, TableInv, TreesInv, CompleteInv
<1>2. /\ Len(call.symbols) <= 2
      /\ m_codes' = Merge(f, g)
      /\ m_max_code_length' = Max({m_max_code_length, Longest(f)})
      /\ calls' = rest
  BY DEF EncodeLeaves
<1>3. /\ call \in ToSet(calls) /\ IsCall(call)
      /\ rest \in Seq(Call) /\ Once(rest, Call)
      /\ ToSet(calls) = ToSet(rest) \cup {call}
      /\ \A d \in ToSet(rest) : IsCall(d) /\ CallsApart(call, d) /\ CallsApart(d, call)
  BY NextCall
<1>4. /\ \A c \in ToSet(calls) : /\ ToSet(c.symbols) \subseteq DOMAIN counts
                                 /\ CallApartFrom(c, g)
      /\ \A c, d \in ToSet(calls) : c # d => CallsApart(c, d)
      /\ DOMAIN g \subseteq DOMAIN counts
      /\ \A s \in DOMAIN counts :
            s \in DOMAIN g \/ \E c \in ToSet(calls) : s \in ToSet(c.symbols)
  BY DEF CodesInv, CallsInv
<1>5. /\ DOMAIN f = ToSet(call.symbols) /\ DOMAIN f \subseteq Symbol
      /\ \A s \in DOMAIN f : f[s] \in Seq(BOOLEAN) /\ Extends(call.code, f[s])
      /\ AllApart(f)
  <2> HIDE DEF call
  <2> QED
    BY <1>2, <1>3, LeafFacts
<1>6. /\ DOMAIN g \subseteq Symbol
      /\ \A s \in DOMAIN g : g[s] \in Seq(BOOLEAN)
      /\ AllApart(g)
      /\ m_max_code_length = Longest(g)
  BY DEF CodesInv, BookInv, IsCodebook
<1> HIDE DEF call, rest, f, g
<1>7. DOMAIN f \cap DOMAIN g = {} /\ \A t \in DOMAIN g : Apart(call.code, g[t])
  BY <1>3, <1>4, <1>5 DEF CallApartFrom
<1>8. call.code \in Seq(BOOLEAN)
  BY <1>3 DEF IsCall, Call
<1>9. \A s \in DOMAIN f, t \in DOMAIN g : Apart(f[s], g[t])
  BY <1>5, <1>6, <1>7, <1>8, ExtendApart
<1>10. IsFiniteSet(DOMAIN f) /\ IsFiniteSet(DOMAIN g)
  BY <1>5, <1>6, BookFinite
<1> DEFINE h == Merge(f, g)
<1>11. /\ DOMAIN h = DOMAIN f \cup DOMAIN g
       /\ \A s \in DOMAIN h : h[s] \in Seq(BOOLEAN)
       /\ AllApart(h)
       /\ Longest(h) = Max({Longest(g), Longest(f)})
  BY <1>5, <1>6, <1>7, <1>9, <1>10, AddedCodes
<1>12. /\ \A s \in DOMAIN f : h[s] = f[s]
       /\ \A s \in DOMAIN g : h[s] = g[s]
  BY <1>7 DEF Merge
<1> HIDE DEF h
<1>13. m_codes' = h /\ m_max_code_length' = Longest(h)
  BY <1>2, <1>6, <1>11 DEF h
<1>14. BookInv'
  BY <1>5, <1>6, <1>11, <1>13 DEF BookInv, IsCodebook
<1>15. ASSUME NEW d \in ToSet(rest) PROVE CallApartFrom(d, h)
  <2>1. /\ ToSet(call.symbols) \cap ToSet(d.symbols) = {} /\ Apart(call.code, d.code)
        /\ d.code \in Seq(BOOLEAN)
    BY <1>3 DEF CallsApart, IsCall, Call
  <2>2. CallApartFrom(d, g)
    BY <1>3, <1>4
  <2>3. ToSet(d.symbols) \cap DOMAIN h = {}
    BY <1>5, <1>11, <2>1, <2>2 DEF CallApartFrom
  <2>4. ASSUME NEW s \in DOMAIN f PROVE Apart(d.code, h[s])
    BY <1>5, <1>8, <1>12, <2>1, ExtendApart
  <2>5. ASSUME NEW s \in DOMAIN g PROVE Apart(d.code, h[s])
    BY <1>12, <2>2 DEF CallApartFrom
  <2> QED
    BY <1>11, <2>3, <2>4, <2>5 DEF CallApartFrom
<1>16. CallsInv'
  <2>1. calls' = rest /\ counts' = counts
    BY <1>2
  <2>2. \A c \in ToSet(rest) : /\ IsCall(c)
                               /\ ToSet(c.symbols) \subseteq DOMAIN counts
                               /\ CallApartFrom(c, h)
    BY <1>3, <1>4, <1>15
  <2>3. \A c, d \in ToSet(rest) : c # d => CallsApart(c, d)
    BY <1>3, <1>4
  <2>4. DOMAIN h \subseteq DOMAIN counts
    BY <1>3, <1>4, <1>5, <1>11
  <2>5. \A s \in DOMAIN counts :
            s \in DOMAIN h \/ \E c \in ToSet(rest) : s \in ToSet(c.symbols)
    <3> SUFFICES ASSUME NEW s \in DOMAIN counts, s \notin DOMAIN h
                 PROVE  \E c \in ToSet(rest) : s \in ToSet(c.symbols)
      OBVIOUS
    <3>1. s \notin DOMAIN g /\ s \notin ToSet(call.symbols)
      BY <1>5, <1>11
    <3> QED
      BY <1>3, <1>4, <3>1
  <2> QED
    BY <1>3, <1>13, <2>1, <2>2, <2>3, <2>4, <2>5 DEF CallsInv
<1> QED
  BY <1>1, <1>14, <1>16 DEF CodesInv

\* A queue of two elements.
LEMMA PairQueue ==
    ASSUME NEW S, NEW a \in S, NEW b \in S, a # b
    PROVE  <<a, b>> \in Seq(S) /\ ToSet(<<a, b>>) = {a, b} /\ Once(<<a, b>>, S)
<1>1. <<a, b>> \in Seq(S)
  OBVIOUS
<1>2. DOMAIN <<a, b>> = {1, 2} /\ <<a, b>>[1] = a /\ <<a, b>>[2] = b
  OBVIOUS
<1>3. ToSet(<<a, b>>) = {a, b}
  BY <1>2, Zenon DEF ToSet
<1>4. Once(<<a, b>>, S)
  BY <1>2 DEF Once
<1> QED
  BY <1>1, <1>3, <1>4

\* The two calls a call makes.
LEMMA HalvesFacts ==
    ASSUME NEW call, IsCall(call), Len(call.symbols) > 2
    PROVE  \E a, b : /\ Halves(call) = <<a, b>>
                     /\ IsCall(a) /\ IsCall(b)
                     /\ CallsApart(a, b) /\ CallsApart(b, a)
                     /\ ToSet(call.symbols) = ToSet(a.symbols) \cup ToSet(b.symbols)
                     /\ ToSet(a.symbols) # {} /\ ToSet(b.symbols) # {}
                     /\ Extends(call.code, a.code) /\ Extends(call.code, b.code)
<1> DEFINE o == call.symbols
           c == call.code
           k == SplitPoint(o)
           n == Len(o)
           x == SubSeq(o, 1, k)
           y == SubSeq(o, k + 1, n)
           u == Append(c, FALSE)
           w == Append(c, TRUE)
           a == [symbols |-> x, code |-> u]
           b == [symbols |-> y, code |-> w]
<1>1. o \in Seq(Symbol) /\ c \in Seq(BOOLEAN) /\ Once(o, Symbol) /\ n > 2
  BY DEF IsCall, Call
<1>2. Halves(call) = <<a, b>>
  BY DEF Halves
<1> HIDE DEF o, c
<1>3. k \in Nat /\ k >= 1 /\ k < n
  BY <1>1, SplitFacts
<1> HIDE DEF k
<1>4. /\ x \in Seq(Symbol) /\ Len(x) >= 1 /\ Once(x, Symbol)
      /\ y \in Seq(Symbol) /\ Len(y) >= 1 /\ Once(y, Symbol)
      /\ ToSet(x) \cap ToSet(y) = {}
      /\ ToSet(o) = ToSet(x) \cup ToSet(y)
      /\ ToSet(x) # {} /\ ToSet(y) # {}
  BY <1>1, <1>3, Groups
<1>5. /\ u \in Seq(BOOLEAN) /\ w \in Seq(BOOLEAN)
      /\ Extends(c, u) /\ Extends(c, w)
      /\ Apart(u, w) /\ Apart(w, u)
  BY <1>1, Siblings
<1> HIDE DEF x, y, u, w
<1>6. a.symbols = x /\ a.code = u /\ b.symbols = y /\ b.code = w
  OBVIOUS
<1>7. a \in Call /\ b \in Call
  BY <1>4, <1>5 DEF Call
<1> HIDE DEF a, b
<1>8. IsCall(a) /\ IsCall(b)
  BY <1>4, <1>6, <1>7 DEF IsCall
<1>9. CallsApart(a, b) /\ CallsApart(b, a)
  BY <1>4, <1>5, <1>6 DEF CallsApart
<1>10. /\ ToSet(o) = ToSet(a.symbols) \cup ToSet(b.symbols)
       /\ ToSet(a.symbols) # {} /\ ToSet(b.symbols) # {}
       /\ Extends(c, a.code) /\ Extends(c, b.code)
  BY <1>4, <1>5, <1>6
<1> QED
  BY <1>2, <1>8, <1>9, <1>10 DEF o, c

\* A call on some of the symbols of another, with a code that goes on from its.
LEMMA SubCallApart ==
    ASSUME NEW call, NEW a, NEW d, IsCall(call), IsCall(a), IsCall(d),
           ToSet(a.symbols) \subseteq ToSet(call.symbols), Extends(call.code, a.code),
           CallsApart(call, d)
    PROVE  CallsApart(a, d) /\ CallsApart(d, a)
<1>1. /\ call.code \in Seq(BOOLEAN) /\ a.code \in Seq(BOOLEAN) /\ d.code \in Seq(BOOLEAN)
      /\ Apart(call.code, d.code) /\ ToSet(call.symbols) \cap ToSet(d.symbols) = {}
  BY DEF IsCall, Call, CallsApart
<1>2. Apart(a.code, d.code) /\ Apart(d.code, a.code)
  BY <1>1, ExtendApart
<1> QED
  BY <1>1, <1>2 DEF CallsApart

\* The same for the codes there are.
LEMMA SubCallApartFrom ==
    ASSUME NEW call, NEW a, NEW codes, IsCall(call), IsCall(a), IsCodebook(codes),
           ToSet(a.symbols) \subseteq ToSet(call.symbols), Extends(call.code, a.code),
           CallApartFrom(call, codes)
    PROVE  CallApartFrom(a, codes)
<1>1. /\ call.code \in Seq(BOOLEAN) /\ a.code \in Seq(BOOLEAN)
      /\ ToSet(call.symbols) \cap DOMAIN codes = {}
  BY DEF IsCall, Call, CallApartFrom
<1>2. ASSUME NEW s \in DOMAIN codes PROVE Apart(a.code, codes[s])
  <2>1. codes[s] \in Seq(BOOLEAN) /\ Apart(call.code, codes[s])
    BY DEF IsCodebook, CallApartFrom
  <2> QED
    BY <1>1, <2>1, ExtendApart
<1> QED
  BY <1>1, <1>2 DEF CallApartFrom

\* A call of shannon_fano_encode that makes two.
LEMMA HalvesEncoded ==
    ASSUME CodesInv, stage = "encode", calls # << >>, EncodeHalves(Head(calls)),
           UNCHANGED <<method, stage, counts, pending>>
    PROVE  CodesInv'
<1> DEFINE call == Head(calls)
           rest == Tail(calls)
<1>1. TableInv' /\ TreesInv' /\ CompleteInv' /\ BookInv'
  BY DEF CodesInv, TableInv, TreesInv, CompleteInv, BookInv, EncodeHalves
<1>2. /\ Len(call.symbols) > 2
      /\ calls' = Halves(call) \o rest
      /\ m_codes' = m_codes /\ counts' = counts
  BY DEF EncodeHalves
<1>3. /\ call \in ToSet(calls) /\ IsCall(call)
      /\ rest \in Seq(Call) /\ Once(rest, Call)
      /\ ToSet(calls) = ToSet(rest) \cup {call}
      /\ \A d \in ToSet(rest) : IsCall(d) /\ CallsApart(call, d) /\ CallsApart(d, call)
  BY NextCall
<1>4. /\ \A c \in ToSet(calls) : /\ ToSet(c.symbols) \subseteq DOMAIN counts
                                 /\ CallApartFrom(c, m_codes)
      /\ \A c, d \in ToSet(calls) : c # d => CallsApart(c, d)
      /\ DOMAIN m_codes \subseteq DOMAIN counts
      /\ \A s \in DOMAIN counts :
            s \in DOMAIN m_codes \/ \E c \in ToSet(calls) : s \in ToSet(c.symbols)
      /\ IsCodebook(m_codes)
  BY DEF CodesInv, CallsInv, BookInv
<1> HIDE DEF call, rest
<1>5. PICK a, b : /\ Halves(call) = <<a, b>>
                  /\ IsCall(a) /\ IsCall(b)
                  /\ CallsApart(a, b) /\ CallsApart(b, a)
                  /\ ToSet(call.symbols) = ToSet(a.symbols) \cup ToSet(b.symbols)
                  /\ ToSet(a.symbols) # {} /\ ToSet(b.symbols) # {}
                  /\ Extends(call.code, a.code) /\ Extends(call.code, b.code)
  BY <1>2, <1>3, HalvesFacts
<1>6. ASSUME NEW c \in {a, b}
      PROVE  /\ IsCall(c) /\ c \in Call
             /\ ToSet(c.symbols) \subseteq ToSet(call.symbols)
             /\ ToSet(c.symbols) # {}
             /\ Extends(call.code, c.code)
  BY <1>5 DEF IsCall
<1>7. ASSUME NEW c \in {a, b}, NEW d \in ToSet(rest)
      PROVE  CallsApart(c, d) /\ CallsApart(d, c) /\ c # d
  <2>1. CallsApart(c, d) /\ CallsApart(d, c)
    BY <1>3, <1>6, SubCallApart
  <2>2. ToSet(c.symbols) \cap ToSet(d.symbols) = {}
    BY <2>1 DEF CallsApart
  <2> QED
    BY <1>6, <2>1, <2>2
<1>8. ASSUME NEW c \in {a, b}
      PROVE  CallApartFrom(c, m_codes) /\ ToSet(c.symbols) \subseteq DOMAIN counts
  BY <1>3, <1>4, <1>6, SubCallApartFrom
<1>9. a # b
  <2>1. ToSet(a.symbols) \cap ToSet(b.symbols) = {}
    BY <1>5 DEF CallsApart
  <2> QED
    BY <1>5, <2>1
<1> DEFINE new == <<a, b>>
<1>10. new \in Seq(Call) /\ ToSet(new) = {a, b} /\ Once(new, Call)
  BY <1>6, <1>9, PairQueue
<1> HIDE DEF new
<1>11. calls' = new \o rest
  BY <1>2, <1>5 DEF new
<1>12. /\ calls' \in Seq(Call) /\ ToSet(calls') = {a, b} \cup ToSet(rest)
       /\ Once(calls', Call)
  <2>1. Call \cap ToSet(new) \cap ToSet(rest) = {}
    BY <1>7, <1>10
  <2>2. new \o rest \in Seq(Call) /\ ToSet(new \o rest) = ToSet(new) \cup ToSet(rest)
    BY <1>3, <1>10, ConcatQueue
  <2>3. Once(new \o rest, Call)
    BY <1>3, <1>10, <2>1, ConcatOnce
  <2> QED
    BY <1>10, <1>11, <2>2, <2>3
<1>13. \A c \in ToSet(calls') : /\ IsCall(c)
                                /\ ToSet(c.symbols) \subseteq DOMAIN counts'
                                /\ CallApartFrom(c, m_codes')
  BY <1>2, <1>3, <1>4, <1>6, <1>8, <1>12
<1>14. \A c, d \in ToSet(calls') : c # d => CallsApart(c, d)
  BY <1>3, <1>4, <1>5, <1>7, <1>12
<1>15. \A s \in DOMAIN counts' :
          s \in DOMAIN m_codes' \/ \E c \in ToSet(calls') : s \in ToSet(c.symbols)
  <2> SUFFICES ASSUME NEW s \in DOMAIN counts, s \notin DOMAIN m_codes
               PROVE  \E c \in ToSet(calls') : s \in ToSet(c.symbols)
    BY <1>2
  <2>1. PICK c \in ToSet(calls) : s \in ToSet(c.symbols)
    BY <1>4
  <2>2. CASE c = call
    BY <1>5, <1>12, <2>1, <2>2
  <2>3. CASE c # call
    BY <1>3, <1>12, <2>1, <2>3
  <2> QED
    BY <2>2, <2>3
<1>16. CallsInv'
  BY <1>2, <1>4, <1>12, <1>13, <1>14, <1>15 DEF CallsInv
<1> QED
  BY <1>1, <1>16 DEF CodesInv

\* The last call has returned.
LEMMA EncodingEnds ==
    ASSUME CodesInv, EncodeReturns
    PROVE  CodesInv'
<1>1. TableInv' /\ BookInv' /\ TreesInv' /\ CallsInv'
  BY DEF EncodeReturns, CodesInv, TableInv, BookInv, TreesInv, CallsInv
<1>2. ToSet(calls) = {}
  BY EmptyQueue DEF EncodeReturns
<1>3. DOMAIN m_codes = DOMAIN counts
  BY <1>2 DEF EncodeReturns, CodesInv, CallsInv
<1>4. CompleteInv'
  BY <1>3 DEF EncodeReturns, CompleteInv
<1> QED
  BY <1>1, <1>4 DEF CodesInv

\* make_canonical_codes.
LEMMA MadeCanonical ==
    ASSUME CodesInv, make_canonical_codes
    PROVE  CodesInv'
<1> DEFINE f == m_codes
           lengths == [s \in DOMAIN f |-> Len(f[s])]
           g == Canonical(lengths)
<1>1. TableInv' /\ TreesInv' /\ CallsInv'
  BY DEF make_canonical_codes, CodesInv, TableInv, TreesInv, CallsInv
<1>2. /\ m_codes' = g /\ m_max_code_length' = m_max_code_length
      /\ counts' = counts /\ DOMAIN f = DOMAIN counts
  BY DEF make_canonical_codes, CodesInv, CompleteInv
<1>3. /\ DOMAIN f \subseteq Symbol /\ \A s \in DOMAIN f : f[s] \in Seq(BOOLEAN)
      /\ AllApart(f) /\ m_max_code_length = Longest(f)
  BY DEF CodesInv, BookInv, IsCodebook
<1>4. IsFiniteSet(DOMAIN f) /\ DOMAIN f \subseteq Nat
  BY <1>3, BookFinite
<1> HIDE DEF f
<1>5. AreLengths(lengths) /\ Fit(lengths)
  BY <1>3, <1>4, CodesFit
<1>6. DOMAIN lengths = DOMAIN f /\ \A s \in DOMAIN f : lengths[s] = Len(f[s])
  OBVIOUS
<1> HIDE DEF lengths
<1>7. /\ DOMAIN g = DOMAIN f
      /\ \A s \in DOMAIN f : g[s] \in Seq(BOOLEAN) /\ Len(g[s]) = Len(f[s])
      /\ AllApart(g)
  BY <1>5, <1>6, CanonicalShape, CanonicalApart
<1> HIDE DEF g
<1>8. IsLongest(Longest(f), f)
  BY <1>3, <1>4, LongestFacts
<1> DEFINE x == Longest(f)
<1> HIDE DEF x
<1>9. IsLongest(x, g)
  BY <1>7, <1>8 DEF IsLongest, x
<1>10. x = Longest(g)
  BY <1>4, <1>7, <1>9, LongestFacts
<1>11. BookInv'
  BY <1>2, <1>3, <1>7, <1>10 DEF BookInv, IsCodebook, x
<1>12. CompleteInv'
  BY <1>2, <1>7 DEF CompleteInv
<1> QED
  BY <1>1, <1>11, <1>12 DEF CodesInv

\* generate_shannon_codes.
LEMMA ShannonGenerated ==
    ASSUME CodesInv, generate_shannon_codes
    PROVE  CodesInv'
<1> DEFINE D == DOMAIN counts
           lengths == [s \in D |-> ShannonLength(s, Weight(D))]
           T == {lengths[s] : s \in D}
           g == Canonical(lengths)
<1>1. TableInv' /\ TreesInv' /\ CallsInv'
  BY DEF generate_shannon_codes, CodesInv, TableInv, TreesInv, CallsInv
<1>2. /\ m_codes' = g /\ m_max_code_length' = Max(T)
      /\ counts' = counts /\ D # {}
  BY DEF generate_shannon_codes
<1>3. D \subseteq Symbol /\ \A s \in D : counts[s] \in Nat /\ counts[s] >= 1
  BY DEF CodesInv, TableInv
<1>4. IsFiniteSet(D) /\ D \subseteq Nat
  BY <1>3, BookFinite
<1>5. AreLengths(lengths) /\ Fit(lengths)
  BY <1>2, <1>3, <1>4, ShannonFit
<1>6. DOMAIN lengths = D
  OBVIOUS
<1> HIDE DEF lengths
<1>7. /\ DOMAIN g = D
      /\ \A s \in D : g[s] \in Seq(BOOLEAN) /\ Len(g[s]) = lengths[s]
      /\ AllApart(g)
  BY <1>5, <1>6, CanonicalShape, CanonicalApart
<1>8. /\ Max(T) \in T
      /\ \A y \in T : y <= Max(T)
      /\ T \subseteq Nat
  <2>1. T \in SUBSET Nat
    BY <1>5, <1>6 DEF AreLengths
  <2>2. T # {}
    BY <1>2
  <2>3. IsFiniteSet(T)
    <3> DEFINE f == [s \in D |-> lengths[s]]
    <3>1. f \in [D -> T] /\ \A t \in T : \E s \in D : f[s] = t
      OBVIOUS
    <3> HIDE DEF f, T, D
    <3> QED
      BY <1>4, <3>1, FiniteImage
  <2> HIDE DEF T
  <2> QED
    BY <2>1, <2>2, <2>3, MaxFacts
<1> DEFINE x == Max(T)
<1> HIDE DEF g, x
<1>9. IsLongest(x, g)
  <2>1. x \in T /\ x \in Nat /\ \A y \in T : y <= x
    BY <1>8 DEF x
  <2>2. PICK s \in D : x = lengths[s]
    BY <2>1
  <2>3. \A t \in D : lengths[t] <= x
    BY <2>1
  <2> QED
    BY <1>7, <2>1, <2>2, <2>3 DEF IsLongest
<1>10. x = Longest(g)
  BY <1>4, <1>7, <1>9, LongestFacts
<1>11. BookInv'
  <2>1. m_codes' = g /\ m_max_code_length' = Longest(g)
    BY <1>2, <1>10 DEF x
  <2> QED
    BY <1>3, <1>7, <2>1 DEF BookInv, IsCodebook
<1>12. CompleteInv'
  BY <1>2, <1>7 DEF CompleteInv
<1> QED
  BY <1>1, <1>11, <1>12 DEF CodesInv

\* An empty table leaves an empty codebook.
LEMMA NothingSampled ==
    ASSUME CodesInv, NoFrequencies
    PROVE  CodesInv'
<1>1. TableInv' /\ TreesInv' /\ CallsInv' /\ CompleteInv'
  BY DEF NoFrequencies, CodesInv, TableInv, TreesInv, CallsInv, CompleteInv
<1>2. BookInv'
  BY NoCodesBook DEF NoFrequencies, BookInv
<1> QED
  BY <1>1, <1>2 DEF CodesInv

\* scale_down keeps the entries that are not zero.
LEMMA SamplesAged ==
    ASSUME CodesInv, AgeSamples
    PROVE  CodesInv'
<1>1. BookInv' /\ TreesInv' /\ CallsInv' /\ CompleteInv'
  BY DEF AgeSamples, CodesInv, BookInv, TreesInv, CallsInv, CompleteInv
<1> DEFINE kept == {s \in DOMAIN counts : counts[s] \div 2 # 0}
<1>2. counts' = [s \in kept |-> counts[s] \div 2]
  BY DEF AgeSamples
<1>3. ASSUME NEW s \in kept PROVE counts[s] \div 2 \in Nat /\ counts[s] \div 2 >= 1
  <2>1. counts[s] \in Nat /\ counts[s] \div 2 # 0
    BY DEF CodesInv, TableInv
  <2> QED
    BY <2>1
<1>4. TableInv'
  BY <1>2, <1>3 DEF CodesInv, TableInv
<1> QED
  BY <1>1, <1>4 DEF CodesInv

\* Every step keeps the invariant.
LEMMA CodesStep ==
    CodesInv /\ [Next]_vars => CodesInv'
<1> SUFFICES ASSUME CodesInv, [Next]_vars PROVE CodesInv'
  OBVIOUS
<1>1. CASE generate_huffman_codes
  BY <1>1, HuffmanStarts
<1>2. CASE MergeLightest
  BY <1>2, TreesMerge
<1>3. CASE generate_codes_from_tree
  BY <1>3, TreeFinishes
<1>4. CASE generate_shannon_fano_codes
  BY <1>4, ShannonFanoStarts
<1>5. CASE shannon_fano_encode
  BY <1>5, LeavesEncoded, HalvesEncoded DEF shannon_fano_encode
<1>6. CASE EncodeReturns
  BY <1>6, EncodingEnds
<1>7. CASE make_canonical_codes
  BY <1>7, MadeCanonical
<1>8. CASE generate_shannon_codes
  BY <1>8, ShannonGenerated
<1>9. CASE NoFrequencies
  BY <1>9, NothingSampled
<1>10. CASE AgeSamples
  BY <1>10, SamplesAged
<1>11. CASE UNCHANGED vars
  BY <1>11 DEF vars, CodesInv, TableInv, BookInv, TreesInv, CallsInv, CompleteInv
<1> QED
  BY <1>1, <1>2, <1>3, <1>4, <1>5, <1>6, <1>7, <1>8, <1>9, <1>10, <1>11 DEF Next

\* The invariant holds in every reachable state.
LEMMA CodesInvariance ==
    Spec => []CodesInv
BY CodesInit, CodesStep, PTL DEF Spec

-----------------------------------------------------------------------------
(* The theorems. *)

\* Whichever generator made the codes, from whichever table, and whether or not
\* make_canonical_codes has replaced them, no code begins with another: a
\* stream of codes can be decoded.
THEOREM CodesArePrefixFree ==
    Spec => []PrefixFree
<1>1. CodesInv => PrefixFree
  BY ApartNoPrefix DEF CodesInv, BookInv, IsCodebook, AllApart, PrefixFree
<1> QED
  BY <1>1, CodesInvariance, PTL

\* At the end of a rebuild exactly the symbols of the table have codes, and
\* m_max_code_length is the greatest length.
THEOREM CodebookFollowsTable ==
    Spec => []CodebookMatchesTable
<1>1. CodesInv => CodebookMatchesTable
  BY DEF CodesInv, BookInv, CompleteInv, CodebookMatchesTable
<1> QED
  BY <1>1, CodesInvariance, PTL

\* Rounding up: the least number of parts of size d that hold a.
LEMMA CeilFacts ==
    ASSUME NEW a \in Nat, a >= 1, NEW d \in Nat, d >= 1
    PROVE  /\ CeilDiv(a, d) \in Nat
           /\ CeilDiv(a, d) >= 1
           /\ a <= d * CeilDiv(a, d)
           /\ d * (CeilDiv(a, d) - 1) + 1 <= a
<1> DEFINE b == a + d - 1
           q == b \div d
<1>1. b \in Nat /\ b >= d
  OBVIOUS
<1>2. q \in Nat /\ d * q <= b /\ b < d * q + d
  <2> HIDE DEF b
  <2> QED
    BY <1>1, QuotientFacts
<1>3. CeilDiv(a, d) = q
  BY DEF CeilDiv
<1> HIDE DEF q
<1>4. d * q \in Nat
  BY <1>2
<1>5. a <= d * q
  BY <1>2, <1>4
<1>6. q >= 1
  <2>1. q = 0 => d * q = 0
    OBVIOUS
  <2> QED
    BY <1>2, <1>5, <2>1
<1>7. d * (q - 1) = d * q - d
  BY <1>2
<1>8. d * (q - 1) + 1 <= a
  BY <1>2, <1>4, <1>7
<1> QED
  BY <1>2, <1>3, <1>5, <1>6, <1>8

\* compress_data_block: every symbol of the block takes a bit at least.
LEMMA EncodedBits ==
    ASSUME CodesInv, NEW block \in Block
    PROVE  LET bits == SumFunction([i \in DOMAIN block |-> EncodedLength(block[i])])
           IN  bits \in Nat /\ bits >= 1
<1> DEFINE D == 1 .. BlockSymbols
           f == [i \in DOMAIN block |-> EncodedLength(block[i])]
<1>1. BlockSymbols \in Nat /\ BlockSymbols >= 1 /\ SymbolLength \in Nat
  BY BlockAssumption
<1>2. DOMAIN block = D /\ IsFiniteSet(D) /\ 1 \in D
  BY <1>1, FS_Interval DEF Block
<1>3. ASSUME NEW s PROVE EncodedLength(s) \in Nat /\ EncodedLength(s) >= 1
  <2>1. s \in DOMAIN m_codes => Len(m_codes[s]) \in Nat
    BY LenProperties DEF CodesInv, BookInv, IsCodebook
  <2> QED
    BY <1>1, <2>1 DEF EncodedLength
<1>4. DOMAIN f = D /\ \A i \in D : f[i] \in Nat /\ f[i] >= 1
  BY <1>2, <1>3
<1>5. SumFunction(f) = SumFunctionOnSet(f, D)
  BY <1>4 DEF SumFunction
<1> HIDE DEF f, D
<1>6. IsSum(f, D)
  BY <1>2, <1>4, SumLaws
<1>7. SumFunctionOnSet(f, D) \in Nat
  BY <1>6, Zenon DEF IsSum
<1>8. f[1] <= SumFunctionOnSet(f, D)
  BY <1>2, <1>4, SumBounds
<1> QED
  BY <1>2, <1>4, <1>5, <1>7, <1>8 DEF f

\* The bursts a compressed block is said to take hold it, and fewer would not;
\* an uncompressed block takes four.
THEOREM BurstsHoldBlock ==
    Spec => []BurstHoldsBlock
<1>1. ASSUME CodesInv, NEW block \in Block
      PROVE  LET outcome == compress_data_block(block)
                 bits    == outcome.raw_compressed_size_bits
             IN  /\ outcome.burst_size \in 1 .. 4
                 /\ bits <= 8 * Mag * outcome.burst_size
                 /\ bits > 8 * Mag * (outcome.burst_size - 1)
  <2> DEFINE bits == SumFunction([i \in DOMAIN block |-> EncodedLength(block[i])])
             bytes == CeilDiv(bits, 8)
             burst == CeilDiv(bytes, Mag)
             outcome == compress_data_block(block)
  <2>1. Mag \in Nat /\ Mag >= 1 /\ original_size_bits = 4 * 8 * Mag
    BY BlockAssumption DEF original_size_bits
  <2>2. bits \in Nat /\ bits >= 1
    BY <1>1, EncodedBits
  <2>3. outcome = IF DOMAIN m_codes = {} \/ burst > 3
        THEN [raw_compressed_size_bits |-> original_size_bits, burst_size |-> 4]
        ELSE [raw_compressed_size_bits |-> bits, burst_size |-> burst]
    BY DEF compress_data_block
  <2> HIDE DEF bits, outcome
  <2>4. bytes \in Nat /\ bytes >= 1 /\ bits <= 8 * bytes /\ 8 * (bytes - 1) + 1 <= bits
    BY <2>2, CeilFacts
  <2> HIDE DEF bytes
  <2>5. /\ burst \in Nat /\ burst >= 1
        /\ bytes <= Mag * burst /\ Mag * (burst - 1) + 1 <= bytes
    BY <2>1, <2>4, CeilFacts
  <2> HIDE DEF burst
  <2>6. CASE DOMAIN m_codes = {} \/ burst > 3
    <3>1. outcome.raw_compressed_size_bits = 4 * 8 * Mag /\ outcome.burst_size = 4
      BY <2>1, <2>3, <2>6
    <3>2. 4 * 8 * Mag <= 8 * Mag * 4 /\ 4 * 8 * Mag > 8 * Mag * (4 - 1)
      BY <2>1
    <3>3. 4 \in 1 .. 4
      OBVIOUS
    <3> QED
      BY <3>1, <3>2, <3>3 DEF outcome
  <2>7. CASE ~(DOMAIN m_codes = {} \/ burst > 3)
    <3>1. outcome.raw_compressed_size_bits = bits /\ outcome.burst_size = burst
      BY <2>3, <2>7
    <3>2. burst \in 1 .. 4
      BY <2>5, <2>7
    <3> DEFINE x == Mag * burst
               y == Mag * (burst - 1)
    <3>3. x \in Nat /\ y \in Nat
      BY <2>1, <2>5
    <3>4. 8 * Mag * burst = 8 * x /\ 8 * Mag * (burst - 1) = 8 * y
      BY <2>1, <2>5
    <3>5. bytes <= x /\ y + 1 <= bytes
      BY <2>5
    <3> HIDE DEF x, y
    <3>6. bits <= 8 * x /\ bits > 8 * y
      BY <2>2, <2>4, <3>3, <3>5
    <3>7. bits <= 8 * Mag * burst /\ bits > 8 * Mag * (burst - 1)
      BY <3>4, <3>6
    <3> QED
      BY <3>1, <3>2, <3>7 DEF outcome
  <2> QED
    BY <2>6, <2>7
<1>2. CodesInv => BurstHoldsBlock
  BY <1>1 DEF BurstHoldsBlock
<1> QED
  BY <1>2, CodesInvariance, PTL

\* The first symbols of a call weigh the more, the more they are.
LEMMA RunningWeight ==
    ASSUME TableInv, NEW o \in Seq(Symbol), Once(o, Symbol),
           ToSet(o) \subseteq DOMAIN counts
    PROVE  LET W(k) == Weight(ToSet(SubSeq(o, 1, k)))
           IN  /\ W(0) = 0
               /\ W(Len(o)) = Weight(ToSet(o))
               /\ \A k \in 0 .. Len(o) : W(k) \in Nat
               /\ \A j, k \in 0 .. Len(o) : j < k => W(j) < W(k)
<1> DEFINE n == Len(o)
           D == ToSet(o)
           First(k) == ToSet(SubSeq(o, 1, k))
           W(k) == Weight(First(k))
<1>1. n \in Nat /\ DOMAIN o = 1 .. n /\ \A i \in 1 .. n : o[i] \in Symbol
  BY LenProperties, ElementOfSeq
<1>2. D \subseteq Symbol /\ \A s \in D : counts[s] \in Nat /\ counts[s] >= 1
  BY DEF TableInv
<1>3. IsFiniteSet(D)
  BY <1>2, BlockAssumption, FS_Subset
<1>4. ASSUME NEW k \in 0 .. n PROVE First(k) = {o[i] : i \in 1 .. k}
  <2> DEFINE a == SubSeq(o, 1, k)
  <2>1. k \in Int /\ \A i \in 1 .. k : o[i] \in Symbol
    BY <1>1
  <2>2. /\ a \in Seq(Symbol) /\ Len(a) = IF 1 <= k THEN k - 1 + 1 ELSE 0
        /\ \A i \in 1 .. k - 1 + 1 : a[i] = o[1 + i - 1]
    BY <2>1, SubSeqProperties
  <2>3. DOMAIN a = 1 .. Len(a)
    BY <2>2, LenProperties
  <2> HIDE DEF a
  <2>4. DOMAIN a = 1 .. k /\ \A i \in 1 .. k : a[i] = o[i]
    BY <1>1, <2>2, <2>3
  <2> QED
    BY <2>4 DEF ToSet, a
<1>5. D = {o[i] : i \in 1 .. n}
  BY <1>1 DEF ToSet
<1>6. First(0) = {} /\ First(n) = D
  <2>1. 0 \in 0 .. n /\ n \in 0 .. n /\ 1 .. 0 = {}
    BY <1>1
  <2> QED
    BY <1>4, <1>5, <2>1
<1>7. ASSUME NEW k \in 0 .. n PROVE First(k) \in SUBSET D
  <2>1. \A i \in 1 .. k : i \in 1 .. n
    BY <1>1
  <2> QED
    BY <1>4, <1>5, <2>1
<1>8. ASSUME NEW j \in 0 .. n, NEW k \in 0 .. n, j < k
      PROVE  /\ First(j) \cup {o[k]} \subseteq First(k)
             /\ o[k] \notin First(j) /\ o[k] \in D
  <2>1. k \in 1 .. k /\ k \in 1 .. n /\ \A i \in 1 .. j : i \in 1 .. k /\ i \in 1 .. n /\ i # k
    BY <1>1, <1>8
  <2>2. \A i \in 1 .. j : o[i] # o[k]
    BY <1>1, <2>1 DEF Once
  <2>3. First(j) = {o[i] : i \in 1 .. j} /\ First(k) = {o[i] : i \in 1 .. k}
    BY <1>4
  <2> HIDE DEF First
  <2>4. First(j) \cup {o[k]} \subseteq First(k)
    BY <2>1, <2>3
  <2>5. o[k] \notin First(j)
    BY <2>2, <2>3
  <2> QED
    BY <1>5, <2>1, <2>4, <2>5
<1> HIDE DEF First, D
<1>9. IsSum(counts, D)
  BY <1>2, <1>3, SumLaws
<1>10. /\ Weight({}) = 0
       /\ \A T \in SUBSET D : /\ Weight(T) \in Nat
                              /\ \A x \in D \ T : Weight(T \cup {x}) = Weight(T) + counts[x]
  BY <1>9, Zenon DEF IsSum, Weight
<1>11. ASSUME NEW j \in 0 .. n, NEW k \in 0 .. n, j < k PROVE W(j) < W(k)
  <2> DEFINE T == First(j) \cup {o[k]}
  <2>1. /\ First(j) \in SUBSET D /\ First(k) \in SUBSET D /\ o[k] \in D \ First(j)
        /\ T \in SUBSET First(k)
    BY <1>7, <1>8, <1>11
  <2>2. Weight(T) = W(j) + counts[o[k]] /\ W(j) \in Nat /\ W(k) \in Nat
    BY <1>10, <2>1
  <2> HIDE DEF T
  <2>3. IsFiniteSet(First(k)) /\ \A x \in First(k) : counts[x] \in Nat
    BY <1>2, <1>3, <2>1, FS_Subset
  <2>4. SumFunctionOnSet(counts, T) <= SumFunctionOnSet(counts, First(k))
    BY <2>1, <2>3, SumBounds
  <2>5. Weight(T) <= W(k)
    BY <2>4 DEF Weight
  <2>6. counts[o[k]] \in Nat /\ counts[o[k]] >= 1
    BY <1>2, <2>1
  <2> QED
    BY <2>2, <2>5, <2>6
<1>12. W(0) = 0 /\ W(n) = Weight(D)
  BY <1>6, <1>10
<1>13. \A k \in 0 .. n : W(k) \in Nat
  BY <1>7, <1>10
<1> QED
  BY <1>11, <1>12, <1>13 DEF First, D

\* The loop of shannon_fano_encode breaks where the two groups are closest, and
\* never takes all symbols.
LEMMA SplitIsClosest ==
    ASSUME TableInv, NEW o \in Seq(Symbol), Once(o, Symbol),
           ToSet(o) \subseteq DOMAIN counts, Len(o) > 2
    PROVE  \A k \in 1 .. Len(o) - 1 : Imbalance(o, SplitPoint(o)) <= Imbalance(o, k)
<1> DEFINE n == Len(o)
           t == Weight(ToSet(o))
           W(k) == Weight(ToSet(SubSeq(o, 1, k)))
           I(k) == Imbalance(o, k)
           J == {j \in 1 .. n : \A i \in 1 .. j : I(i) <= I(i - 1)}
           S == {1} \cup J
           m == Max(S)
<1>1. n \in Nat /\ n > 2
  BY LenProperties
<1>2. /\ W(0) = 0 /\ W(n) = t
      /\ \A k \in 0 .. n : W(k) \in Nat
      /\ \A j, k \in 0 .. n : j < k => W(j) < W(k)
  BY RunningWeight
<1>3. \A k \in 0 .. n : I(k) = IF 2 * W(k) - t < 0 THEN t - 2 * W(k) ELSE 2 * W(k) - t
  BY <1>1, <1>2 DEF Imbalance, Abs
<1>4. SplitPoint(o) = IF m = n THEN 1 + (n - 1) \div 2 ELSE m
  BY DEF SplitPoint
<1> HIDE DEF W, I, t, n
<1>5. t \in Nat /\ 0 \in 0 .. n /\ 1 \in 0 .. n /\ n \in 0 .. n /\ n - 1 \in 0 .. n
  BY <1>1, <1>2
<1>6. 1 \in J
  <2>1. W(1) < t /\ W(1) > 0 /\ W(1) \in Nat
    BY <1>1, <1>2, <1>5
  <2>2. I(1) <= I(0)
    <3>1. /\ I(1) = IF 2 * W(1) - t < 0 THEN t - 2 * W(1) ELSE 2 * W(1) - t
          /\ I(0) = IF 2 * 0 - t < 0 THEN t - 2 * 0 ELSE 2 * 0 - t
      BY <1>2, <1>3, <1>5
    <3>2. I(0) = t
      BY <1>5, <3>1
    <3> QED
      BY <1>5, <2>1, <3>1, <3>2
  <2>3. \A i \in 1 .. 1 : i = 1 /\ i - 1 = 0
    OBVIOUS
  <2> QED
    BY <1>1, <2>2, <2>3
<1>7. n \notin J
  <2>1. W(n - 1) < t /\ W(n - 1) > 0 /\ W(n - 1) \in Nat
    BY <1>1, <1>2, <1>5
  <2>2. I(n) = t /\ I(n - 1) < t
    <3> DEFINE a == W(n - 1)
    <3>1. /\ I(n - 1) = IF 2 * a - t < 0 THEN t - 2 * a ELSE 2 * a - t
          /\ I(n) = IF 2 * t - t < 0 THEN t - 2 * t ELSE 2 * t - t
      BY <1>2, <1>3, <1>5
    <3>2. a \in Nat /\ a < t /\ a > 0
      BY <2>1
    <3> HIDE DEF a
    <3>3. I(n) = t
      BY <1>5, <3>1
    <3> QED
      BY <1>5, <3>1, <3>2, <3>3
  <2>3. I(n - 1) \in Int
    BY <1>3, <1>5, <2>1
  <2>4. ~(I(n) <= I(n - 1)) /\ n \in 1 .. n
    BY <1>1, <1>5, <2>2, <2>3
  <2> QED
    BY <2>4
<1>8. S = J /\ J \subseteq 1 .. n
  BY <1>6
<1>9. /\ m \in J
      /\ \A y \in J : y <= m
  <2>1. IsFiniteSet(1 .. n)
    BY <1>1, FS_Interval
  <2> HIDE DEF J, S
  <2>2. IsFiniteSet(S) /\ S # {} /\ S \in SUBSET Nat
    <3>1. S \in SUBSET (1 .. n) /\ 1 \in S
      BY <1>6, <1>8
    <3>2. IsFiniteSet(S)
      BY <2>1, <3>1, FS_Subset
    <3> QED
      BY <3>1, <3>2
  <2>3. m \in S /\ \A y \in S : y <= m
    BY <2>2, MaxFacts
  <2> QED
    BY <1>8, <2>3
<1> HIDE DEF m
<1>10. m \in 1 .. n - 1 /\ SplitPoint(o) = m
  <2>1. m \in 1 .. n /\ m # n
    BY <1>7, <1>9
  <2> QED
    BY <1>1, <1>4, <2>1
<1>11. I(m) <= I(m - 1)
  <2>1. m \in 1 .. m
    BY <1>1, <1>10
  <2> QED
    BY <1>9, <2>1
<1>12. ~(I(m + 1) <= I(m))
  <2>1. m + 1 \notin J
    <3> HIDE DEF J
    <3>1. ~(m + 1 <= m)
      BY <1>1, <1>10
    <3> QED
      BY <1>9, <3>1
  <2> SUFFICES ASSUME I(m + 1) <= I(m) PROVE m + 1 \in J
    BY <2>1
  <2>2. \A i \in 1 .. m + 1 : i \in 1 .. m \/ (i = m + 1 /\ i - 1 = m)
    BY <1>1, <1>10
  <2>3. \A i \in 1 .. m : I(i) <= I(i - 1)
    BY <1>9
  <2>4. m + 1 \in 1 .. n
    BY <1>1, <1>10
  <2>5. \A i \in 1 .. m + 1 : I(i) <= I(i - 1)
    BY <2>2, <2>3
  <2> QED
    BY <2>4, <2>5
<1> HIDE DEF J, S
<1>13. ASSUME NEW k \in 1 .. n - 1 PROVE I(m) <= I(k)
  <2>1. k \in 0 .. n /\ m \in 0 .. n /\ m - 1 \in 0 .. n /\ m + 1 \in 0 .. n
    BY <1>1, <1>10
  <2> DEFINE a == W(m - 1)
             b == W(m)
             c == W(m + 1)
             x == W(k)
  <2>2. /\ a \in Nat /\ b \in Nat /\ c \in Nat /\ x \in Nat
        /\ a < b /\ b < c
    BY <1>1, <1>2, <1>10, <2>1
  <2>3. k = m \/ x = a \/ x < a \/ x = c \/ x > c
    <3>1. k = m \/ k = m - 1 \/ k < m - 1 \/ k = m + 1 \/ k > m + 1
      BY <1>1, <1>10
    <3> QED
      BY <1>2, <2>1, <3>1
  <2>4. /\ I(m - 1) = IF 2 * a - t < 0 THEN t - 2 * a ELSE 2 * a - t
        /\ I(m) = IF 2 * b - t < 0 THEN t - 2 * b ELSE 2 * b - t
        /\ I(m + 1) = IF 2 * c - t < 0 THEN t - 2 * c ELSE 2 * c - t
        /\ I(k) = IF 2 * x - t < 0 THEN t - 2 * x ELSE 2 * x - t
    BY <1>3, <2>1
  <2> HIDE DEF a, b, c, x
  <2>5. 2 * a < t /\ t < 2 * c
    BY <1>5, <1>11, <1>12, <2>2, <2>4
  <2>6. I(m) \in Nat
    BY <1>5, <2>2, <2>4
  <2>7. CASE x <= a
    BY <1>5, <1>11, <2>2, <2>4, <2>5, <2>7
  <2>8. CASE x >= c
    BY <1>5, <1>12, <2>2, <2>4, <2>5, <2>8
  <2> QED
    BY <2>2, <2>3, <2>6, <2>7, <2>8
<1> QED
  BY <1>10, <1>13 DEF I, n

\* Every call of shannon_fano_encode divides its symbols where their weights are
\* closest.
THEOREM SplitsAreClosest ==
    Spec => []ClosestSplit
<1>1. CodesInv => ClosestSplit
  <2> SUFFICES ASSUME CodesInv, stage = "encode", NEW call \in ToSet(calls),
                      Len(call.symbols) > 2
               PROVE  \A k \in 1 .. Len(call.symbols) - 1 :
                          Imbalance(call.symbols, SplitPoint(call.symbols))
                              <= Imbalance(call.symbols, k)
    BY DEF ClosestSplit
  <2>1. /\ TableInv /\ call.symbols \in Seq(Symbol) /\ Once(call.symbols, Symbol)
        /\ ToSet(call.symbols) \subseteq DOMAIN counts
    BY DEF CodesInv, CallsInv, IsCall, Call
  <2> QED
    BY <2>1, SplitIsClosest
<1> QED
  BY <1>1, CodesInvariance, PTL

-----------------------------------------------------------------------------
(* Huffman's exchange argument. *)

\* The words of k bits that codes of the lengths g begin.
Share(g, P, k) == SumFunctionOnSet([n \in P |-> 2^(k - g[n])], P)

\* Kraft's inequality: they are not more than there are.
Kraft(g, P, k) == (\A n \in P : g[n] <= k) /\ Share(g, P, k) <= 2^k

\* The bits of codes of the lengths g for elements of the weights w.
Pay(w, g, P) == SumFunctionOnSet([n \in P |-> w[n] * g[n]], P)

\* Functions into the numbers that differ at two elements only.
Differ(e, f, S, a, b) == /\ \A x \in S : f[x] \in Nat /\ e[x] \in Nat
                         /\ \A x \in S \ {a, b} : e[x] = f[x]

\* Two terms of a sum are changed.
LEMMA SumChanged ==
    ASSUME NEW S, IsFiniteSet(S), NEW f, NEW e, NEW a \in S, NEW b \in S, a # b,
           Differ(e, f, S, a, b)
    PROVE  /\ SumFunctionOnSet(e, S) \in Nat
           /\ SumFunctionOnSet(f, S) \in Nat
           /\ SumFunctionOnSet(e, S) + f[a] + f[b] = SumFunctionOnSet(f, S) + e[a] + e[b]
<1> DEFINE T == S \ {a, b}
<1>1. /\ \A x \in S : f[x] \in Nat /\ e[x] \in Nat
      /\ \A x \in T : e[x] = f[x]
  BY DEF Differ
<1>2. /\ SumFunctionOnSet(f, T) \in Nat
      /\ SumFunctionOnSet(f, S) = SumFunctionOnSet(f, T) + f[a] + f[b]
  BY <1>1, SumTwo
<1>3. /\ SumFunctionOnSet(e, T) \in Nat
      /\ SumFunctionOnSet(e, S) = SumFunctionOnSet(e, T) + e[a] + e[b]
  BY <1>1, SumTwo
<1>4. SumFunctionOnSet(e, T) = SumFunctionOnSet(f, T)
  <2>1. /\ IsFiniteSet(T) /\ \A x \in T : f[x] \in Nat
        /\ \A x \in T : e[x] = f[x]
    BY <1>1, FS_Subset
  <2> HIDE DEF T
  <2> QED
    BY <2>1, SumAgrees
<1>5. f[a] \in Nat /\ f[b] \in Nat /\ e[a] \in Nat /\ e[b] \in Nat
  BY <1>1
<1> HIDE DEF T
<1> QED
  BY <1>2, <1>3, <1>4, <1>5

\* It is cheaper to give the longer code to the lighter of two.
LEMMA Rearrange ==
    ASSUME NEW a \in Nat, NEW b \in Nat, NEW c \in Nat, NEW d \in Nat, a <= b, c <= d
    PROVE  /\ a * d \in Nat /\ b * c \in Nat /\ a * c \in Nat /\ b * d \in Nat
           /\ a * d + b * c <= a * c + b * d
           /\ a < b /\ c < d => a * d + b * c < a * c + b * d
<1> DEFINE p == b - a
           q == d - c
<1>1. p \in Nat /\ q \in Nat /\ b = a + p /\ d = c + q
  OBVIOUS
<1>2. a < b /\ c < d => p >= 1 /\ q >= 1
  OBVIOUS
<1> HIDE DEF p, q
<1>3. /\ a * d = a * c + a * q
      /\ b * c = a * c + p * c
      /\ b * d = a * c + a * q + p * c + p * q
  BY <1>1
<1>4. /\ a * c \in Nat /\ a * q \in Nat /\ p * c \in Nat /\ p * q \in Nat
  BY <1>1
<1>5. p >= 1 /\ q >= 1 => p * q >= 1
  <2>1. p >= 1 => 1 * q <= p * q
    BY <1>1, ProductMonotone
  <2> QED
    BY <1>1, <1>4, <2>1
<1> QED
  BY <1>2, <1>3, <1>4, <1>5

\* The words a code begins, and those it begins with more bits.
LEMMA PowerGap ==
    ASSUME NEW a \in Nat, NEW m \in Nat, NEW k \in Nat, a <= m, m <= k
    PROVE  /\ 2^(m - a) \in Nat /\ 2^(m - a) >= 1 /\ 2^(k - m) \in Nat /\ 2^(k - m) >= 1
           /\ 2^(k - a) = 2^(k - m) * 2^(m - a)
<1> DEFINE x == m - a
           y == k - m
<1>1. x \in Nat /\ y \in Nat /\ k - a = y + x
  OBVIOUS
<1> HIDE DEF x, y
<1>2. 2^x \in Nat /\ 2^x >= 1 /\ 2^y \in Nat /\ 2^y >= 1 /\ 2^(y + x) = 2^y * 2^x
  BY <1>1, PowerFacts, PowerAdd
<1> QED
  BY <1>1, <1>2 DEF x, y

\* The terms of the two sums are numbers.
LEMMA SumTerms ==
    ASSUME NEW P, IsFiniteSet(P), NEW g \in [P -> Nat], NEW k \in Nat,
           \A n \in P : g[n] <= k, NEW w \in [P -> Nat]
    PROVE  /\ \A n \in P : [p \in P |-> 2^(k - g[p])][n] \in Nat
           /\ \A n \in P : [p \in P |-> 2^(k - g[p])][n] = 2^(k - g[n])
           /\ \A n \in P : [p \in P |-> 2^(k - g[p])][n] >= 1
           /\ \A n \in P : [p \in P |-> w[p] * g[p]][n] \in Nat
           /\ \A n \in P : [p \in P |-> w[p] * g[p]][n] = w[n] * g[n]
           /\ Share(g, P, k) \in Nat
           /\ Pay(w, g, P) \in Nat
<1> DEFINE f == [p \in P |-> 2^(k - g[p])]
           e == [p \in P |-> w[p] * g[p]]
<1>1. ASSUME NEW n \in P PROVE f[n] \in Nat /\ f[n] >= 1 /\ f[n] = 2^(k - g[n])
  <2> DEFINE a == g[n]
  <2>1. a \in Nat /\ a <= k /\ k <= k
    OBVIOUS
  <2> HIDE DEF a
  <2>2. 2^(k - a) \in Nat /\ 2^(k - a) >= 1
    BY <2>1, PowerGap
  <2>3. f[n] = 2^(k - a)
    BY DEF a
  <2> QED
    BY <2>2, <2>3 DEF a
<1>2. ASSUME NEW n \in P PROVE e[n] \in Nat /\ e[n] = w[n] * g[n]
  <2>1. w[n] \in Nat /\ g[n] \in Nat
    OBVIOUS
  <2>2. e[n] = w[n] * g[n]
    OBVIOUS
  <2> QED
    BY <2>1, <2>2
<1>3. SumFunctionOnSet(f, P) \in Nat /\ SumFunctionOnSet(e, P) \in Nat
  <2> HIDE DEF f, e
  <2>1. IsSum(f, P) /\ IsSum(e, P)
    BY <1>1, <1>2, SumLaws
  <2> QED
    BY <2>1, Zenon DEF IsSum
<1> QED
  BY <1>1, <1>2, <1>3 DEF Share, Pay

\* It does not matter how many bits the words have.
LEMMA KraftLevel ==
    ASSUME NEW P, IsFiniteSet(P), NEW g \in [P -> Nat], NEW k \in Nat, Kraft(g, P, k),
           NEW m \in Nat, m <= k, \A n \in P : g[n] <= m
    PROVE  Kraft(g, P, m)
<1> DEFINE f == [p \in P |-> 2^(m - g[p])]
           e == [p \in P |-> 2^(k - g[p])]
           c == 2^(k - m)
           w == [p \in P |-> 0]
<1>1. c \in Nat /\ c >= 1 /\ 2^k = c * 2^m /\ 2^m \in Nat
  <2>1. 0 \in Nat /\ 0 <= m /\ k - 0 = k /\ m - 0 = m
    OBVIOUS
  <2>2. /\ 2^(m - 0) \in Nat /\ 2^(k - m) \in Nat /\ 2^(k - m) >= 1
        /\ 2^(k - 0) = 2^(k - m) * 2^(m - 0)
    BY <2>1, PowerGap
  <2> QED
    BY <2>1, <2>2
<1>2. w \in [P -> Nat]
  OBVIOUS
<1>3. (\A n \in P : f[n] \in Nat /\ f[n] = 2^(m - g[n])) /\ Share(g, P, m) \in Nat
  <2> HIDE DEF w
  <2> QED
    BY <1>2, SumTerms
<1>4. \A n \in P : e[n] = c * f[n]
  <2> SUFFICES ASSUME NEW n \in P PROVE e[n] = c * f[n]
    OBVIOUS
  <2> DEFINE a == g[n]
  <2>1. a \in Nat /\ a <= m
    OBVIOUS
  <2>2. e[n] = 2^(k - a) /\ f[n] = 2^(m - a)
    OBVIOUS
  <2> HIDE DEF a, e, f
  <2>3. 2^(k - a) = c * 2^(m - a)
    BY <2>1, PowerGap
  <2> QED
    BY <2>2, <2>3
<1> HIDE DEF e, f, c, w
<1>5. SumFunctionOnSet(e, P) = c * SumFunctionOnSet(f, P)
  BY <1>1, <1>3, <1>4, SumScale
<1> DEFINE x == Share(g, P, m)
           y == 2^m
<1>6. c * x <= c * y
  <2>1. Share(g, P, k) = c * x /\ Share(g, P, k) <= 2^k
    BY <1>5 DEF Share, Kraft, e, f
  <2> QED
    BY <1>1, <2>1
<1>7. x \in Nat /\ y \in Nat
  BY <1>1, <1>3
<1> HIDE DEF x, y
<1>8. x * c = c * x /\ y * c = c * y
  BY <1>1, <1>7
<1>9. x <= y
  BY <1>1, <1>6, <1>7, <1>8, ProductCancel
<1> QED
  BY <1>9 DEF Kraft, x, y

\* Two elements swap their codes.
Swapped(g, h, P, x, y) == /\ h \in [P -> Nat]
                          /\ h[x] = g[y] /\ h[y] = g[x]
                          /\ \A n \in P \ {x, y} : h[n] = g[n]

\* No word is used twice then, and if the lighter gets the longer code, the bits
\* are not more.
LEMMA SwapCodes ==
    ASSUME NEW P, IsFiniteSet(P), NEW g \in [P -> Nat], NEW k \in Nat, Kraft(g, P, k),
           NEW w \in [P -> Nat], NEW x \in P, NEW y \in P, w[x] <= w[y], g[x] <= g[y]
    PROVE  \E h : /\ Swapped(g, h, P, x, y)
                  /\ Kraft(h, P, k)
                  /\ SumFunctionOnSet(h, P) = SumFunctionOnSet(g, P)
                  /\ Pay(w, h, P) <= Pay(w, g, P)
                  /\ w[x] < w[y] /\ g[x] < g[y] => Pay(w, h, P) < Pay(w, g, P)
<1> DEFINE h == [n \in P |-> IF n = x THEN g[y] ELSE IF n = y THEN g[x] ELSE g[n]]
<1>1. /\ Swapped(g, h, P, x, y) /\ h \in [P -> Nat]
      /\ h[x] = g[y] /\ h[y] = g[x]
      /\ \A n \in P \ {x, y} : h[n] = g[n]
  BY DEF Swapped
<1>2. /\ \A n \in P : g[n] \in Nat /\ g[n] <= k /\ w[n] \in Nat
      /\ Share(g, P, k) <= 2^k
  BY DEF Kraft
<1> HIDE DEF h
<1>3. \A n \in P : h[n] <= k
  BY <1>1, <1>2
<1>4. Share(g, P, k) \in Nat /\ Pay(w, g, P) \in Nat
  BY <1>2, SumTerms
<1>5. CASE x = y
  <2>1. h = g
    BY <1>1, <1>5
  <2> QED
    BY <1>1, <1>4, <1>5, <2>1
<1>6. CASE x # y
  <2>1. SumFunctionOnSet(h, P) = SumFunctionOnSet(g, P)
    <3>1. /\ SumFunctionOnSet(h, P) \in Nat
          /\ SumFunctionOnSet(g, P) \in Nat
          /\ SumFunctionOnSet(h, P) + g[x] + g[y] = SumFunctionOnSet(g, P) + h[x] + h[y]
      <4>1. Differ(h, g, P, x, y)
        BY <1>1, <1>2 DEF Differ
      <4> QED
        BY <1>6, <4>1, SumChanged
    <3> DEFINE a == SumFunctionOnSet(h, P)
               b == SumFunctionOnSet(g, P)
    <3> HIDE DEF a, b
    <3>2. a \in Nat /\ b \in Nat /\ a + g[x] + g[y] = b + g[y] + g[x]
      BY <1>1, <3>1 DEF a, b
    <3>3. a = b
      BY <1>2, <3>2
    <3> QED
      BY <3>3 DEF a, b
  <2>2. Share(h, P, k) = Share(g, P, k)
    <3> DEFINE f == [p \in P |-> 2^(k - g[p])]
               e == [p \in P |-> 2^(k - h[p])]
    <3>1. \A n \in P : f[n] \in Nat /\ f[n] = 2^(k - g[n])
      BY <1>2, SumTerms
    <3>2. \A n \in P : e[n] \in Nat /\ e[n] = 2^(k - h[n])
      BY <1>1, <1>3, SumTerms
    <3>3. Share(g, P, k) = SumFunctionOnSet(f, P) /\ Share(h, P, k) = SumFunctionOnSet(e, P)
      BY DEF Share
    <3> HIDE DEF e, f
    <3>4. /\ e[x] = f[y] /\ e[y] = f[x]
          /\ \A n \in P \ {x, y} : e[n] = f[n]
      BY <1>1, <3>1, <3>2
    <3> DEFINE a == SumFunctionOnSet(e, P)
               b == SumFunctionOnSet(f, P)
    <3>5. a \in Nat /\ b \in Nat /\ a + f[x] + f[y] = b + e[x] + e[y]
      <4>1. Differ(e, f, P, x, y)
        BY <3>1, <3>2, <3>4 DEF Differ
      <4> QED
        BY <1>6, <4>1, SumChanged
    <3> HIDE DEF a, b
    <3>6. a = b
      BY <3>1, <3>4, <3>5
    <3> QED
      BY <3>3, <3>6 DEF a, b
  <2>3. /\ Pay(w, h, P) <= Pay(w, g, P)
        /\ w[x] < w[y] /\ g[x] < g[y] => Pay(w, h, P) < Pay(w, g, P)
    <3> DEFINE f == [p \in P |-> w[p] * g[p]]
               e == [p \in P |-> w[p] * h[p]]
    <3>1. \A n \in P : f[n] \in Nat /\ f[n] = w[n] * g[n]
      BY <1>2, SumTerms
    <3>2. \A n \in P : e[n] \in Nat /\ e[n] = w[n] * h[n]
      BY <1>1, <1>3, SumTerms
    <3>3. Pay(w, g, P) = SumFunctionOnSet(f, P) /\ Pay(w, h, P) = SumFunctionOnSet(e, P)
      BY DEF Pay
    <3> HIDE DEF e, f
    <3>4. \A n \in P \ {x, y} : e[n] = f[n]
      BY <1>1, <3>1, <3>2
    <3> DEFINE a == SumFunctionOnSet(e, P)
               b == SumFunctionOnSet(f, P)
    <3>5. a \in Nat /\ b \in Nat /\ a + f[x] + f[y] = b + e[x] + e[y]
      <4>1. Differ(e, f, P, x, y)
        BY <3>1, <3>2, <3>4 DEF Differ
      <4> QED
        BY <1>6, <4>1, SumChanged
    <3> HIDE DEF a, b
    <3>6. /\ f[x] = w[x] * g[x] /\ f[y] = w[y] * g[y]
          /\ e[x] = w[x] * g[y] /\ e[y] = w[y] * g[x]
      BY <1>1, <3>1, <3>2
    <3>7. /\ w[x] * g[y] + w[y] * g[x] <= w[x] * g[x] + w[y] * g[y]
          /\ w[x] < w[y] /\ g[x] < g[y] =>
                w[x] * g[y] + w[y] * g[x] < w[x] * g[x] + w[y] * g[y]
      BY <1>2, Rearrange
    <3>8. /\ e[x] + e[y] <= f[x] + f[y]
          /\ w[x] < w[y] /\ g[x] < g[y] => e[x] + e[y] < f[x] + f[y]
      BY <3>6, <3>7
    <3>9. f[x] \in Nat /\ f[y] \in Nat /\ e[x] \in Nat /\ e[y] \in Nat
      BY <3>1, <3>2
    <3>10. a <= b /\ (w[x] < w[y] /\ g[x] < g[y] => a < b)
      BY <3>5, <3>8, <3>9
    <3> QED
      BY <3>3, <3>10 DEF a, b
  <2>4. Kraft(h, P, k)
    BY <1>2, <1>3, <2>2 DEF Kraft
  <2> QED
    BY <1>1, <2>1, <2>3, <2>4
<1> QED
  BY <1>5, <1>6

\* The sum, with one term set apart.
LEMMA SumWithout ==
    ASSUME NEW S, IsFiniteSet(S), NEW f, \A x \in S : f[x] \in Nat, NEW a \in S
    PROVE  /\ SumFunctionOnSet(f, S \ {a}) \in Nat
           /\ SumFunctionOnSet(f, S) \in Nat
           /\ SumFunctionOnSet(f, S) = SumFunctionOnSet(f, S \ {a}) + f[a]
<1> DEFINE T == S \ {a}
<1>1. IsSum(f, S)
  BY SumLaws
<1>2. T \in SUBSET S /\ a \in S \ T /\ S = T \cup {a} /\ S \in SUBSET S
  OBVIOUS
<1> HIDE DEF T
<1>3. SumFunctionOnSet(f, T) \in Nat /\ SumFunctionOnSet(f, S) \in Nat
  BY <1>1, <1>2, Zenon DEF IsSum
<1>4. SumFunctionOnSet(f, T \cup {a}) = SumFunctionOnSet(f, T) + f[a]
  BY <1>1, <1>2, Zenon DEF IsSum
<1> QED
  BY <1>2, <1>3, <1>4 DEF T

\* A code that alone is the longest can lose a bit: the other codes leave an even
\* number of its words, so they leave two.
LEMMA ShortenLongest ==
    ASSUME NEW P, IsFiniteSet(P), NEW g \in [P -> Nat], NEW a \in P, NEW b \in P, a # b,
           Kraft(g, P, g[a]), \A n \in P \ {a} : g[n] < g[a], NEW w \in [P -> Nat]
    PROVE  \E h : /\ h \in [P -> Nat] /\ \E k \in Nat : Kraft(h, P, k)
                  /\ SumFunctionOnSet(h, P) < SumFunctionOnSet(g, P)
                  /\ Pay(w, h, P) <= Pay(w, g, P)
<1> DEFINE M == g[a]
           m == M - 1
           h == [n \in P |-> IF n = a THEN m ELSE g[n]]
           T == P \ {a}
<1>1. M \in Nat /\ m \in Nat /\ M = m + 1
  <2>1. g[b] \in Nat /\ g[b] < M /\ M \in Nat
    OBVIOUS
  <2> QED
    BY <2>1
<1>2. /\ h \in [P -> Nat] /\ h[a] = m
      /\ \A n \in T : h[n] = g[n]
  BY <1>1
<1>3. \A n \in T : g[n] \in Nat /\ g[n] <= m
  BY <1>1
<1>4. g[a] = M
  OBVIOUS
<1>5. T \subseteq P /\ a \in P /\ a \notin T /\ P = T \cup {a}
  OBVIOUS
<1>6. IsFiniteSet(T)
  BY FS_Subset
<1> HIDE DEF M, m, h
<1>7. (\A n \in P : h[n] <= m) /\ (\A n \in P : g[n] <= M)
  BY <1>1, <1>2, <1>3, <1>4
<1>8. SumFunctionOnSet(h, P) < SumFunctionOnSet(g, P)
  <2>1. /\ SumFunctionOnSet(h, P) = SumFunctionOnSet(h, T) + h[a]
        /\ SumFunctionOnSet(g, P) = SumFunctionOnSet(g, T) + g[a]
        /\ SumFunctionOnSet(h, T) \in Nat
    BY <1>2, SumWithout
  <2>2. SumFunctionOnSet(h, T) = SumFunctionOnSet(g, T)
    <3> HIDE DEF T
    <3> QED
      BY <1>2, <1>3, <1>6, SumAgrees
  <2> QED
    BY <1>1, <1>2, <1>4, <2>1, <2>2
<1>9. Pay(w, h, P) <= Pay(w, g, P)
  <2> DEFINE f == [p \in P |-> w[p] * g[p]]
             e == [p \in P |-> w[p] * h[p]]
  <2>1. \A n \in P : f[n] \in Nat /\ f[n] = w[n] * g[n]
    BY <1>7, <1>1, SumTerms
  <2>2. \A n \in P : e[n] \in Nat /\ e[n] = w[n] * h[n]
    BY <1>7, <1>1, <1>2, SumTerms
  <2>3. Pay(w, g, P) = SumFunctionOnSet(f, P) /\ Pay(w, h, P) = SumFunctionOnSet(e, P)
    BY DEF Pay
  <2> HIDE DEF e, f
  <2>4. /\ SumFunctionOnSet(e, P) = SumFunctionOnSet(e, T) + e[a]
        /\ SumFunctionOnSet(f, P) = SumFunctionOnSet(f, T) + f[a]
        /\ SumFunctionOnSet(f, T) \in Nat
    BY <2>1, <2>2, SumWithout
  <2>5. SumFunctionOnSet(e, T) = SumFunctionOnSet(f, T)
    <3>1. \A n \in T : f[n] \in Nat /\ e[n] = f[n]
      BY <1>2, <1>5, <2>1, <2>2
    <3> HIDE DEF T
    <3> QED
      BY <1>6, <3>1, SumAgrees
  <2>6. e[a] <= f[a] /\ e[a] \in Nat /\ f[a] \in Nat
    <3>1. f[a] = w[a] * M /\ e[a] = w[a] * m /\ w[a] \in Nat /\ f[a] \in Nat /\ e[a] \in Nat
      BY <1>2, <1>4, <2>1, <2>2
    <3>2. w[a] * M = w[a] * m + w[a]
      BY <1>1, <3>1
    <3> QED
      BY <3>1, <3>2
  <2> QED
    BY <2>3, <2>4, <2>5, <2>6
<1>10. Kraft(h, P, m)
  <2> DEFINE f == [p \in P |-> 2^(M - g[p])]
             e == [p \in P |-> 2^(m - h[p])]
             x == SumFunctionOnSet(e, T)
             y == 2^m
  <2>1. /\ \A n \in P : f[n] \in Nat
        /\ \A n \in P : f[n] = 2^(M - g[n])
    BY <1>7, <1>1, SumTerms
  <2>2. /\ \A n \in P : e[n] \in Nat
        /\ \A n \in P : e[n] = 2^(m - h[n])
    BY <1>7, <1>1, <1>2, SumTerms
  <2>3. Share(g, P, M) = SumFunctionOnSet(f, P) /\ Share(h, P, m) = SumFunctionOnSet(e, P)
    BY DEF Share
  <2> HIDE DEF e, f
  <2>4. /\ SumFunctionOnSet(e, P) = SumFunctionOnSet(e, T) + e[a]
        /\ SumFunctionOnSet(f, P) = SumFunctionOnSet(f, T) + f[a]
        /\ SumFunctionOnSet(e, T) \in Nat
    BY <2>1, <2>2, SumWithout
  <2>5. y \in Nat /\ 2^M = 2 * y /\ 2^0 = 1
    BY <1>1, PowerFacts
  <2>6. e[a] = 1 /\ f[a] = 1
    <3>1. M - M = 0 /\ m - m = 0
      BY <1>1
    <3> QED
      BY <1>2, <1>4, <2>1, <2>2, <2>5, <3>1
  <2>7. \A n \in T : f[n] = 2 * e[n]
    <3> SUFFICES ASSUME NEW n \in T PROVE f[n] = 2 * e[n]
      OBVIOUS
    <3> DEFINE c == g[n]
    <3>1. f[n] = 2^(M - c) /\ e[n] = 2^(m - c)
      BY <1>2, <2>1, <2>2
    <3>2. c \in Nat /\ c <= m
      BY <1>3
    <3> HIDE DEF c
    <3>3. m - c \in Nat /\ M - c = (m - c) + 1
      BY <1>1, <3>2
    <3>4. 2^((m - c) + 1) = 2 * 2^(m - c)
      BY <3>3, PowerFacts
    <3> QED
      BY <3>1, <3>3, <3>4
  <2>8. SumFunctionOnSet(f, T) = 2 * SumFunctionOnSet(e, T)
    <3>1. \A n \in T : e[n] \in Nat
      BY <2>2
    <3> HIDE DEF T
    <3> QED
      BY <1>6, <2>7, <3>1, SumScale
  <2>9. 2 * x + 1 <= 2 * y
    <3>1. Share(g, P, M) <= 2^M
      BY DEF Kraft, M
    <3> QED
      BY <2>3, <2>4, <2>5, <2>6, <2>8, <3>1
  <2>10. Share(h, P, m) = x + 1 /\ x \in Nat
    BY <2>3, <2>4, <2>6
  <2> HIDE DEF x, T
  <2>11. y \in Nat
    BY <2>5
  <2>12. x + 1 <= y
    <3> HIDE DEF y
    <3> QED
      BY <2>9, <2>10, <2>11
  <2> QED
    BY <1>7, <2>10, <2>12 DEF Kraft
<1> QED
  BY <1>1, <1>2, <1>8, <1>9, <1>10

\* Lengths of a prefix code that cost at most c bits.
Affordable(h, w, P, c) == /\ h \in [P -> Nat] /\ \E k \in Nat : Kraft(h, P, k)
                          /\ Pay(w, h, P) <= c

\* Some such lengths add up to no more than any others.
LEMMA ShortestCodes ==
    ASSUME NEW P, IsFiniteSet(P), NEW w, NEW c, NEW g, Affordable(g, w, P, c)
    PROVE  \E h : /\ Affordable(h, w, P, c)
                  /\ \A i : Affordable(i, w, P, c) =>
                                SumFunctionOnSet(h, P) <= SumFunctionOnSet(i, P)
<1> DEFINE F == {h \in [P -> Nat] : Affordable(h, w, P, c)}
           N == {SumFunctionOnSet(h, P) : h \in F}
<1>1. \A h : Affordable(h, w, P, c) => h \in F
  BY DEF Affordable
<1>2. ASSUME NEW h \in F PROVE SumFunctionOnSet(h, P) \in Nat
  <2>1. \A n \in P : h[n] \in Nat
    OBVIOUS
  <2>2. IsSum(h, P) /\ P \in SUBSET P
    BY <2>1, SumLaws
  <2> QED
    BY <2>2, Zenon DEF IsSum
<1>3. N \in SUBSET Nat /\ N # {}
  BY <1>1, <1>2
<1>4. PICK x \in N : \A y \in N : x <= y
  <2> HIDE DEF N
  <2> QED
    BY <1>3, FirstPosition
<1>5. PICK h \in F : x = SumFunctionOnSet(h, P)
  BY <1>4
<1>6. \A i : Affordable(i, w, P, c) => SumFunctionOnSet(h, P) <= SumFunctionOnSet(i, P)
  BY <1>1, <1>4, <1>5
<1> QED
  BY <1>5, <1>6

\* An element of a finite set has the longest code.
LEMMA LongestElement ==
    ASSUME NEW P, IsFiniteSet(P), P # {}, NEW g \in [P -> Nat]
    PROVE  \E x \in P : \A n \in P : g[n] <= g[x]
<1> DEFINE T == {g[n] : n \in P}
<1>1. T \in SUBSET Nat /\ T # {} /\ g \in [P -> T] /\ \A t \in T : \E n \in P : g[n] = t
  OBVIOUS
<1>2. \A n \in P : g[n] \in T
  OBVIOUS
<1> HIDE DEF T
<1>3. IsFiniteSet(T)
  BY <1>1, FiniteImage
<1>4. PICK t \in T : \A u \in T : u <= t
  BY <1>1, <1>3, GreatestExists
<1>5. PICK x \in P : g[x] = t
  BY <1>1
<1> QED
  BY <1>2, <1>4, <1>5

\* Lengths that nobody can shorten, in which the elements a and b have the longest.
LEMMA DeepestPair ==
    ASSUME NEW P, IsFiniteSet(P), NEW w \in [P -> Nat], NEW a \in P, NEW b \in P, a # b,
           \A n \in P : w[a] <= w[n], \A n \in P \ {a} : w[b] <= w[n],
           NEW c \in Nat, NEW g, Affordable(g, w, P, c)
    PROVE  \E h : /\ Affordable(h, w, P, c)
                  /\ \A n \in P : h[n] <= h[a]
                  /\ \A n \in P \ {a} : h[n] <= h[b]
                  /\ \A i : Affordable(i, w, P, c) =>
                                SumFunctionOnSet(h, P) <= SumFunctionOnSet(i, P)
<1>1. PICK e : /\ Affordable(e, w, P, c)
               /\ \A i : Affordable(i, w, P, c) =>
                             SumFunctionOnSet(e, P) <= SumFunctionOnSet(i, P)
  BY ShortestCodes, Zenon
<1>2. e \in [P -> Nat] /\ Pay(w, e, P) <= c
  BY <1>1 DEF Affordable
<1>3. PICK k \in Nat : Kraft(e, P, k)
  BY <1>1 DEF Affordable
<1>4. PICK x \in P : \A n \in P : e[n] <= e[x]
  BY <1>2, LongestElement
<1>5. PICK f : /\ Swapped(e, f, P, a, x)
               /\ Kraft(f, P, k)
               /\ SumFunctionOnSet(f, P) = SumFunctionOnSet(e, P)
               /\ Pay(w, f, P) <= Pay(w, e, P)
  <2>1. w[a] <= w[x] /\ e[a] <= e[x]
    BY <1>4
  <2> QED
    BY <1>2, <1>3, <2>1, SwapCodes
<1>6. f \in [P -> Nat] /\ f[a] = e[x] /\ f[x] = e[a] /\ \A n \in P \ {a, x} : f[n] = e[n]
  BY <1>5 DEF Swapped
<1>7. \A n \in P : f[n] <= f[a]
  BY <1>2, <1>4, <1>6
<1> DEFINE T == P \ {a}
<1>8. PICK y \in T : \A n \in T : f[n] <= f[y]
  <2> DEFINE d == [n \in T |-> f[n]]
  <2>1. d \in [T -> Nat] /\ b \in T
    BY <1>6
  <2>2. IsFiniteSet(T)
    BY FS_Subset
  <2>3. \E y \in T : \A n \in T : d[n] <= d[y]
    <3> HIDE DEF T, d
    <3> QED
      BY <2>1, <2>2, LongestElement
  <2> QED
    BY <2>3
<1>9. PICK h : /\ Swapped(f, h, P, b, y)
               /\ Kraft(h, P, k)
               /\ SumFunctionOnSet(h, P) = SumFunctionOnSet(f, P)
               /\ Pay(w, h, P) <= Pay(w, f, P)
  <2>1. y \in P /\ w[b] <= w[y] /\ f[b] <= f[y]
    BY <1>8
  <2> QED
    BY <1>5, <1>6, <2>1, SwapCodes
<1>10. h \in [P -> Nat] /\ h[b] = f[y] /\ h[y] = f[b] /\ \A n \in P \ {b, y} : h[n] = f[n]
  BY <1>9 DEF Swapped
<1>11. (\A n \in P : h[n] <= h[a]) /\ (\A n \in P \ {a} : h[n] <= h[b])
  <2>1. y \in P /\ y # a /\ h[a] = f[a]
    BY <1>8, <1>10
  <2>2. \A n \in T : h[n] <= h[b] /\ h[n] <= h[a]
    BY <1>6, <1>7, <1>8, <1>10, <2>1
  <2>3. h[a] <= h[a]
    BY <1>10
  <2> QED
    BY <2>2, <2>3
<1>12. Affordable(h, w, P, c)
  <2>1. Pay(w, e, P) \in Nat /\ Pay(w, f, P) \in Nat /\ Pay(w, h, P) \in Nat
    <3>1. (\A n \in P : e[n] <= k) /\ (\A n \in P : f[n] <= k) /\ (\A n \in P : h[n] <= k)
      BY <1>3, <1>5, <1>9 DEF Kraft
    <3> QED
      BY <1>2, <1>6, <1>10, <3>1, SumTerms
  <2>2. Pay(w, h, P) <= c
    BY <1>2, <1>5, <1>9, <2>1
  <2> QED
    BY <1>9, <1>10, <2>2 DEF Affordable
<1>13. SumFunctionOnSet(h, P) = SumFunctionOnSet(e, P)
  BY <1>5, <1>9
<1> QED
  BY <1>1, <1>11, <1>12, <1>13

\* No element weighs less than a, and none but a less than b.
AreLightest(w, P, a, b) == /\ \A n \in P : w[a] <= w[n]
                           /\ \A n \in P \ {a} : w[b] <= w[n]

\* a and b have codes of m + 1 bits, others none longer, at c bits in all.
PairDeepest(h, m, w, P, a, b, c) ==
    /\ h \in [P -> Nat] /\ Kraft(h, P, m + 1)
    /\ h[a] = m + 1 /\ h[b] = m + 1
    /\ Pay(w, h, P) <= c

\* The two lightest elements may as well have the longest codes, of one length.
LEMMA Exchange ==
    ASSUME NEW P, IsFiniteSet(P), NEW w \in [P -> Nat], NEW a \in P, NEW b \in P, a # b,
           AreLightest(w, P, a, b), NEW c \in Nat, NEW g, Affordable(g, w, P, c)
    PROVE  \E h : \E m \in Nat : PairDeepest(h, m, w, P, a, b, c)
<1>1. PICK h : /\ Affordable(h, w, P, c)
               /\ \A n \in P : h[n] <= h[a]
               /\ \A n \in P \ {a} : h[n] <= h[b]
               /\ \A i : Affordable(i, w, P, c) =>
                             SumFunctionOnSet(h, P) <= SumFunctionOnSet(i, P)
  <2>1. (\A n \in P : w[a] <= w[n]) /\ (\A n \in P \ {a} : w[b] <= w[n])
    BY DEF AreLightest
  <2> QED
    BY <2>1, DeepestPair, Zenon
<1>2. h \in [P -> Nat] /\ Pay(w, h, P) <= c
  BY <1>1 DEF Affordable
<1>3. PICK k \in Nat : Kraft(h, P, k)
  BY <1>1 DEF Affordable
<1> DEFINE M == h[a]
<1>4. M \in Nat /\ h[b] \in Nat /\ M <= k /\ h[b] <= M
  BY <1>1, <1>2, <1>3 DEF Kraft
<1>5. Kraft(h, P, M)
  <2>1. \A n \in P : h[n] <= M
    BY <1>1
  <2> HIDE DEF M
  <2> QED
    BY <1>2, <1>3, <1>4, <2>1, KraftLevel
<1>6. h[b] = M
  <2> SUFFICES ASSUME h[b] < M PROVE FALSE
    BY <1>4
  <2>1. \A n \in P \ {a} : h[n] < M
    BY <1>1, <1>2, <1>4
  <2>2. PICK i : /\ i \in [P -> Nat] /\ \E j \in Nat : Kraft(i, P, j)
                 /\ SumFunctionOnSet(i, P) < SumFunctionOnSet(h, P)
                 /\ Pay(w, i, P) <= Pay(w, h, P)
    BY <1>2, <1>5, <2>1, ShortenLongest
  <2>3. PICK j \in Nat : Kraft(i, P, j)
    BY <2>2
  <2>4. Pay(w, h, P) \in Nat /\ Pay(w, i, P) \in Nat
    <3>1. (\A n \in P : h[n] <= k) /\ (\A n \in P : i[n] <= j)
      BY <1>3, <2>3 DEF Kraft
    <3> QED
      BY <1>2, <2>2, <3>1, SumTerms
  <2>5. Affordable(i, w, P, c)
    BY <1>2, <2>2, <2>4 DEF Affordable
  <2>6. SumFunctionOnSet(h, P) \in Nat /\ SumFunctionOnSet(i, P) \in Nat
    <3>1. (\A n \in P : h[n] \in Nat) /\ (\A n \in P : i[n] \in Nat)
      BY <1>2, <2>2
    <3> QED
      BY <3>1, SumWithout
  <2> QED
    BY <1>1, <2>2, <2>5, <2>6
<1>7. M # 0
  <2> SUFFICES ASSUME M = 0 PROVE FALSE
    OBVIOUS
  <2> DEFINE f == [p \in P |-> 2^(M - h[p])]
  <2>1. /\ \A n \in P : f[n] \in Nat
        /\ \A n \in P : f[n] >= 1
    <3>1. \A n \in P : h[n] <= M
      BY <1>1
    <3> HIDE DEF M
    <3> QED
      BY <1>2, <1>4, <3>1, SumTerms
  <2>2. SumFunctionOnSet(f, P) <= 2^M
    BY <1>5 DEF Kraft, Share
  <2>3. 2^M = 1
    BY PowerFacts
  <2> HIDE DEF f, M
  <2>4. /\ SumFunctionOnSet(f, P \ {a, b}) \in Nat
        /\ SumFunctionOnSet(f, P) = SumFunctionOnSet(f, P \ {a, b}) + f[a] + f[b]
    BY <2>1, SumTwo
  <2> QED
    BY <2>1, <2>2, <2>3, <2>4
<1> DEFINE m == M - 1
<1>8. m \in Nat /\ M = m + 1
  BY <1>4, <1>7
<1>9. Kraft(h, P, m + 1) /\ h[a] = m + 1 /\ h[b] = m + 1
  <2> HIDE DEF m
  <2> QED
    BY <1>5, <1>6, <1>8
<1>10. PairDeepest(h, m, w, P, a, b, c)
  <2> HIDE DEF m
  <2> QED
    BY <1>2, <1>9 DEF PairDeepest
<1> QED
  BY <1>8, <1>10

-----------------------------------------------------------------------------
(* The trees of build_tree lose nothing.  They are given with the counts c  *)
(* of the table, which do not change while the trees are built.             *)

\* The sum over one element.
LEMMA SumSingle ==
    ASSUME NEW f, NEW x, f[x] \in Nat
    PROVE  SumFunctionOnSet(f, {x}) = f[x]
<1>1. IsFiniteSet({x}) /\ \A y \in {x} : f[y] \in Nat
  BY FS_Singleton
<1>2. IsSum(f, {x})
  BY <1>1, SumLaws
<1>3. SumFunctionOnSet(f, {}) = 0
  BY <1>2, Zenon DEF IsSum
<1>4. {x} \ {x} = {} /\ x \in {x}
  OBVIOUS
<1>5. SumFunctionOnSet(f, {x}) = SumFunctionOnSet(f, {}) + f[x]
  BY <1>1, <1>4, SumWithout
<1> QED
  BY <1>3, <1>5

\* One term takes the place of two that add up to it.
Replaces(e, f, P, a, b, q) ==
    /\ \A n \in P : f[n] \in Nat
    /\ \A n \in P \ {a, b} : e[n] = f[n]
    /\ e[q] = f[a] + f[b]

\* The sum stays the same.
LEMMA SumReplaced ==
    ASSUME NEW P, IsFiniteSet(P), NEW a \in P, NEW b \in P, a # b, NEW q,
           q \notin P \ {a, b}, NEW f, NEW e, Replaces(e, f, P, a, b, q)
    PROVE  SumFunctionOnSet(e, (P \ {a, b}) \cup {q}) = SumFunctionOnSet(f, P)
<1> DEFINE T == P \ {a, b}
           Q == T \cup {q}
<1>1. /\ \A n \in P : f[n] \in Nat
      /\ \A n \in T : f[n] \in Nat
      /\ \A n \in T : e[n] = f[n]
      /\ e[q] = f[a] + f[b] /\ f[a] \in Nat /\ f[b] \in Nat
  BY DEF Replaces
<1>2. \A n \in Q : e[n] \in Nat
  BY <1>1
<1>3. IsFiniteSet(T) /\ IsFiniteSet(Q)
  <2>1. IsFiniteSet(T)
    BY FS_Subset
  <2> HIDE DEF T
  <2> QED
    BY <2>1, FS_AddElement
<1>4. /\ SumFunctionOnSet(f, T) \in Nat
      /\ SumFunctionOnSet(f, P) = SumFunctionOnSet(f, T) + f[a] + f[b]
  BY <1>1, SumTwo
<1>5. Q \ {q} = T /\ q \in Q
  OBVIOUS
<1> HIDE DEF T, Q
<1>6. SumFunctionOnSet(e, Q) = SumFunctionOnSet(e, T) + e[q]
  BY <1>2, <1>3, <1>5, SumWithout
<1>7. SumFunctionOnSet(e, T) = SumFunctionOnSet(f, T)
  BY <1>1, <1>3, SumAgrees
<1>8. SumFunctionOnSet(e, Q) = SumFunctionOnSet(f, P)
  BY <1>1, <1>4, <1>6, <1>7
<1> QED
  BY <1>8 DEF Q, T

\* The bits of a table are a number.
LEMMA SumOfBits ==
    ASSUME NEW D, IsFiniteSet(D), NEW c, \A x \in D : c[x] \in Nat, NEW g \in [D -> Nat]
    PROVE  Pay(c, g, D) \in Nat
<1> DEFINE f == [n \in D |-> c[n] * g[n]]
<1>1. ASSUME NEW x \in D PROVE f[x] \in Nat
  <2>1. c[x] \in Nat /\ g[x] \in Nat /\ f[x] = c[x] * g[x]
    OBVIOUS
  <2> QED
    BY <2>1
<1>2. Pay(c, g, D) = SumFunctionOnSet(f, D)
  BY DEF Pay
<1> HIDE DEF f
<1>3. IsSum(f, D) /\ D \in SUBSET D
  BY <1>1, SumLaws
<1>4. SumFunctionOnSet(f, D) \in Nat
  BY <1>3, Zenon DEF IsSum
<1> QED
  BY <1>2, <1>4

\* The frequency of a node, and the bits its leaves take below it.
TreeWeight(c, n) == SumFunctionOnSet(c, DOMAIN n)

LeafBits(c, n) == Pay(c, [s \in DOMAIN n |-> Len(n[s])], DOMAIN n)

\* A node of a tree for a table.
IsNode(c, n) == /\ IsFiniteSet(DOMAIN n) /\ DOMAIN n # {}
                /\ \A s \in DOMAIN n : n[s] \in Seq(BOOLEAN)
                /\ \A s \in DOMAIN n : c[s] \in Nat

\* Both are numbers.
LEMMA NodeFacts ==
    ASSUME NEW c, NEW n, IsNode(c, n)
    PROVE  TreeWeight(c, n) \in Nat /\ LeafBits(c, n) \in Nat
<1> DEFINE D == DOMAIN n
           len == [s \in D |-> Len(n[s])]
           e == [s \in D |-> c[s] * len[s]]
<1>1. IsFiniteSet(D) /\ \A s \in D : n[s] \in Seq(BOOLEAN) /\ c[s] \in Nat
  BY DEF IsNode
<1>2. \A s \in D : e[s] \in Nat
  <2> SUFFICES ASSUME NEW s \in D PROVE e[s] \in Nat
    OBVIOUS
  <2>1. c[s] \in Nat /\ Len(n[s]) \in Nat /\ e[s] = c[s] * Len(n[s])
    BY <1>1, LenProperties
  <2> QED
    BY <2>1
<1>3. LeafBits(c, n) = SumFunctionOnSet(e, D)
  BY DEF LeafBits, Pay
<1> HIDE DEF e, D
<1>4. IsSum(e, D) /\ IsSum(c, D) /\ D \in SUBSET D
  BY <1>1, <1>2, SumLaws
<1>5. SumFunctionOnSet(e, D) \in Nat /\ SumFunctionOnSet(c, D) \in Nat
  BY <1>4, Zenon DEF IsSum
<1> QED
  BY <1>3, <1>5 DEF TreeWeight, D

\* One bit more for the leaves of a node takes as many bits as the node weighs.
LEMMA LongerLeaves ==
    ASSUME NEW c, NEW n, IsNode(c, n), NEW e,
           \A s \in DOMAIN n : e[s] = c[s] * (Len(n[s]) + 1)
    PROVE  /\ \A s \in DOMAIN n : e[s] \in Nat
           /\ SumFunctionOnSet(e, DOMAIN n) = LeafBits(c, n) + TreeWeight(c, n)
<1> DEFINE D == DOMAIN n
           len == [s \in D |-> Len(n[s])]
           f == [s \in D |-> c[s] * len[s]]
<1>1. IsFiniteSet(D) /\ \A s \in D : n[s] \in Seq(BOOLEAN) /\ c[s] \in Nat
  BY DEF IsNode
<1>2. ASSUME NEW s \in D
      PROVE  f[s] \in Nat /\ e[s] \in Nat /\ e[s] = f[s] + c[s] /\ c[s] \in Nat
  <2> DEFINE x == c[s]
             y == Len(n[s])
  <2>1. x \in Nat /\ y \in Nat /\ f[s] = x * y /\ e[s] = x * (y + 1)
    BY <1>1, LenProperties
  <2> HIDE DEF x, y
  <2>2. x * y \in Nat /\ x * (y + 1) = x * y + x
    BY <2>1
  <2> QED
    BY <2>1, <2>2 DEF x
<1>3. LeafBits(c, n) = SumFunctionOnSet(f, D)
  BY DEF LeafBits, Pay
<1> HIDE DEF f, D
<1>4. SumFunctionOnSet(e, D) = SumFunctionOnSet(f, D) + SumFunctionOnSet(c, D)
  BY <1>1, <1>2, SumPlus
<1> QED
  BY <1>2, <1>3, <1>4 DEF TreeWeight, D

\* The parent of two nodes.
LEMMA ParentFacts ==
    ASSUME NEW c, NEW left, NEW right, IsNode(c, left), IsNode(c, right),
           DOMAIN left \cap DOMAIN right = {}
    PROVE  LET node == Merge(Prefixed(FALSE, left), Prefixed(TRUE, right))
           IN  /\ DOMAIN node = DOMAIN left \cup DOMAIN right
               /\ IsNode(c, node)
               /\ TreeWeight(c, node) = TreeWeight(c, left) + TreeWeight(c, right)
               /\ LeafBits(c, node) = LeafBits(c, left) + TreeWeight(c, left)
                                        + LeafBits(c, right) + TreeWeight(c, right)
<1> DEFINE node == Merge(Prefixed(FALSE, left), Prefixed(TRUE, right))
           L == DOMAIN left
           R == DOMAIN right
           D == L \cup R
<1>1. /\ IsFiniteSet(L) /\ L # {} /\ \A s \in L : left[s] \in Seq(BOOLEAN) /\ c[s] \in Nat
      /\ IsFiniteSet(R) /\ R # {} /\ \A s \in R : right[s] \in Seq(BOOLEAN) /\ c[s] \in Nat
  BY DEF IsNode
<1>2. /\ DOMAIN node = D
      /\ \A s \in L : node[s] = <<FALSE>> \o left[s]
      /\ \A s \in R : node[s] = <<TRUE>> \o right[s]
  BY DEF Merge, Prefixed
<1> HIDE DEF node
<1>3. <<FALSE>> \in Seq(BOOLEAN) /\ Len(<<FALSE>>) = 1 /\ <<TRUE>> \in Seq(BOOLEAN) /\ Len(<<TRUE>>) = 1
  OBVIOUS
<1>4. /\ \A s \in L : node[s] \in Seq(BOOLEAN) /\ Len(node[s]) = Len(left[s]) + 1
      /\ \A s \in R : node[s] \in Seq(BOOLEAN) /\ Len(node[s]) = Len(right[s]) + 1
  <2>1. ASSUME NEW s \in L PROVE node[s] \in Seq(BOOLEAN) /\ Len(node[s]) = Len(left[s]) + 1
    <3>1. left[s] \in Seq(BOOLEAN) /\ Len(left[s]) \in Nat
      BY <1>1, LenProperties
    <3> DEFINE d == <<FALSE>> \o left[s]
    <3>2. d \in Seq(BOOLEAN) /\ Len(d) = 1 + Len(left[s])
      BY <1>3, <3>1, ConcatProperties
    <3>3. node[s] = d
      BY <1>2
    <3> HIDE DEF d
    <3> QED
      BY <3>1, <3>2, <3>3
  <2>2. ASSUME NEW s \in R PROVE node[s] \in Seq(BOOLEAN) /\ Len(node[s]) = Len(right[s]) + 1
    <3>1. right[s] \in Seq(BOOLEAN) /\ Len(right[s]) \in Nat
      BY <1>1, LenProperties
    <3> DEFINE d == <<TRUE>> \o right[s]
    <3>2. d \in Seq(BOOLEAN) /\ Len(d) = 1 + Len(right[s])
      BY <1>3, <3>1, ConcatProperties
    <3>3. node[s] = d
      BY <1>2
    <3> HIDE DEF d
    <3> QED
      BY <3>1, <3>2, <3>3
  <2> QED
    BY <2>1, <2>2
<1>5. IsFiniteSet(D) /\ D # {}
  <2>1. IsFiniteSet(D)
    BY <1>1, FS_Union
  <2> QED
    BY <1>1, <2>1
<1>6. IsNode(c, node)
  BY <1>1, <1>2, <1>4, <1>5 DEF IsNode
<1>7. \A s \in D : c[s] \in Nat
  BY <1>1
<1>8. TreeWeight(c, node) = TreeWeight(c, left) + TreeWeight(c, right)
  <2> HIDE DEF L, R
  <2>1. SumFunctionOnSet(c, L \cup R) = SumFunctionOnSet(c, L) + SumFunctionOnSet(c, R)
    BY <1>1, <1>7, SumUnion DEF L, R
  <2> QED
    BY <1>2, <2>1 DEF TreeWeight, L, R
<1> DEFINE len == [s \in D |-> Len(node[s])]
           e == [s \in D |-> c[s] * len[s]]
<1>9. LeafBits(c, node) = SumFunctionOnSet(e, D)
  BY <1>2 DEF LeafBits, Pay
<1>10. /\ \A s \in L : e[s] = c[s] * (Len(left[s]) + 1)
       /\ \A s \in R : e[s] = c[s] * (Len(right[s]) + 1)
  BY <1>4
<1> HIDE DEF e
<1>11. /\ \A s \in L : e[s] \in Nat
       /\ SumFunctionOnSet(e, L) = LeafBits(c, left) + TreeWeight(c, left)
  BY <1>10, LongerLeaves
<1>12. /\ \A s \in R : e[s] \in Nat
       /\ SumFunctionOnSet(e, R) = LeafBits(c, right) + TreeWeight(c, right)
  BY <1>10, LongerLeaves
<1>13. SumFunctionOnSet(e, D) = SumFunctionOnSet(e, L) + SumFunctionOnSet(e, R)
  <2>1. (\A s \in D : e[s] \in Nat) /\ L \cap R = {}
    BY <1>11, <1>12
  <2> HIDE DEF L, R
  <2> QED
    BY <1>1, <2>1, SumUnion
<1>14. /\ TreeWeight(c, left) \in Nat /\ LeafBits(c, left) \in Nat
       /\ TreeWeight(c, right) \in Nat /\ LeafBits(c, right) \in Nat
  BY NodeFacts
<1>15. LeafBits(c, node) = LeafBits(c, left) + TreeWeight(c, left)
                             + LeafBits(c, right) + TreeWeight(c, right)
  BY <1>9, <1>11, <1>12, <1>13, <1>14
<1> QED
  BY <1>2, <1>6, <1>8, <1>15 DEF node

\* The bits of the whole table, if the trees of P get codes of the lengths g.
TreeBits(c, g, P) ==
    SumFunctionOnSet([n \in P |-> TreeWeight(c, n) * g[n] + LeafBits(c, n)], P)

\* Those below the trees.
BitsBelow(c, P) == SumFunctionOnSet([n \in P |-> LeafBits(c, n)], P)

\* The trees of P are as good as lengths for their symbols: they can be given
\* codes that take no more bits.
Matches(P, c, lengths) ==
    \E g \in [P -> Nat] : \E k \in Nat :
        Kraft(g, P, k) /\ TreeBits(c, g, P) <= Pay(c, lengths, DOMAIN c)

\* They are as good as the lengths of any prefix code.
OptimalTrees(P, c) ==
    /\ \A n \in P : DOMAIN n # {}
    /\ \A lengths \in [DOMAIN c -> Nat] : \A l \in Nat :
          Kraft(lengths, DOMAIN c, l) => Matches(P, c, lengths)

\* What the bits of the table are made of.
LEMMA TreeBitsSum ==
    ASSUME NEW c, NEW P, IsFiniteSet(P), \A n \in P : IsNode(c, n), NEW w \in [P -> Nat],
           \A n \in P : w[n] = TreeWeight(c, n), NEW g \in [P -> Nat]
    PROVE  /\ TreeBits(c, g, P) = Pay(w, g, P) + BitsBelow(c, P)
           /\ BitsBelow(c, P) \in Nat
           /\ Pay(w, g, P) \in Nat
           /\ TreeBits(c, g, P) \in Nat
           /\ \A n \in P : TreeWeight(c, n) * g[n] + LeafBits(c, n) \in Nat
<1> DEFINE d == [n \in P |-> TreeWeight(c, n) * g[n] + LeafBits(c, n)]
           e == [n \in P |-> w[n] * g[n]]
           f == [n \in P |-> LeafBits(c, n)]
<1>1. ASSUME NEW n \in P
      PROVE  d[n] = e[n] + f[n] /\ e[n] \in Nat /\ f[n] \in Nat /\ d[n] \in Nat
  <2>1. w[n] = TreeWeight(c, n) /\ w[n] \in Nat /\ g[n] \in Nat /\ LeafBits(c, n) \in Nat
    BY NodeFacts
  <2>2. d[n] = w[n] * g[n] + LeafBits(c, n) /\ e[n] = w[n] * g[n] /\ f[n] = LeafBits(c, n)
    BY <2>1
  <2>3. w[n] * g[n] \in Nat
    BY <2>1
  <2> QED
    BY <2>1, <2>2, <2>3
<1>2. \A n \in P : d[n] = TreeWeight(c, n) * g[n] + LeafBits(c, n)
  OBVIOUS
<1>3. /\ TreeBits(c, g, P) = SumFunctionOnSet(d, P)
      /\ Pay(w, g, P) = SumFunctionOnSet(e, P)
      /\ BitsBelow(c, P) = SumFunctionOnSet(f, P)
  BY DEF TreeBits, Pay, BitsBelow
<1> HIDE DEF d, e, f
<1>4. SumFunctionOnSet(d, P) = SumFunctionOnSet(e, P) + SumFunctionOnSet(f, P)
  BY <1>1, SumPlus
<1>5. IsSum(e, P) /\ IsSum(f, P) /\ P \in SUBSET P
  BY <1>1, SumLaws
<1>6. SumFunctionOnSet(e, P) \in Nat /\ SumFunctionOnSet(f, P) \in Nat
  BY <1>5, Zenon DEF IsSum
<1>7. TreeBits(c, g, P) \in Nat
  BY <1>3, <1>4, <1>6
<1> QED
  BY <1>1, <1>2, <1>3, <1>4, <1>6, <1>7

\* The trees generate_huffman_codes queues.
Leaves(c) == {[s \in {x} |-> << >>] : x \in DOMAIN c}

\* They can be given any lengths.
LEMMA LeavesMatch ==
    ASSUME NEW c, IsFiniteSet(DOMAIN c), \A x \in DOMAIN c : c[x] \in Nat
    PROVE  OptimalTrees(Leaves(c), c)
<1> DEFINE D == DOMAIN c
           P == Leaves(c)
           leaf(x) == [s \in {x} |-> << >>]
           p == [x \in D |-> leaf(x)]
<1>0. IsFiniteSet(D)
  OBVIOUS
<1>1. ASSUME NEW x \in D
      PROVE  DOMAIN leaf(x) = {x} /\ TreeWeight(c, leaf(x)) = c[x] /\ LeafBits(c, leaf(x)) = 0
  <2>1. DOMAIN leaf(x) = {x} /\ leaf(x)[x] = << >> /\ c[x] \in Nat
    OBVIOUS
  <2> HIDE DEF leaf
  <2>2. TreeWeight(c, leaf(x)) = c[x]
    BY <2>1, SumSingle DEF TreeWeight
  <2> DEFINE len == [s \in {x} |-> Len(leaf(x)[s])]
             e == [s \in {x} |-> c[s] * len[s]]
  <2>3. LeafBits(c, leaf(x)) = SumFunctionOnSet(e, {x})
    BY <2>1 DEF LeafBits, Pay
  <2>4. e[x] = 0
    <3>1. Len(leaf(x)[x]) = 0
      BY <2>1
    <3>2. e[x] = c[x] * 0
      BY <3>1
    <3> QED
      BY <2>1, <3>2
  <2> HIDE DEF e
  <2>5. SumFunctionOnSet(e, {x}) = e[x]
    BY <2>4, SumSingle
  <2> QED
    BY <2>1, <2>2, <2>3, <2>4, <2>5
<1> HIDE DEF leaf
<1>2. P = {leaf(x) : x \in D}
  BY DEF leaf, Leaves
<1> HIDE DEF P
<1>3. /\ P = {p[x] : x \in D}
      /\ \A x \in D : p[x] = leaf(x)
  BY <1>2
<1>4. \A x, y \in D : p[x] = p[y] => x = y
  <2> SUFFICES ASSUME NEW x \in D, NEW y \in D, p[x] = p[y] PROVE x = y
    OBVIOUS
  <2>1. DOMAIN leaf(x) = {x} /\ DOMAIN leaf(y) = {y}
    BY <1>1
  <2>2. leaf(x) = leaf(y)
    BY <1>3
  <2> QED
    BY <2>1, <2>2
<1>5. \A n \in P : DOMAIN n # {}
  BY <1>1, <1>2
<1>6. ASSUME NEW lengths \in [D -> Nat], NEW l \in Nat, Kraft(lengths, D, l)
      PROVE  Matches(P, c, lengths)
  <2> DEFINE g == [n \in P |-> lengths[CHOOSE x \in D : p[x] = n]]
  <2>1. \A x \in D : g[p[x]] = lengths[x] /\ p[x] \in P
    <3> SUFFICES ASSUME NEW x \in D PROVE g[p[x]] = lengths[x] /\ p[x] \in P
      OBVIOUS
    <3> HIDE DEF p
    <3>1. p[x] \in P
      BY <1>3
    <3>2. (CHOOSE y \in D : p[y] = p[x]) = x
      BY <1>4
    <3> QED
      BY <3>1, <3>2
  <2>2. g \in [P -> Nat]
    <3> HIDE DEF p
    <3>1. \A n \in P : (CHOOSE x \in D : p[x] = n) \in D
      BY <1>3
    <3> QED
      BY <3>1
  <2> HIDE DEF g, p
  <2>3. \A n \in P : \E x \in D : n = p[x]
    BY <1>3
  <2>4. \A x \in D : lengths[x] \in Nat /\ lengths[x] <= l
    BY <1>6 DEF Kraft
  <2>5. Kraft(g, P, l)
    <3>1. \A n \in P : g[n] <= l
      <4> SUFFICES ASSUME NEW x \in D PROVE g[p[x]] <= l
        BY <2>3
      <4> QED
        BY <2>1, <2>4
    <3> DEFINE f == [n \in D |-> 2^(l - lengths[n])]
               e == [n \in P |-> 2^(l - g[n])]
    <3>2. \A x \in D : f[x] \in Nat
      BY <1>6, <2>4, SumTerms
    <3>3. \A x \in D : e[p[x]] = f[x]
      BY <2>1
    <3>4. Share(g, P, l) = SumFunctionOnSet(e, P) /\ Share(lengths, D, l) = SumFunctionOnSet(f, D)
      BY DEF Share
    <3> HIDE DEF e, f
    <3>5. SumFunctionOnSet(e, {p[x] : x \in D}) = SumFunctionOnSet(f, D)
      <4> HIDE DEF D
      <4> QED
        BY <1>0, <1>4, <3>2, <3>3, SumRenamed
    <3> QED
      BY <1>3, <1>6, <3>1, <3>4, <3>5 DEF Kraft
  <2>6. TreeBits(c, g, P) = Pay(c, lengths, D)
    <3> DEFINE f == [n \in D |-> c[n] * lengths[n]]
               e == [n \in P |-> TreeWeight(c, n) * g[n] + LeafBits(c, n)]
    <3>1. \A x \in D : f[x] \in Nat
      <4> SUFFICES ASSUME NEW x \in D PROVE f[x] \in Nat
        OBVIOUS
      <4>1. c[x] \in Nat /\ lengths[x] \in Nat /\ f[x] = c[x] * lengths[x]
        BY <2>4
      <4> QED
        BY <4>1
    <3>2. \A x \in D : e[p[x]] = f[x]
      <4> SUFFICES ASSUME NEW x \in D PROVE e[p[x]] = f[x]
        OBVIOUS
      <4>1. e[p[x]] = TreeWeight(c, p[x]) * g[p[x]] + LeafBits(c, p[x])
        BY <2>1
      <4>2. TreeWeight(c, p[x]) = c[x] /\ LeafBits(c, p[x]) = 0 /\ g[p[x]] = lengths[x]
        BY <1>1, <1>3, <2>1
      <4>3. f[x] = c[x] * lengths[x] /\ f[x] \in Nat
        BY <3>1
      <4> DEFINE y == f[x]
      <4>4. e[p[x]] = y + 0
        BY <4>1, <4>2, <4>3
      <4>5. y \in Nat
        BY <4>3
      <4> HIDE DEF y, e, f
      <4>6. y + 0 = y
        BY <4>5
      <4> QED
        BY <4>4, <4>6 DEF y
    <3>3. TreeBits(c, g, P) = SumFunctionOnSet(e, P) /\ Pay(c, lengths, D) = SumFunctionOnSet(f, D)
      BY DEF TreeBits, Pay
    <3> HIDE DEF e, f
    <3>4. SumFunctionOnSet(e, {p[x] : x \in D}) = SumFunctionOnSet(f, D)
      <4> HIDE DEF D
      <4> QED
        BY <1>0, <1>4, <3>1, <3>2, SumRenamed
    <3> QED
      BY <1>3, <3>3, <3>4
  <2>7. Pay(c, lengths, D) \in Nat
    BY <1>0, SumOfBits
  <2>8. TreeBits(c, g, P) <= Pay(c, lengths, D)
    BY <2>6, <2>7
  <2> QED
    BY <2>2, <2>5, <2>8 DEF Matches
<1> QED
  BY <1>5, <1>6 DEF OptimalTrees, P

\* The queue of build_tree, as far as the bits depend on it.
IsQueue(P, c) == /\ IsFiniteSet(DOMAIN c) /\ \A s \in DOMAIN c : c[s] \in Nat
                 /\ IsFiniteSet(P) /\ \A n \in P : IsNode(c, n)
                 /\ \A n, m \in P : n # m => DOMAIN n \cap DOMAIN m = {}

\* The lengths h, with the node q of m bits in place of a and b.
ParentDepth(g, h, m, P, a, b, q) ==
    LET Q == (P \ {a, b}) \cup {q}
    IN  /\ g \in [Q -> Nat] /\ Kraft(g, Q, m + 1)
        /\ g[q] = m /\ \A n \in P \ {a, b} : g[n] = h[n]

\* The parent's code may be one bit shorter than those of its children.
LEMMA ParentCode ==
    ASSUME NEW P, IsFiniteSet(P), NEW a \in P, NEW b \in P, a # b, NEW q,
           q \notin P \ {a, b}, NEW m \in Nat, NEW h \in [P -> Nat],
           Kraft(h, P, m + 1), h[a] = m + 1, h[b] = m + 1
    PROVE  \E g : ParentDepth(g, h, m, P, a, b, q)
<1> DEFINE T == P \ {a, b}
           Q == T \cup {q}
           g == [n \in Q |-> IF n = q THEN m ELSE h[n]]
           k == m + 1
<1>1. /\ g \in [Q -> Nat] /\ g[q] = m
      /\ \A n \in T : g[n] = h[n]
  OBVIOUS
<1> HIDE DEF g
<1>2. k \in Nat /\ m <= k /\ k - m = 1 /\ k - k = 0 /\ h[a] = k /\ h[b] = k
  OBVIOUS
<1>3. (\A n \in P : h[n] <= k) /\ Share(h, P, k) <= 2^k
  BY DEF Kraft
<1> HIDE DEF k
<1>4. \A n \in Q : g[n] <= k
  BY <1>1, <1>2, <1>3
<1> DEFINE f == [n \in P |-> 2^(k - h[n])]
           e == [n \in Q |-> 2^(k - g[n])]
           w == [n \in P |-> 0]
<1>5. \A n \in P : f[n] \in Nat
  <2>1. w \in [P -> Nat]
    OBVIOUS
  <2> HIDE DEF w
  <2> QED
    BY <1>2, <1>3, <2>1, SumTerms
<1>6. \A n \in T : e[n] = f[n]
  BY <1>1
<1>7. e[q] = 2 /\ f[a] = 1 /\ f[b] = 1
  <2>1. 2^0 = 1 /\ 2^(0 + 1) = 2 * 2^0
    BY PowerFacts
  <2>2. 2^1 = 2
    BY <2>1
  <2>3. e[q] = 2^(k - g[q]) /\ f[a] = 2^(k - h[a]) /\ f[b] = 2^(k - h[b])
    OBVIOUS
  <2>4. e[q] = 2^1 /\ f[a] = 2^0 /\ f[b] = 2^0
    BY <1>1, <1>2, <2>3
  <2> QED
    BY <2>1, <2>2, <2>4
<1>8. Share(h, P, k) = SumFunctionOnSet(f, P) /\ Share(g, Q, k) = SumFunctionOnSet(e, Q)
  BY DEF Share
<1> HIDE DEF e, f
<1>9. Replaces(e, f, P, a, b, q)
  BY <1>5, <1>6, <1>7 DEF Replaces
<1>10. SumFunctionOnSet(e, Q) = SumFunctionOnSet(f, P)
  BY <1>9, SumReplaced
<1>11. Kraft(g, Q, k)
  BY <1>3, <1>4, <1>8, <1>10 DEF Kraft
<1>12. ParentDepth(g, h, m, P, a, b, q)
  BY <1>1, <1>11 DEF ParentDepth, k
<1> QED
  BY <1>12

\* One turn of the loop of build_tree: the two lightest trees become one, and the
\* trees are still as good as any prefix code.
LEMMA MergeMatches ==
    ASSUME NEW c, NEW P, IsQueue(P, c), OptimalTrees(P, c),
           NEW left \in P, NEW right \in P, left # right,
           \A n \in P : TreeWeight(c, left) <= TreeWeight(c, n),
           \A n \in P \ {left} : TreeWeight(c, right) <= TreeWeight(c, n)
    PROVE  LET node == Merge(Prefixed(FALSE, left), Prefixed(TRUE, right))
           IN  OptimalTrees((P \ {left, right}) \cup {node}, c)
<1> DEFINE node == Merge(Prefixed(FALSE, left), Prefixed(TRUE, right))
           T == P \ {left, right}
           Q == T \cup {node}
           w == [n \in P |-> TreeWeight(c, n)]
<1>1. /\ IsFiniteSet(P) /\ \A n \in P : IsNode(c, n)
      /\ \A n, m \in P : n # m => DOMAIN n \cap DOMAIN m = {}
  BY DEF IsQueue
<1>2. /\ DOMAIN node = DOMAIN left \cup DOMAIN right
      /\ IsNode(c, node)
      /\ TreeWeight(c, node) = TreeWeight(c, left) + TreeWeight(c, right)
      /\ LeafBits(c, node) = LeafBits(c, left) + TreeWeight(c, left)
                               + LeafBits(c, right) + TreeWeight(c, right)
  <2>1. IsNode(c, left) /\ IsNode(c, right) /\ DOMAIN left \cap DOMAIN right = {}
    BY <1>1
  <2> QED
    BY <2>1, ParentFacts
<1> HIDE DEF node
<1>3. \A n \in P : DOMAIN n # {}
  BY DEF OptimalTrees
<1>4. node \notin T
  BY <1>1, <1>2, <1>3
<1>5. \A n \in Q : DOMAIN n # {}
  BY <1>2, <1>3
<1>6. /\ w \in [P -> Nat] /\ \A n \in P : w[n] = TreeWeight(c, n)
  BY <1>1, NodeFacts
<1> HIDE DEF w
<1>7. AreLightest(w, P, left, right)
  BY <1>6 DEF AreLightest
<1>8. ASSUME NEW lengths \in [DOMAIN c -> Nat], NEW l \in Nat, Kraft(lengths, DOMAIN c, l)
      PROVE  Matches(Q, c, lengths)
  <2>1. Matches(P, c, lengths)
    BY <1>8 DEF OptimalTrees
  <2>2. PICK g \in [P -> Nat] : \E k \in Nat :
            Kraft(g, P, k) /\ TreeBits(c, g, P) <= Pay(c, lengths, DOMAIN c)
    BY <2>1 DEF Matches
  <2> DEFINE leaves == BitsBelow(c, P)
             v == Pay(w, g, P)
  <2>3. TreeBits(c, g, P) = v + leaves /\ leaves \in Nat /\ v \in Nat
    BY <1>1, <1>6, TreeBitsSum
  <2> HIDE DEF leaves
  <2>4. Affordable(g, w, P, v)
    BY <2>2, <2>3 DEF Affordable
  <2> HIDE DEF v
  <2>5. PICK h : \E m \in Nat : PairDeepest(h, m, w, P, left, right, v)
    BY <1>1, <1>6, <1>7, <2>3, <2>4, Exchange
  <2>6. PICK m \in Nat : PairDeepest(h, m, w, P, left, right, v)
    BY <2>5
  <2>7. /\ h \in [P -> Nat] /\ Kraft(h, P, m + 1)
        /\ h[left] = m + 1 /\ h[right] = m + 1
        /\ Pay(w, h, P) <= v
    BY <2>6 DEF PairDeepest
  <2>8. PICK i : ParentDepth(i, h, m, P, left, right, node)
    BY <1>1, <1>4, <2>7, ParentCode
  <2>9. /\ i \in [Q -> Nat] /\ Kraft(i, Q, m + 1)
        /\ i[node] = m /\ \A n \in T : i[n] = h[n]
    BY <2>8 DEF ParentDepth
  <2>10. /\ TreeBits(c, h, P) = Pay(w, h, P) + leaves /\ Pay(w, h, P) \in Nat
        /\ \A n \in P : TreeWeight(c, n) * h[n] + LeafBits(c, n) \in Nat
    BY <1>1, <1>6, <2>7, TreeBitsSum DEF leaves
  <2>11. TreeBits(c, i, Q) = TreeBits(c, h, P)
    <3> DEFINE f == [n \in P |-> TreeWeight(c, n) * h[n] + LeafBits(c, n)]
               e == [n \in Q |-> TreeWeight(c, n) * i[n] + LeafBits(c, n)]
               wl == TreeWeight(c, left)
               wr == TreeWeight(c, right)
               bl == LeafBits(c, left)
               br == LeafBits(c, right)
    <3>1. \A n \in P : f[n] \in Nat
      BY <2>10
    <3>2. \A n \in T : e[n] = f[n]
      BY <2>9
    <3>3. wl \in Nat /\ wr \in Nat /\ bl \in Nat /\ br \in Nat
      BY <1>1, NodeFacts
    <3>4. f[left] = wl * (m + 1) + bl /\ f[right] = wr * (m + 1) + br
      BY <2>7
    <3>5. e[node] = TreeWeight(c, node) * m + LeafBits(c, node)
      BY <2>9
    <3>6. e[node] = (wl + wr) * m + (bl + wl + br + wr)
      BY <1>2, <3>5
    <3>7. TreeBits(c, h, P) = SumFunctionOnSet(f, P) /\ TreeBits(c, i, Q) = SumFunctionOnSet(e, Q)
      BY DEF TreeBits
    <3> HIDE DEF e, f, wl, wr, bl, br
    <3>8. e[node] = f[left] + f[right]
      <4>1. /\ (wl + wr) * m = wl * m + wr * m /\ wl * m \in Nat /\ wr * m \in Nat
            /\ wl * (m + 1) = wl * m + wl /\ wr * (m + 1) = wr * m + wr
        BY <3>3
      <4> QED
        BY <3>3, <3>4, <3>6, <4>1
    <3>9. Replaces(e, f, P, left, right, node)
      BY <3>1, <3>2, <3>8 DEF Replaces
    <3>10. SumFunctionOnSet(e, Q) = SumFunctionOnSet(f, P)
      BY <1>1, <1>4, <3>9, SumReplaced
    <3> QED
      BY <3>7, <3>10
  <2>12. TreeBits(c, i, Q) <= TreeBits(c, g, P) /\ TreeBits(c, i, Q) \in Nat
         /\ TreeBits(c, g, P) \in Nat
    BY <2>3, <2>7, <2>10, <2>11
  <2>13. TreeBits(c, i, Q) <= Pay(c, lengths, DOMAIN c)
    <3>1. Pay(c, lengths, DOMAIN c) \in Nat
      BY SumOfBits DEF IsQueue
    <3> QED
      BY <2>2, <2>12, <3>1
  <2>14. m + 1 \in Nat
    OBVIOUS
  <2> QED
    BY <2>9, <2>13, <2>14 DEF Matches
<1> QED
  BY <1>5, <1>8 DEF OptimalTrees, node

\* The codes take no more bits than any prefix code whose codes are not empty.
OptimalCodes(codes, c) ==
    \A lengths \in [DOMAIN c -> Nat \ {0}] : \A l \in Nat :
        Kraft(lengths, DOMAIN c, l) => LeafBits(c, codes) <= Pay(c, lengths, DOMAIN c)

\* generate_codes_from_tree: the last tree has the codes.
LEMMA RootMatches ==
    ASSUME NEW c, NEW root, IsQueue({root}, c), OptimalTrees({root}, c),
           NEW lengths \in [DOMAIN c -> Nat], NEW l \in Nat, Kraft(lengths, DOMAIN c, l)
    PROVE  LeafBits(c, root) <= Pay(c, lengths, DOMAIN c)
<1> DEFINE P == {root}
<1>1. Matches(P, c, lengths)
  BY DEF OptimalTrees
<1>2. PICK g \in [P -> Nat] : TreeBits(c, g, P) <= Pay(c, lengths, DOMAIN c)
  BY <1>1 DEF Matches
<1>3. TreeWeight(c, root) \in Nat /\ LeafBits(c, root) \in Nat /\ g[root] \in Nat
  BY NodeFacts DEF IsQueue
<1> DEFINE e == [n \in P |-> TreeWeight(c, n) * g[n] + LeafBits(c, n)]
<1>4. e[root] = TreeWeight(c, root) * g[root] + LeafBits(c, root)
  OBVIOUS
<1>5. TreeWeight(c, root) * g[root] \in Nat
  BY <1>3
<1>6. e[root] \in Nat /\ LeafBits(c, root) <= e[root]
  BY <1>3, <1>4, <1>5
<1>7. TreeBits(c, g, P) = SumFunctionOnSet(e, P)
  BY DEF TreeBits
<1> HIDE DEF e
<1>8. TreeBits(c, g, P) = e[root]
  BY <1>6, <1>7, SumSingle
<1>9. Pay(c, lengths, DOMAIN c) \in Nat
  BY SumOfBits DEF IsQueue
<1> QED
  BY <1>2, <1>3, <1>6, <1>8, <1>9

\* It has them as they are if there are several symbols.
LEMMA RootCodes ==
    ASSUME NEW c, NEW root, IsQueue({root}, c), OptimalTrees({root}, c)
    PROVE  OptimalCodes(root, c)
<1> SUFFICES ASSUME NEW lengths \in [DOMAIN c -> Nat \ {0}], NEW l \in Nat,
                    Kraft(lengths, DOMAIN c, l)
             PROVE  LeafBits(c, root) <= Pay(c, lengths, DOMAIN c)
  BY DEF OptimalCodes
<1>1. lengths \in [DOMAIN c -> Nat]
  OBVIOUS
<1> QED
  BY <1>1, RootMatches

\* A lone symbol's code has one bit, and no code has less.
LEMMA LoneCode ==
    ASSUME NEW c, NEW root, NEW x, IsQueue({root}, c), OptimalTrees({root}, c),
           DOMAIN root = {x}, DOMAIN c = {x}
    PROVE  OptimalCodes(Prefixed(FALSE, root), c)
<1> DEFINE codes == Prefixed(FALSE, root)
           none == [s \in {x} |-> 0]
<1>1. IsNode(c, root) /\ c[x] \in Nat /\ root[x] \in Seq(BOOLEAN) /\ Len(root[x]) \in Nat
  <2>1. IsNode(c, root) /\ c[x] \in Nat
    BY DEF IsQueue
  <2>2. root[x] \in Seq(BOOLEAN)
    BY <2>1 DEF IsNode
  <2> QED
    BY <2>1, <2>2, LenProperties
<1>2. TreeWeight(c, root) = c[x]
  BY <1>1, SumSingle DEF TreeWeight
<1>3. LeafBits(c, root) = 0
  <2>1. none \in [DOMAIN c -> Nat] /\ none[x] = 0
    OBVIOUS
  <2> HIDE DEF none
  <2>2. Kraft(none, DOMAIN c, 0)
    <3> DEFINE f == [n \in {x} |-> 2^(0 - none[n])]
    <3>1. f[x] = 2^(0 - 0)
      BY <2>1
    <3>2. 0 - 0 = 0 /\ 2^0 = 1
      BY PowerFacts
    <3>3. f[x] = 1
      BY <3>1, <3>2
    <3>4. Share(none, DOMAIN c, 0) = SumFunctionOnSet(f, {x})
      BY DEF Share
    <3> HIDE DEF f
    <3>5. SumFunctionOnSet(f, {x}) = 1
      BY <3>3, SumSingle
    <3> QED
      BY <2>1, <3>2, <3>4, <3>5 DEF Kraft
  <2>3. Pay(c, none, DOMAIN c) = 0
    <3> DEFINE f == [n \in {x} |-> c[n] * none[n]]
    <3>1. f[x] = c[x] * 0
      BY <2>1
    <3>2. f[x] = 0
      BY <1>1, <3>1
    <3>3. Pay(c, none, DOMAIN c) = SumFunctionOnSet(f, {x})
      BY DEF Pay
    <3> HIDE DEF f
    <3>4. SumFunctionOnSet(f, {x}) = f[x]
      BY <3>2, SumSingle
    <3> QED
      BY <3>2, <3>3, <3>4
  <2>4. LeafBits(c, root) <= Pay(c, none, DOMAIN c)
    BY <2>1, <2>2, RootMatches
  <2>5. LeafBits(c, root) \in Nat
    BY <1>1, NodeFacts
  <2> QED
    BY <2>3, <2>4, <2>5
<1>4. LeafBits(c, codes) = c[x]
  <2> DEFINE len == [s \in {x} |-> Len(codes[s])]
             e == [s \in {x} |-> c[s] * len[s]]
             d == codes[x]
  <2>1. DOMAIN codes = {x} /\ d = <<FALSE>> \o root[x]
    BY DEF Prefixed
  <2>2. Len(d) = Len(root[x]) + 1
    <3>1. <<FALSE>> \in Seq(BOOLEAN) /\ Len(<<FALSE>>) = 1
      OBVIOUS
    <3>2. Len(<<FALSE>> \o root[x]) = 1 + Len(root[x])
      BY <1>1, <3>1, ConcatProperties
    <3> HIDE DEF d
    <3> QED
      BY <1>1, <2>1, <3>2
  <2>3. LeafBits(c, codes) = SumFunctionOnSet(e, {x})
    BY <2>1 DEF LeafBits, Pay
  <2>4. e[x] = c[x] * (Len(root[x]) + 1)
    <3> HIDE DEF codes
    <3> QED
      BY <2>2
  <2> HIDE DEF e
  <2>5. SumFunctionOnSet(e, DOMAIN root) = LeafBits(c, root) + TreeWeight(c, root)
    <3>1. \A s \in DOMAIN root : e[s] = c[s] * (Len(root[s]) + 1)
      BY <2>4
    <3> QED
      BY <1>1, <3>1, LongerLeaves
  <2>6. 0 + c[x] = c[x]
    BY <1>1
  <2> QED
    BY <1>2, <1>3, <2>3, <2>5, <2>6
<1> HIDE DEF codes
<1> SUFFICES ASSUME NEW lengths \in [DOMAIN c -> Nat \ {0}], NEW l \in Nat,
                    Kraft(lengths, DOMAIN c, l)
             PROVE  LeafBits(c, codes) <= Pay(c, lengths, DOMAIN c)
  BY DEF OptimalCodes, codes
<1> DEFINE f == [n \in {x} |-> c[n] * lengths[n]]
           y == lengths[x]
<1>5. Pay(c, lengths, DOMAIN c) = SumFunctionOnSet(f, {x}) /\ f[x] = c[x] * y
  BY DEF Pay
<1>6. y \in Nat /\ 1 <= y
  OBVIOUS
<1> HIDE DEF f, y
<1>7. 1 * c[x] <= y * c[x] /\ y * c[x] \in Nat
  BY <1>1, <1>6, ProductMonotone
<1>8. f[x] \in Nat /\ c[x] <= f[x]
  BY <1>1, <1>5, <1>6, <1>7
<1>9. SumFunctionOnSet(f, {x}) = f[x]
  BY <1>8, SumSingle
<1> QED
  BY <1>4, <1>5, <1>8, <1>9

\* build_tree loses no bit, and what comes after it keeps the lengths.
OptimalInv ==
    /\ stage = "build_tree" => method = "huffman" /\ OptimalTrees(pending, counts)
    /\ stage = "encode" => method = "shannon_fano"
    /\ stage \in {"canonical", "rebuilt"} /\ method = "huffman" =>
           OptimalCodes(m_codes, counts)

\* The trees in the queue.
LEMMA QueueOfTrees ==
    ASSUME CodesInv, OptimalInv, stage = "build_tree"
    PROVE  IsQueue(pending, counts) /\ \A n \in pending : DOMAIN n \subseteq DOMAIN counts
<1>1. /\ IsFiniteSet(pending)
      /\ \A n \in pending : IsCodebook(n) /\ DOMAIN n \subseteq DOMAIN counts
      /\ \A n, m \in pending : n # m => DOMAIN n \cap DOMAIN m = {}
  BY DEF CodesInv, TreesInv
<1>2. /\ DOMAIN counts \subseteq Symbol
      /\ \A s \in DOMAIN counts : counts[s] \in Nat
  BY DEF CodesInv, TableInv
<1>3. IsFiniteSet(DOMAIN counts)
  BY <1>2, BookFinite
<1>4. ASSUME NEW n \in pending PROVE IsNode(counts, n)
  <2>1. /\ DOMAIN n \subseteq Symbol /\ DOMAIN n \subseteq DOMAIN counts
        /\ \A s \in DOMAIN n : n[s] \in Seq(BOOLEAN)
    BY <1>1 DEF IsCodebook
  <2>2. IsFiniteSet(DOMAIN n)
    BY <2>1, BookFinite
  <2>3. DOMAIN n # {}
    BY DEF OptimalInv, OptimalTrees
  <2> QED
    BY <1>2, <2>1, <2>2, <2>3 DEF IsNode
<1> QED
  BY <1>1, <1>2, <1>3, <1>4 DEF IsQueue

\* generate_huffman_codes.
LEMMA OptimalStarts ==
    ASSUME CodesInv, generate_huffman_codes
    PROVE  OptimalInv'
<1>1. /\ DOMAIN counts \subseteq Symbol
      /\ \A s \in DOMAIN counts : counts[s] \in Nat
  BY DEF CodesInv, TableInv
<1>2. IsFiniteSet(DOMAIN counts)
  BY <1>1, BookFinite
<1>3. OptimalTrees(Leaves(counts), counts)
  BY <1>1, <1>2, LeavesMatch
<1>4. pending' = Leaves(counts) /\ counts' = counts /\ method' = "huffman" /\ stage' = "build_tree"
  BY DEF generate_huffman_codes, Leaves
<1> QED
  BY <1>3, <1>4 DEF OptimalInv

\* One turn of the loop of build_tree.
LEMMA OptimalMerge ==
    ASSUME CodesInv, OptimalInv, MergeLightest
    PROVE  OptimalInv'
<1>1. /\ stage = "build_tree" /\ stage' = "build_tree" /\ method = "huffman"
      /\ method' = method /\ counts' = counts
  BY DEF MergeLightest, OptimalInv
<1>2. IsQueue(pending, counts) /\ OptimalTrees(pending, counts)
  BY <1>1, QueueOfTrees DEF OptimalInv
<1>3. PICK left \in Lightest(pending) : \E right \in Lightest(pending \ {left}) :
           pending' = (pending \ {left, right})
                        \cup {Merge(Prefixed(FALSE, left), Prefixed(TRUE, right))}
  BY DEF MergeLightest
<1>4. PICK right \in Lightest(pending \ {left}) :
           pending' = (pending \ {left, right})
                        \cup {Merge(Prefixed(FALSE, left), Prefixed(TRUE, right))}
  BY <1>3
<1>5. \A n : Frequency(n) = TreeWeight(counts, n)
  BY DEF Frequency, Weight, TreeWeight
<1>6. /\ left \in pending /\ right \in pending /\ left # right
      /\ \A n \in pending : TreeWeight(counts, left) <= TreeWeight(counts, n)
      /\ \A n \in pending \ {left} : TreeWeight(counts, right) <= TreeWeight(counts, n)
  BY <1>3, <1>4, <1>5 DEF Lightest
<1> DEFINE node == Merge(Prefixed(FALSE, left), Prefixed(TRUE, right))
<1>7. OptimalTrees((pending \ {left, right}) \cup {node}, counts)
  BY <1>2, <1>6, MergeMatches
<1>8. OptimalTrees(pending', counts')
  BY <1>1, <1>4, <1>7
<1> QED
  BY <1>1, <1>8 DEF OptimalInv

\* generate_codes_from_tree.
LEMMA OptimalFinishes ==
    ASSUME CodesInv, OptimalInv, generate_codes_from_tree
    PROVE  OptimalInv'
<1>1. /\ stage = "build_tree" /\ counts' = counts /\ Cardinality(pending) = 1
      /\ m_codes' = TreeCodes /\ stage' = "canonical"
  BY DEF generate_codes_from_tree
<1>2. /\ IsQueue(pending, counts) /\ OptimalTrees(pending, counts)
      /\ \A n \in pending : DOMAIN n \subseteq DOMAIN counts
  BY <1>1, QueueOfTrees DEF OptimalInv
<1> DEFINE root == CHOOSE n \in pending : TRUE
<1>3. root \in pending /\ pending = {root}
  <2>1. IsFiniteSet(pending)
    BY <1>2 DEF IsQueue
  <2> QED
    BY <1>1, <2>1, FS_Singleton
<1>4. TreeCodes = IF Cardinality(DOMAIN counts) = 1 THEN Prefixed(FALSE, root) ELSE root
  BY DEF TreeCodes
<1> HIDE DEF root
<1>5. IsQueue({root}, counts) /\ OptimalTrees({root}, counts)
  BY <1>2, <1>3
<1>6. CASE Cardinality(DOMAIN counts) = 1
  <2>1. IsFiniteSet(DOMAIN counts)
    BY <1>2 DEF IsQueue
  <2>2. PICK x : DOMAIN counts = {x}
    BY <1>6, <2>1, FS_Singleton
  <2>3. DOMAIN root # {} /\ DOMAIN root \subseteq DOMAIN counts
    BY <1>2, <1>3 DEF OptimalTrees
  <2>4. DOMAIN root = {x}
    BY <2>2, <2>3
  <2>5. OptimalCodes(Prefixed(FALSE, root), counts)
    BY <1>5, <2>2, <2>4, LoneCode
  <2>6. TreeCodes = Prefixed(FALSE, root)
    BY <1>4, <1>6
  <2> QED
    BY <1>1, <2>5, <2>6 DEF OptimalInv
<1>7. CASE Cardinality(DOMAIN counts) # 1
  <2>1. OptimalCodes(root, counts)
    BY <1>5, RootCodes
  <2>2. TreeCodes = root
    BY <1>4, <1>7
  <2> QED
    BY <1>1, <2>1, <2>2 DEF OptimalInv
<1> QED
  BY <1>6, <1>7

\* make_canonical_codes keeps the lengths.
LEMMA OptimalCanonical ==
    ASSUME CodesInv, OptimalInv, make_canonical_codes
    PROVE  OptimalInv'
<1> DEFINE f == m_codes
           lengths == [s \in DOMAIN f |-> Len(f[s])]
           g == Canonical(lengths)
<1>1. /\ m_codes' = g /\ counts' = counts /\ method' = method
      /\ stage = "canonical" /\ stage' = "rebuilt"
  BY DEF make_canonical_codes
<1>2. /\ DOMAIN f \subseteq Symbol /\ \A s \in DOMAIN f : f[s] \in Seq(BOOLEAN)
      /\ AllApart(f)
  BY DEF CodesInv, BookInv, IsCodebook
<1>3. IsFiniteSet(DOMAIN f) /\ DOMAIN f \subseteq Nat
  BY <1>2, BookFinite
<1> HIDE DEF f
<1>4. AreLengths(lengths) /\ Fit(lengths)
  BY <1>2, <1>3, CodesFit
<1>5. DOMAIN lengths = DOMAIN f /\ \A s \in DOMAIN f : lengths[s] = Len(f[s])
  OBVIOUS
<1> HIDE DEF lengths
<1>6. /\ DOMAIN g = DOMAIN f
      /\ \A s \in DOMAIN f : Len(g[s]) = Len(f[s])
  BY <1>4, <1>5, CanonicalShape
<1> HIDE DEF g
<1>7. LeafBits(counts, g) = LeafBits(counts, f)
  <2>1. [s \in DOMAIN g |-> Len(g[s])] = [s \in DOMAIN f |-> Len(f[s])]
    BY <1>6
  <2> QED
    BY <1>6, <2>1 DEF LeafBits
<1>8. OptimalCodes(f, counts) => OptimalCodes(g, counts)
  BY <1>7 DEF OptimalCodes
<1> QED
  BY <1>1, <1>8 DEF OptimalInv, f

\* Every step keeps it.
LEMMA OptimalStep ==
    CodesInv /\ OptimalInv /\ [Next]_vars => OptimalInv'
<1> SUFFICES ASSUME CodesInv, OptimalInv, [Next]_vars PROVE OptimalInv'
  OBVIOUS
<1>1. CASE generate_huffman_codes
  BY <1>1, OptimalStarts
<1>2. CASE MergeLightest
  BY <1>2, OptimalMerge
<1>3. CASE generate_codes_from_tree
  BY <1>3, OptimalFinishes
<1>4. CASE generate_shannon_fano_codes
  BY <1>4 DEF generate_shannon_fano_codes, OptimalInv
<1>5. CASE shannon_fano_encode
  BY <1>5 DEF shannon_fano_encode, OptimalInv
<1>6. CASE EncodeReturns
  BY <1>6 DEF EncodeReturns, OptimalInv
<1>7. CASE make_canonical_codes
  BY <1>7, OptimalCanonical
<1>8. CASE generate_shannon_codes
  BY <1>8 DEF generate_shannon_codes, OptimalInv
<1>9. CASE NoFrequencies
  BY <1>9 DEF NoFrequencies, OptimalInv
<1>10. CASE AgeSamples
  BY <1>10 DEF AgeSamples, OptimalInv
<1>11. CASE UNCHANGED vars
  BY <1>11 DEF vars, OptimalInv
<1> QED
  BY <1>1, <1>2, <1>3, <1>4, <1>5, <1>6, <1>7, <1>8, <1>9, <1>10, <1>11 DEF Next

\* The canonical codes of generate_huffman_codes take no more bits for the
\* sampled symbols than any prefix code, however the queue of build_tree orders
\* trees of one frequency.
THEOREM HuffmanCodesAreOptimal ==
    Spec => []HuffmanOptimal
<1>1. Init => OptimalInv
  BY DEF Init, OptimalInv
<1>2. CodesInv /\ OptimalInv => HuffmanOptimal
  <2> SUFFICES ASSUME CodesInv, OptimalInv, stage = "rebuilt", method = "huffman",
                      NEW lengths \in [DOMAIN counts -> 1 .. Cardinality(Symbol)],
                      IsPrefixCode(lengths)
               PROVE  Cost([s \in DOMAIN m_codes |-> Len(m_codes[s])]) <= Cost(lengths)
    BY DEF HuffmanOptimal
  <2> DEFINE D == DOMAIN counts
             k == Cardinality(Symbol)
             len == [s \in DOMAIN m_codes |-> Len(m_codes[s])]
  <2>1. k \in Nat
    BY BlockAssumption, FS_CardinalityType
  <2>2. lengths \in [D -> Nat \ {0}] /\ DOMAIN lengths = D /\ \A s \in D : lengths[s] <= k
    BY <2>1
  <2>3. Kraft(lengths, D, k)
    <3> DEFINE f == [s \in D |-> 2^(k - lengths[s])]
    <3>1. SumFunction(f) <= 2^k
      BY <2>2 DEF IsPrefixCode
    <3>2. SumFunction(f) = SumFunctionOnSet(f, D)
      BY DEF SumFunction
    <3> QED
      BY <2>2, <3>1, <3>2 DEF Kraft, Share
  <2>4. OptimalCodes(m_codes, counts)
    BY DEF OptimalInv
  <2>5. LeafBits(counts, m_codes) <= Pay(counts, lengths, D)
    BY <2>1, <2>2, <2>3, <2>4 DEF OptimalCodes
  <2>6. Cost(lengths) = Pay(counts, lengths, D)
    BY <2>2 DEF Cost, Pay, SumFunction
  <2>7. Cost(len) = LeafBits(counts, m_codes)
    BY DEF Cost, LeafBits, Pay, SumFunction
  <2> QED
    BY <2>5, <2>6, <2>7
<1> QED
  BY <1>1, <1>2, CodesInvariance, OptimalStep, PTL DEF Spec

-----------------------------------------------------------------------------
(* Frequent symbols. *)

\* Codes that are apart meet Kraft's inequality.
LEMMA CodesKraft ==
    ASSUME NEW codes, IsFiniteSet(DOMAIN codes),
           \A s \in DOMAIN codes : codes[s] \in Seq(BOOLEAN), AllApart(codes),
           NEW g \in [DOMAIN codes -> Nat], \A s \in DOMAIN codes : g[s] = Len(codes[s]),
           NEW l \in Nat, \A s \in DOMAIN codes : g[s] <= l
    PROVE  Kraft(g, DOMAIN codes, l)
<1> DEFINE D == DOMAIN codes
           f == [s \in D |-> 2^(l - g[s])]
           sum(T) == SumFunctionOnSet(f, T)
           Begun(T) == UNION {Words(codes[s], l) : s \in T}
           Size(T) == IsFiniteSet(Begun(T)) /\ Cardinality(Begun(T)) = sum(T)
           P == {T \in SUBSET D : Size(T)}
<1>1. ASSUME NEW s \in D
      PROVE  /\ codes[s] \in Seq(BOOLEAN) /\ f[s] \in Nat
             /\ IsFiniteSet(Words(codes[s], l)) /\ Cardinality(Words(codes[s], l)) = f[s]
  <2>1. codes[s] \in Seq(BOOLEAN) /\ Len(codes[s]) <= l /\ f[s] = 2^(l - Len(codes[s]))
    OBVIOUS
  <2>2. /\ IsFiniteSet(Words(codes[s], l))
        /\ Cardinality(Words(codes[s], l)) = 2^(l - Len(codes[s]))
    BY <2>1, WordCount
  <2>3. Cardinality(Words(codes[s], l)) \in Nat
    BY <2>2, FS_CardinalityType
  <2> QED
    BY <2>1, <2>2, <2>3
<1>2. Share(g, D, l) = sum(D)
  BY DEF Share
<1> HIDE DEF f
<1>3. IsSum(f, D)
  BY <1>1, SumLaws
<1>4. sum({}) = 0 /\ \A T \in SUBSET D : \A x \in D \ T : sum(T \cup {x}) = sum(T) + f[x]
  BY <1>3, Zenon DEF IsSum
<1> HIDE DEF sum
<1>5. ASSUME NEW T \in SUBSET D, \A U \in SUBSET T : U # T => U \in P
      PROVE  T \in P
  <2>1. CASE T = {}
    <3>1. Begun({}) = {}
      OBVIOUS
    <3>2. IsFiniteSet({}) /\ Cardinality({}) = 0
      BY FS_EmptySet
    <3> QED
      BY <1>4, <2>1, <3>1, <3>2
  <2>2. CASE T # {}
    <3>1. PICK x \in T : TRUE
      BY <2>2
    <3> DEFINE U == T \ {x}
               A == Begun(U)
               B == Words(codes[x], l)
    <3>2. U \in SUBSET T /\ U # T /\ U \in SUBSET D /\ x \in D \ U /\ T = U \cup {x}
      BY <3>1
    <3>3. IsFiniteSet(A) /\ Cardinality(A) = sum(U)
      <4>1. U \in P
        BY <1>5, <3>2
      <4> HIDE DEF U
      <4> QED
        BY <4>1
    <3>4. IsFiniteSet(B) /\ Cardinality(B) = f[x] /\ codes[x] \in Seq(BOOLEAN)
      BY <1>1, <3>2
    <3>5. A \cap B = {}
      <4> SUFFICES ASSUME NEW s \in U PROVE Words(codes[s], l) \cap B = {}
        OBVIOUS
      <4>1. Apart(codes[s], codes[x]) /\ codes[s] \in Seq(BOOLEAN)
        BY <1>1, <3>2 DEF AllApart
      <4> QED
        BY <3>4, <4>1, WordsApart
    <3>6. Begun(T) = A \cup B
      <4>1. ASSUME NEW w PROVE w \in Begun(T) <=> w \in A \cup B
        BY <3>2
      <4> QED
        BY <4>1
    <3>7. sum(T) = sum(U) + f[x]
      <4> HIDE DEF U
      <4> QED
        BY <1>4, <3>2
    <3> HIDE DEF U, A, B
    <3>8. IsFiniteSet(A \cup B) /\ Cardinality(A \cup B) = Cardinality(A) + Cardinality(B)
      <4>1. Cardinality(A) \in Nat /\ Cardinality(B) \in Nat /\ Cardinality(A \cap B) = 0
        BY <3>3, <3>4, <3>5, FS_CardinalityType, FS_EmptySet
      <4>2. /\ IsFiniteSet(A \cup B)
            /\ Cardinality(A \cup B) = Cardinality(A) + Cardinality(B) - Cardinality(A \cap B)
        BY <3>3, <3>4, FS_Union
      <4> QED
        BY <4>1, <4>2
    <3>9. IsFiniteSet(Begun(T)) /\ Cardinality(Begun(T)) = sum(T)
      <4> HIDE DEF Begun
      <4> QED
        BY <3>3, <3>4, <3>6, <3>7, <3>8
    <3> QED
      BY <3>9
  <2> QED
    BY <2>1, <2>2
<1>6. D \in P
  <2> HIDE DEF P
  <2> QED
    BY <1>5, SetInduct
<1>7. IsFiniteSet(Begun(D)) /\ Cardinality(Begun(D)) = sum(D)
  BY <1>6
<1> DEFINE W == Words(<< >>, l)
<1>8. << >> \in Seq(BOOLEAN) /\ Len(<< >>) = 0 /\ 0 <= l /\ l - 0 = l
  BY EmptySeq
<1>9. IsFiniteSet(W) /\ Cardinality(W) = 2^l
  <2>1. IsFiniteSet(W) /\ Cardinality(W) = 2^(l - Len(<< >>))
    BY <1>8, WordCount
  <2> QED
    BY <1>8, <2>1
<1>10. Begun(D) \in SUBSET W
  BY <1>8 DEF Words
<1> HIDE DEF W, Begun
<1>11. Cardinality(Begun(D)) <= Cardinality(W)
  BY <1>9, <1>10, FS_Subset
<1> QED
  BY <1>2, <1>7, <1>9, <1>11 DEF Kraft

\* A symbol with a greater count has no longer code.
FrequentIsShorter ==
    \A s, t \in DOMAIN counts :
        counts[s] > counts[t] => Len(m_codes[s]) <= Len(m_codes[t])

\* Optimal codes are like that: two symbols that are not could swap their codes.
LEMMA OptimalIsShorter ==
    ASSUME CodesInv, OptimalInv, stage = "rebuilt", method = "huffman"
    PROVE  FrequentIsShorter
<1> DEFINE D == DOMAIN counts
           g == [s \in D |-> Len(m_codes[s])]
           w == [s \in D |-> counts[s]]
<1> SUFFICES ASSUME NEW s \in D, NEW t \in D, counts[s] > counts[t],
                    ~(Len(m_codes[s]) <= Len(m_codes[t]))
             PROVE  FALSE
  BY DEF FrequentIsShorter
<1>1. /\ D \subseteq Symbol /\ \A x \in D : counts[x] \in Nat
      /\ DOMAIN m_codes = D
      /\ \A x \in D : m_codes[x] \in Seq(BOOLEAN)
      /\ AllApart(m_codes)
  BY DEF CodesInv, TableInv, BookInv, IsCodebook, CompleteInv
<1>2. IsFiniteSet(D)
  BY <1>1, BookFinite
<1>3. \A x \in D : Len(m_codes[x]) \in Nat
  BY <1>1, LenProperties
<1>4. /\ g \in [D -> Nat] /\ w \in [D -> Nat]
      /\ \A x \in D : g[x] = Len(m_codes[x]) /\ w[x] = counts[x]
  BY <1>1, <1>3
<1>5. w[t] < w[s] /\ g[t] < g[s] /\ w[t] <= w[s] /\ g[t] <= g[s] /\ s # t
  BY <1>1, <1>4
<1>6. \A x \in D : g[x] # 0
  <2> SUFFICES ASSUME NEW x \in D PROVE Len(m_codes[x]) # 0
    BY <1>4
  <2>1. PICK y \in D : y # x
    BY <1>5
  <2>2. Apart(m_codes[x], m_codes[y])
    BY <1>1, <2>1 DEF AllApart
  <2>3. PICK i \in Nat : i \in 1 .. Len(m_codes[x])
    BY <2>2 DEF Apart
  <2> QED
    BY <2>3
<1>7. LeafBits(counts, m_codes) = Pay(w, g, D)
  <2> DEFINE h == [x \in DOMAIN m_codes |-> Len(m_codes[x])]
  <2>1. h = g
    BY <1>1
  <2>2. LeafBits(counts, m_codes) = Pay(counts, g, D)
    BY <1>1, <2>1 DEF LeafBits
  <2>3. [x \in D |-> counts[x] * g[x]] = [x \in D |-> w[x] * g[x]]
    OBVIOUS
  <2> QED
    BY <2>2, <2>3 DEF Pay
<1> HIDE DEF g
<1>8. PICK l \in Nat : \A x \in D : g[x] <= l
  <2>1. PICK x \in D : \A n \in D : g[n] <= g[x]
    <3> HIDE DEF D
    <3> QED
      BY <1>2, <1>4, LongestElement
  <2> QED
    BY <1>4, <2>1
<1>9. Kraft(g, D, l)
  BY <1>1, <1>2, <1>4, <1>8, CodesKraft
<1>10. PICK h : /\ Swapped(g, h, D, t, s)
                /\ Kraft(h, D, l)
                /\ w[t] < w[s] /\ g[t] < g[s] => Pay(w, h, D) < Pay(w, g, D)
  <2> HIDE DEF D, w
  <2> QED
    BY <1>2, <1>4, <1>5, <1>9, SwapCodes
<1>11. h \in [D -> Nat] /\ h[t] = g[s] /\ h[s] = g[t] /\ \A x \in D \ {t, s} : h[x] = g[x]
  BY <1>10 DEF Swapped
<1>12. h \in [D -> Nat \ {0}]
  <2>1. \A x \in D : h[x] # 0
    BY <1>6, <1>11
  <2> QED
    BY <1>11, <2>1
<1>13. Pay(w, h, D) = Pay(counts, h, D)
  <2>1. [x \in D |-> counts[x] * h[x]] = [x \in D |-> w[x] * h[x]]
    OBVIOUS
  <2> QED
    BY <2>1 DEF Pay
<1> HIDE DEF w
<1>14. Pay(w, g, D) <= Pay(w, h, D)
  BY <1>7, <1>10, <1>12, <1>13 DEF OptimalInv, OptimalCodes
<1>15. Pay(w, g, D) \in Nat /\ Pay(w, h, D) \in Nat
  <2>1. \A x \in D : w[x] \in Nat
    BY <1>4
  <2> HIDE DEF D
  <2> QED
    BY <1>2, <1>4, <1>11, <2>1, SumOfBits
<1> QED
  BY <1>5, <1>10, <1>14, <1>15

\* generate_shannon_codes: a smaller count makes no shorter length.
LEMMA ShannonIsShorter ==
    ASSUME NEW s, NEW t, counts[s] \in Nat, counts[t] \in Nat, counts[t] >= 1,
           counts[t] <= counts[s], NEW total \in Nat, total >= 1
    PROVE  ShannonLength(s, total) <= ShannonLength(t, total)
<1> DEFINE M(x) == {n \in 0 .. total : counts[x] * 2^n >= total}
<1>1. M(t) \subseteq M(s)
  <2> SUFFICES ASSUME NEW n \in 0 .. total, counts[t] * 2^n >= total
               PROVE  counts[s] * 2^n >= total
    OBVIOUS
  <2> DEFINE y == 2^n
  <2>1. y \in Nat
    BY PowerFacts
  <2> HIDE DEF y
  <2>2. counts[t] * y <= counts[s] * y /\ counts[t] * y \in Nat /\ counts[s] * y \in Nat
    BY <2>1, ProductMonotone
  <2> QED
    BY <2>2 DEF y
<1>2. total \in M(t)
  <2> DEFINE y == 2^total
  <2>1. y \in Nat /\ y >= total
    BY PowerFacts, PowerExceeds
  <2> HIDE DEF y
  <2>2. 1 * y <= counts[t] * y /\ counts[t] * y \in Nat
    BY <2>1, ProductMonotone
  <2>3. counts[t] * y >= total
    BY <2>1, <2>2
  <2> QED
    BY <2>3 DEF y
<1>3. M(s) \in SUBSET Nat /\ M(s) # {} /\ M(t) \in SUBSET Nat /\ M(t) # {}
  <2>1. M(s) \in SUBSET Nat /\ M(t) \in SUBSET Nat
    OBVIOUS
  <2> HIDE DEF M
  <2> QED
    BY <1>1, <1>2, <2>1
<1> DEFINE a == Min(M(s))
           b == Min(M(t))
<1>4. a \in Nat /\ b \in Nat /\ a <= b
  <2> HIDE DEF M
  <2>1. a \in M(s) /\ b \in M(t) /\ \A n \in M(s) : a <= n
    BY <1>3, MinFacts
  <2> QED
    BY <1>1, <1>3, <2>1
<1>5. ShannonLength(s, total) = Max({1, a}) /\ ShannonLength(t, total) = Max({1, b})
  BY DEF ShannonLength
<1> HIDE DEF a, b
<1>6. Max({1, a}) <= Max({1, b})
  BY <1>4, MaxOfTwo
<1> QED
  BY <1>5, <1>6

\* The codes of generate_shannon_codes are like that, and are not made canonical
\* once more.
ShannonInv ==
    /\ stage = "canonical" => method # "shannon"
    /\ stage = "rebuilt" /\ method = "shannon" => FrequentIsShorter

\* generate_shannon_codes.
LEMMA ShannonSorted ==
    ASSUME CodesInv, generate_shannon_codes
    PROVE  FrequentIsShorter'
<1> DEFINE D == DOMAIN counts
           total == Weight(D)
           lengths == [s \in D |-> ShannonLength(s, total)]
           g == Canonical(lengths)
<1>1. m_codes' = g /\ counts' = counts /\ D # {}
  BY DEF generate_shannon_codes
<1>2. D \subseteq Symbol /\ \A s \in D : counts[s] \in Nat /\ counts[s] >= 1
  BY DEF CodesInv, TableInv
<1>3. IsFiniteSet(D) /\ D \subseteq Nat
  BY <1>2, BookFinite
<1>4. AreLengths(lengths)
  BY <1>1, <1>2, <1>3, ShannonFit
<1>5. total \in Nat /\ total >= 1
  <2>1. PICK s \in D : counts[s] \in Nat /\ counts[s] >= 1
    BY <1>1, <1>2
  <2>2. IsSum(counts, D) /\ D \in SUBSET D
    BY <1>2, <1>3, SumLaws
  <2>3. total \in Nat
    <3> HIDE DEF D
    <3> QED
      BY <2>2, Zenon DEF IsSum, Weight
  <2>4. counts[s] <= SumFunctionOnSet(counts, D)
    BY <1>2, <1>3, SumBounds
  <2> QED
    BY <2>1, <2>3, <2>4 DEF Weight
<1> HIDE DEF total
<1>6. DOMAIN lengths = D /\ \A s \in D : lengths[s] = ShannonLength(s, total)
  OBVIOUS
<1> HIDE DEF lengths
<1>7. \A s \in D : Len(g[s]) = ShannonLength(s, total)
  BY <1>4, <1>6, CanonicalShape
<1> HIDE DEF g
<1>8. ASSUME NEW s \in D, NEW t \in D, counts[s] > counts[t]
      PROVE  Len(g[s]) <= Len(g[t])
  <2>1. counts[s] \in Nat /\ counts[t] \in Nat /\ counts[t] >= 1 /\ counts[t] <= counts[s]
    BY <1>2, <1>8
  <2>2. ShannonLength(s, total) <= ShannonLength(t, total)
    BY <1>5, <2>1, ShannonIsShorter
  <2> QED
    BY <1>7, <2>2
<1> QED
  BY <1>1, <1>8 DEF FrequentIsShorter

\* Every step keeps it.
LEMMA ShannonStep ==
    CodesInv /\ OptimalInv /\ ShannonInv /\ [Next]_vars => ShannonInv'
<1> SUFFICES ASSUME CodesInv, OptimalInv, ShannonInv, [Next]_vars PROVE ShannonInv'
  OBVIOUS
<1>1. CASE generate_huffman_codes
  BY <1>1 DEF generate_huffman_codes, ShannonInv
<1>2. CASE MergeLightest
  BY <1>2 DEF MergeLightest, ShannonInv
<1>3. CASE generate_codes_from_tree
  BY <1>3 DEF generate_codes_from_tree, ShannonInv, OptimalInv
<1>4. CASE generate_shannon_fano_codes
  BY <1>4 DEF generate_shannon_fano_codes, ShannonInv
<1>5. CASE shannon_fano_encode
  BY <1>5 DEF shannon_fano_encode, ShannonInv
<1>6. CASE EncodeReturns
  BY <1>6 DEF EncodeReturns, ShannonInv, OptimalInv
<1>7. CASE make_canonical_codes
  BY <1>7 DEF make_canonical_codes, ShannonInv
<1>8. CASE generate_shannon_codes
  <2>1. FrequentIsShorter'
    BY <1>8, ShannonSorted
  <2> QED
    BY <1>8, <2>1 DEF generate_shannon_codes, ShannonInv
<1>9. CASE NoFrequencies
  BY <1>9 DEF NoFrequencies, ShannonInv
<1>10. CASE AgeSamples
  BY <1>10 DEF AgeSamples, ShannonInv
<1>11. CASE UNCHANGED vars
  BY <1>11 DEF vars, ShannonInv, FrequentIsShorter
<1> QED
  BY <1>1, <1>2, <1>3, <1>4, <1>5, <1>6, <1>7, <1>8, <1>9, <1>10, <1>11 DEF Next

\* When generate_huffman_codes or generate_shannon_codes has rebuilt the codebook,
\* a symbol that was sampled more often than another has no longer code.
\* (shannon_fano_encode makes no such promise: for the counts 10, 10, 10, 9, 9, 9
\* its code lengths are 3, 3, 2, 3, 3, 2 in the order of its sort.)
THEOREM FrequentSymbolsHaveShorterCodes ==
    Spec => [](stage = "rebuilt" /\ method # "shannon_fano" => FrequentIsShorter)
<1>1. Init => OptimalInv /\ ShannonInv
  BY DEF Init, OptimalInv, ShannonInv
<1>2. Init => method \in Method
  BY DEF Init
<1>3. method \in Method /\ [Next]_vars => (method \in Method)'
  BY DEF Next, vars, generate_huffman_codes, MergeLightest, generate_codes_from_tree,
         generate_shannon_fano_codes, shannon_fano_encode, EncodeReturns,
         make_canonical_codes, generate_shannon_codes, NoFrequencies, AgeSamples
<1>4. CodesInv /\ OptimalInv /\ ShannonInv /\ method \in Method =>
          (stage = "rebuilt" /\ method # "shannon_fano" => FrequentIsShorter)
  BY OptimalIsShorter DEF ShannonInv, Method
<1> QED
  BY <1>1, <1>2, <1>3, <1>4, CodesInvariance, OptimalStep, ShannonStep, PTL DEF Spec
=============================================================================
