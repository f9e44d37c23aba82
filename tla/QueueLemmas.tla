----------------------------- MODULE QueueLemmas -----------------------------
(***************************************************************************)
(* What appending to a queue, taking its head and joining two queues do to *)
(* the elements of a queue.  The proofs about the queues of a partition    *)
(* reason about which requests a queue holds, and that it holds none of    *)
(* them twice, rather than about positions.                                *)
(***************************************************************************)
EXTENDS Integers, Sequences, FiniteSets, SequencesExt, SequenceTheorems,
        FiniteSetTheorems, WellFoundedInduction, TLAPS

\* No element of R is in the queue s twice.
Once(s, R) == \A i, j \in DOMAIN s : s[i] = s[j] /\ s[i] \in R => i = j

\* The empty queue.
LEMMA EmptyQueue ==
    ASSUME NEW S
    PROVE  <<>> \in Seq(S) /\ ToSet(<<>>) = {} /\ Len(<<>>) = 0
BY DEF ToSet

\* It holds nothing twice.
LEMMA EmptyOnce ==
    ASSUME NEW R
    PROVE  Once(<<>>, R)
BY DEF Once

\* What is in a queue of elements of S is in S; a queue that is not empty has a
\* positive length.
LEMMA QueueElements ==
    ASSUME NEW S, NEW s \in Seq(S)
    PROVE  /\ ToSet(s) \subseteq S
           /\ Len(s) \in Nat
           /\ s # <<>> <=> Len(s) > 0
           /\ s # <<>> <=> ToSet(s) # {}
<1>1. DOMAIN s = 1 .. Len(s) /\ Len(s) \in Nat
  BY LenProperties
<1>2. s # <<>> <=> Len(s) > 0
  BY <1>1, EmptySeq
<1>3. ToSet(s) \subseteq S
  BY <1>1, ElementOfSeq DEF ToSet
<1>4. s # <<>> <=> ToSet(s) # {}
  BY <1>1, <1>2 DEF ToSet
<1> QED
  BY <1>1, <1>2, <1>3, <1>4

\* A request that enters a queue.
LEMMA AppendQueue ==
    ASSUME NEW S, NEW s \in Seq(S), NEW x \in S
    PROVE  /\ Append(s, x) \in Seq(S)
           /\ Len(Append(s, x)) = Len(s) + 1
           /\ Append(s, x) # <<>>
           /\ ToSet(Append(s, x)) = ToSet(s) \cup {x}
           /\ s # <<>> => Head(Append(s, x)) = Head(s)
           /\ s = <<>> => Head(Append(s, x)) = x
<1> DEFINE t == Append(s, x)
<1>1. /\ t \in Seq(S)
      /\ Len(s) \in Nat
      /\ Len(t) = Len(s) + 1
      /\ DOMAIN s = 1 .. Len(s)
      /\ DOMAIN t = 1 .. Len(s) + 1
      /\ \A i \in 1 .. Len(s) : t[i] = s[i]
      /\ t[Len(s) + 1] = x
  BY AppendProperties, LenProperties
<1>2. ToSet(t) = ToSet(s) \cup {x}
  BY <1>1 DEF ToSet
<1>4. s # <<>> => Len(s) > 0
  BY EmptySeq, <1>1
<1>5. t # <<>> /\ Head(t) = t[1]
  BY <1>1
<1>6. s # <<>> => Head(s) = s[1]
  OBVIOUS
<1>7. s = <<>> => Len(s) = 0
  OBVIOUS
<1> HIDE DEF t
<1>8. /\ s # <<>> => Head(t) = Head(s)
      /\ s = <<>> => Head(t) = x
  BY <1>1, <1>4, <1>5, <1>6, <1>7
<1> QED
  BY <1>1, <1>2, <1>5, <1>8 DEF t

\* A request that is not in a queue may enter it.
LEMMA AppendOnce ==
    ASSUME NEW S, NEW R, NEW s \in Seq(S), NEW x \in S, Once(s, R),
           x \in R => x \notin ToSet(s)
    PROVE  Once(Append(s, x), R)
<1> DEFINE t == Append(s, x)
<1>1. /\ Len(s) \in Nat
      /\ DOMAIN s = 1 .. Len(s)
      /\ DOMAIN t = 1 .. Len(s) + 1
      /\ \A i \in 1 .. Len(s) : t[i] = s[i]
      /\ t[Len(s) + 1] = x
  BY AppendProperties, LenProperties
<1> SUFFICES ASSUME NEW i \in DOMAIN t, NEW j \in DOMAIN t,
                    t[i] = t[j], t[i] \in R
             PROVE  i = j
  BY DEF Once
<1>2. \A k \in 1 .. Len(s) : s[k] \in ToSet(s)
  BY <1>1 DEF ToSet
<1>3. CASE i \in 1 .. Len(s) /\ j \in 1 .. Len(s)
  BY <1>1, <1>3 DEF Once
<1>4. CASE ~(i \in 1 .. Len(s) /\ j \in 1 .. Len(s))
  BY <1>1, <1>2, <1>4
<1> QED
  BY <1>3, <1>4

\* A request that leaves a queue.
LEMMA TailQueue ==
    ASSUME NEW S, NEW s \in Seq(S), s # <<>>
    PROVE  /\ Tail(s) \in Seq(S)
           /\ Len(Tail(s)) = Len(s) - 1
           /\ Head(s) \in S
           /\ Head(s) \in ToSet(s)
           /\ ToSet(Tail(s)) \subseteq ToSet(s)
           /\ ToSet(s) = ToSet(Tail(s)) \cup {Head(s)}
<1> DEFINE t == Tail(s)
<1>1. /\ t \in Seq(S)
      /\ Len(s) \in Nat \ {0}
      /\ Len(t) = Len(s) - 1
      /\ DOMAIN s = 1 .. Len(s)
      /\ DOMAIN t = 1 .. Len(s) - 1
      /\ \A i \in 1 .. Len(s) - 1 : t[i] = s[i + 1]
      /\ Head(s) = s[1]
      /\ s[1] \in S
  BY EmptySeq, LenProperties, HeadTailProperties, ElementOfSeq
<1> HIDE DEF t
<1>2. s[1] \in ToSet(s)
  BY <1>1 DEF ToSet
<1>3. ToSet(t) \subseteq ToSet(s)
  BY <1>1 DEF ToSet
<1>4. ToSet(s) = ToSet(t) \cup {s[1]}
  <2>1. ASSUME NEW i \in 1 .. Len(s), i # 1 PROVE s[i] \in ToSet(t)
    <3>1. i - 1 \in DOMAIN t /\ t[i - 1] = s[i]
      BY <1>1, <2>1
    <3> QED
      BY <3>1 DEF ToSet
  <2>2. ToSet(s) \subseteq ToSet(t) \cup {s[1]}
    BY <1>1, <2>1 DEF ToSet
  <2> QED
    BY <1>2, <1>3, <2>2
<1> QED
  BY <1>1, <1>2, <1>3, <1>4 DEF t

\* The head of a queue that holds it once is gone from the rest.
LEMMA TailOnce ==
    ASSUME NEW S, NEW R, NEW s \in Seq(S), s # <<>>, Once(s, R)
    PROVE  /\ Once(Tail(s), R)
           /\ Head(s) \in R => Head(s) \notin ToSet(Tail(s))
<1> DEFINE t == Tail(s)
<1>1. /\ Len(s) \in Nat \ {0}
      /\ DOMAIN s = 1 .. Len(s)
      /\ DOMAIN t = 1 .. Len(s) - 1
      /\ \A i \in 1 .. Len(s) - 1 : t[i] = s[i + 1]
      /\ Head(s) = s[1]
  BY EmptySeq, LenProperties, HeadTailProperties
<1> HIDE DEF t
<1>2. Once(t, R)
  <2> SUFFICES ASSUME NEW i \in DOMAIN t, NEW j \in DOMAIN t,
                      t[i] = t[j], t[i] \in R
               PROVE  i = j
    BY DEF Once
  <2>1. i + 1 = j + 1
    BY <1>1 DEF Once
  <2> QED
    BY <1>1, <2>1
<1>3. ASSUME s[1] \in R, s[1] \in ToSet(t) PROVE FALSE
  <2>1. PICK i \in DOMAIN t : t[i] = s[1]
    BY <1>3 DEF ToSet
  <2>2. i + 1 \in DOMAIN s /\ s[i + 1] = s[1] /\ i + 1 # 1
    BY <1>1, <2>1
  <2> QED
    BY <1>1, <1>3, <2>2 DEF Once
<1> QED
  BY <1>1, <1>2, <1>3 DEF t

\* Two queues behind each other.
LEMMA ConcatQueue ==
    ASSUME NEW S, NEW s \in Seq(S), NEW t \in Seq(S)
    PROVE  /\ s \o t \in Seq(S)
           /\ Len(s \o t) = Len(s) + Len(t)
           /\ ToSet(s \o t) = ToSet(s) \cup ToSet(t)
<1> DEFINE u == s \o t
<1>1. /\ u \in Seq(S)
      /\ Len(s) \in Nat /\ Len(t) \in Nat
      /\ Len(u) = Len(s) + Len(t)
      /\ DOMAIN s = 1 .. Len(s)
      /\ DOMAIN t = 1 .. Len(t)
      /\ DOMAIN u = 1 .. Len(s) + Len(t)
  BY ConcatProperties, LenProperties
<1>2. /\ \A i \in 1 .. Len(s) : u[i] = s[i]
      /\ \A i \in 1 .. Len(t) : u[Len(s) + i] = t[i]
  BY ConcatProperties, <1>1
<1> HIDE DEF u
<1>3. \A i \in DOMAIN u : \/ i \in DOMAIN s /\ u[i] = s[i]
                          \/ i - Len(s) \in DOMAIN t /\ u[i] = t[i - Len(s)]
  BY <1>1, <1>2
<1>4. ToSet(u) \subseteq ToSet(s) \cup ToSet(t)
  BY <1>3 DEF ToSet
<1>5. ToSet(s) \subseteq ToSet(u)
  BY <1>1, <1>2 DEF ToSet
<1>6. ToSet(t) \subseteq ToSet(u)
  <2>1. \A i \in DOMAIN t : Len(s) + i \in DOMAIN u
    BY <1>1
  <2> QED
    BY <1>1, <1>2, <2>1 DEF ToSet
<1> QED
  BY <1>1, <1>4, <1>5, <1>6 DEF u

\* Two queues with no element of R in common, behind each other.
LEMMA ConcatOnce ==
    ASSUME NEW S, NEW R, NEW s \in Seq(S), NEW t \in Seq(S),
           Once(s, R), Once(t, R), R \cap ToSet(s) \cap ToSet(t) = {}
    PROVE  Once(s \o t, R)
<1> DEFINE u == s \o t
<1>1. /\ u \in Seq(S)
      /\ Len(s) \in Nat /\ Len(t) \in Nat
      /\ Len(u) = Len(s) + Len(t)
      /\ DOMAIN s = 1 .. Len(s)
      /\ DOMAIN t = 1 .. Len(t)
      /\ DOMAIN u = 1 .. Len(s) + Len(t)
  BY ConcatProperties, LenProperties
<1>2. /\ \A i \in 1 .. Len(s) : u[i] = s[i]
      /\ \A i \in 1 .. Len(t) : u[Len(s) + i] = t[i]
  BY ConcatProperties, <1>1
<1> HIDE DEF u
<1>3. \A i \in DOMAIN u : \/ i \in DOMAIN s /\ u[i] = s[i]
                          \/ i - Len(s) \in DOMAIN t /\ u[i] = t[i - Len(s)]
  BY <1>1, <1>2
<1>4. Once(u, R)
  <2> SUFFICES ASSUME NEW i \in DOMAIN u, NEW j \in DOMAIN u,
                      u[i] = u[j], u[i] \in R
               PROVE  i = j
    BY DEF Once
  <2>1. /\ \A k \in DOMAIN s : s[k] \in ToSet(s)
        /\ \A k \in DOMAIN t : t[k] \in ToSet(t)
    BY DEF ToSet
  <2>2. CASE i \in DOMAIN s /\ j \in DOMAIN s
    BY <1>1, <1>2, <2>2 DEF Once
  <2>3. CASE i \notin DOMAIN s /\ j \notin DOMAIN s
    <3>1. i - Len(s) = j - Len(s)
      BY <1>3, <2>3 DEF Once
    <3> QED
      BY <1>1, <3>1
  <2>4. CASE i \in DOMAIN s /\ j \notin DOMAIN s
    <3>1. u[i] \in ToSet(s) /\ u[j] \in ToSet(t)
      BY <1>1, <1>2, <1>3, <2>1, <2>4
    <3> QED
      BY <3>1
  <2>5. CASE i \notin DOMAIN s /\ j \in DOMAIN s
    <3>1. u[i] \in ToSet(t) /\ u[j] \in ToSet(s)
      BY <1>1, <1>2, <1>3, <2>1, <2>5
    <3> QED
      BY <3>1
  <2> QED
    BY <2>2, <2>3, <2>4, <2>5
<1> QED
  BY <1>4 DEF u

\* A queue of one element.
LEMMA SingleQueue ==
    ASSUME NEW S, NEW x \in S
    PROVE  /\ <<x>> \in Seq(S)
           /\ Len(<<x>>) = 1
           /\ ToSet(<<x>>) = {x}
BY DEF ToSet

\* It holds nothing twice.
LEMMA SingleOnce ==
    ASSUME NEW R, NEW x
    PROVE  Once(<<x>>, R)
BY DEF Once

\* The number of times an element of R occurs in a queue that has it once.
LEMMA OnceCount ==
    ASSUME NEW S, NEW R, NEW s \in Seq(S), Once(s, R), NEW x \in R
    PROVE  LET P == {i \in DOMAIN s : s[i] = x}
           IN  /\ IsFiniteSet(P)
               /\ Cardinality(P) = IF x \in ToSet(s) THEN 1 ELSE 0
<1> DEFINE P == {i \in DOMAIN s : s[i] = x}
<1>1. CASE x \in ToSet(s)
  <2>1. PICK i \in DOMAIN s : s[i] = x
    BY <1>1 DEF ToSet
  <2>2. P = {i}
    BY <2>1 DEF Once
  <2> QED
    BY <1>1, <2>2, FS_Singleton
<1>2. CASE x \notin ToSet(s)
  <2>1. P = {}
    BY <1>2 DEF ToSet
  <2> QED
    BY <1>2, <2>1, FS_EmptySet
<1> QED
  BY <1>1, <1>2

\* A queue is as long as the set of its elements is large, if it has none twice.
LEMMA OnceLength ==
    ASSUME NEW S, NEW s \in Seq(S), Once(s, S)
    PROVE  Cardinality(ToSet(s)) = Len(s)
<1>1. /\ Len(s) \in Nat
      /\ DOMAIN s = 1 .. Len(s)
      /\ \A i \in 1 .. Len(s) : s[i] \in S
  BY LenProperties, ElementOfSeq
<1>2. s \in [1 .. Len(s) -> ToSet(s)]
  <2>1. s = [i \in 1 .. Len(s) |-> s[i]]
    BY <1>1
  <2>2. \A i \in 1 .. Len(s) : s[i] \in ToSet(s)
    BY <1>1 DEF ToSet
  <2> QED
    BY <2>1, <2>2
<1>3. \A i, j \in 1 .. Len(s) : s[i] = s[j] => i = j
  BY <1>1 DEF Once
<1>4. \A x \in ToSet(s) : \E i \in 1 .. Len(s) : s[i] = x
  BY <1>1 DEF ToSet
<1>5. s \in Bijection(1 .. Len(s), ToSet(s))
  BY <1>2, <1>3, <1>4 DEF Bijection, Injection, Surjection, IsInjective
<1>6. ExistsBijection(1 .. Len(s), ToSet(s))
  BY <1>5 DEF ExistsBijection
<1> QED
  BY <1>1, <1>6, FS_CountingElements

\* A set of positions that is not empty has a first one.
LEMMA FirstPosition ==
    ASSUME NEW P \in SUBSET Nat, P # {}
    PROVE  \E i \in P : \A j \in P : i <= j
<1> DEFINE R == OpToRel(<, Nat)
<1>1. IsWellFoundedOn(R, Nat)
  BY NatLessThanWellFounded
<1>2. \A i, j \in Nat : <<j, i>> \in R <=> j < i
  BY DEF OpToRel
<1> HIDE DEF R
<1>3. PICK i \in P : \A j \in P : ~(<<j, i>> \in R)
  BY <1>1, WFMin
<1>4. \A j \in P : ~(j < i)
  BY <1>2, <1>3, Zenon
<1>5. \A j \in P : i <= j
  BY <1>4
<1> QED
  BY <1>5
=============================================================================
