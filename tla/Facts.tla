------------------------------- MODULE Facts -------------------------------
(***************************************************************************)
(* What the proofs need of sequences and numbers, whatever they are used   *)
(* for: what Append and \o do to sequences of opaque values, whose         *)
(* elements have no type (the theorems of the library ask for one);        *)
(* induction and recursion; the powers of two.                             *)
(***************************************************************************)
EXTENDS Integers, Sequences, Functions, SequenceTheorems, FiniteSetTheorems,
        WellFoundedInduction, TLAPS

---------------------------------------------------------------------------
(* Sequences.                                                              *)

(* A sequence of opaque values, by its shape.                              *)
IsSequence(c) == c \in Seq(Range(c))

(* A sequence of anything is a sequence of its own elements.               *)
LEMMA OfItsElements ==
    ASSUME NEW S, NEW c \in Seq(S)
    PROVE  IsSequence(c)
<1>1. DOMAIN c = 1..Len(c) /\ Len(c) \in Nat
  BY LenProperties
<1>2. \A i \in 1..Len(c) : c[i] \in Range(c)
  BY <1>1 DEF Range
<1>3. c \in Seq(Range(c))
  BY <1>2
<1> QED BY <1>3 DEF IsSequence

(* What Append does to a sequence whose elements have no type of their own *)
(* (std::vector::push_back).                                               *)
LEMMA AppendToSequence ==
    ASSUME NEW c, IsSequence(c), NEW e
    PROVE  /\ IsSequence(Append(c, e))
           /\ Append(c, e) # <<>>
           /\ Len(c) \in Nat
           /\ DOMAIN c = 1..Len(c)
           /\ Len(Append(c, e)) = Len(c) + 1
           /\ DOMAIN Append(c, e) = 1..Len(c) + 1
           /\ \A i \in 1..Len(c) : Append(c, e)[i] = c[i]
           /\ Append(c, e)[Len(c) + 1] = e
<1> DEFINE S == Range(c) \cup {e}
           d == Append(c, e)
<1>1. c \in Seq(S)
  BY SeqMonotonic, Range(c) \subseteq S DEF IsSequence
<1>2. /\ d \in Seq(S)
      /\ Len(d) = Len(c) + 1
      /\ \A i \in 1..Len(c) : d[i] = c[i]
      /\ d[Len(c) + 1] = e
      /\ d # <<>>
  BY <1>1, AppendProperties
<1>3. Len(c) \in Nat /\ DOMAIN c = 1..Len(c) /\ DOMAIN d = 1..Len(c) + 1
  BY <1>1, <1>2, LenProperties
<1>4. IsSequence(d)
  BY <1>2, OfItsElements
<1> QED BY <1>2, <1>3, <1>4 DEF IsSequence

(* A sequence that is not empty has a length that is not zero.             *)
LEMMA SeqOfLengthZero ==
    ASSUME NEW S, NEW c \in Seq(S), c # <<>>
    PROVE  Len(c) # 0
BY EmptySeq, SeqEqual

(* Concatenation (the state of a hasher takes in a block).                 *)
LEMMA ConcatSequences ==
    ASSUME NEW c, IsSequence(c), NEW d, IsSequence(d), NEW e, e = c \o d
    PROVE  /\ IsSequence(e)
           /\ Len(c) \in Nat /\ Len(d) \in Nat
           /\ Len(e) = Len(c) + Len(d)
           /\ \A i \in 1..Len(c) : e[i] = c[i]
           /\ \A i \in 1..Len(d) : e[Len(c) + i] = d[i]
<1> DEFINE S == Range(c) \cup Range(d)
<1>1. c \in Seq(S) /\ d \in Seq(S)
  BY SeqMonotonic, Range(c) \subseteq S, Range(d) \subseteq S DEF IsSequence
<1>2. /\ e \in Seq(S)
      /\ Len(e) = Len(c) + Len(d)
      /\ \A i \in 1..Len(c) + Len(d) :
             e[i] = IF i <= Len(c) THEN c[i] ELSE d[i - Len(c)]
  BY <1>1, ConcatProperties
<1>3. Len(c) \in Nat /\ Len(d) \in Nat
  BY <1>1, LenProperties
<1>4. IsSequence(e)
  BY <1>2, OfItsElements
<1>5. \A i \in 1..Len(c) : e[i] = c[i]
  BY <1>2, <1>3
<1>6. ASSUME NEW i \in 1..Len(d) PROVE e[Len(c) + i] = d[i]
  <2>1. Len(c) + i \in 1..Len(c) + Len(d) /\ ~(Len(c) + i <= Len(c))
    BY <1>3
  <2>2. Len(c) + i - Len(c) = i
    BY <1>3
  <2> QED BY <1>2, <2>1, <2>2
<1> QED BY <1>2, <1>3, <1>4, <1>5, <1>6

(* An element of a sequence is replaced (a byte of a buffer).              *)
LEMMA ExceptSequence ==
    ASSUME NEW c, IsSequence(c), NEW i \in 1..Len(c), NEW e,
           NEW d, d = [c EXCEPT ![i] = e]
    PROVE  /\ IsSequence(d)
           /\ Len(d) = Len(c)
           /\ d[i] = e
           /\ \A j \in 1..Len(c) : j # i => d[j] = c[j]
<1> DEFINE S == Range(c) \cup {e}
<1>1. c \in Seq(S)
  BY SeqMonotonic, Range(c) \subseteq S DEF IsSequence
<1>2. d \in Seq(S) /\ Len(d) = Len(c) /\ \A j \in 1..Len(c) : d[j] = IF j = i THEN e ELSE c[j]
  BY <1>1, ExceptSeq
<1>3. IsSequence(d)
  BY <1>2, OfItsElements
<1> QED BY <1>2, <1>3

(* Appending is concatenation with a sequence of one.                      *)
LEMMA AppendAsConcat ==
    ASSUME NEW c, IsSequence(c), NEW e
    PROVE  c \o <<e>> = Append(c, e)
<1> DEFINE S == Range(c) \cup {e}
<1>1. c \in Seq(S) /\ e \in S
  BY SeqMonotonic, Range(c) \subseteq S DEF IsSequence
<1> QED BY <1>1, AppendIsConcat

(* What is left of a sequence behind its first k elements (a packet was    *)
(* taken from a socket).                                                   *)
LEMMA SuffixOfSequence ==
    ASSUME NEW c, IsSequence(c), NEW k \in 0..Len(c),
           NEW d, d = SubSeq(c, k + 1, Len(c))
    PROVE  /\ IsSequence(d)
           /\ Len(d) = Len(c) - k
           /\ \A i \in 1..Len(d) : d[i] = c[k + i]
<1> DEFINE S == Range(c)
<1>1. Len(c) \in Nat /\ \A i \in 1..Len(c) : c[i] \in S
  BY ElementOfSeq, LenProperties DEF IsSequence
<1>2. k + 1 \in Int /\ Len(c) \in Int /\ k \in Nat /\ k <= Len(c)
  BY <1>1
<1>3. \A i \in k + 1..Len(c) : c[i] \in S
  BY <1>1
<1>4. /\ SubSeq(c, k + 1, Len(c)) \in Seq(S)
      /\ Len(SubSeq(c, k + 1, Len(c))) =
             IF k + 1 <= Len(c) THEN Len(c) - (k + 1) + 1 ELSE 0
      /\ \A i \in 1..Len(c) - (k + 1) + 1 :
             SubSeq(c, k + 1, Len(c))[i] = c[(k + 1) + i - 1]
  <2> HIDE DEF S
  <2> QED BY <1>2, <1>3, SubSeqProperties
<1>5. /\ d \in Seq(S)
      /\ Len(d) = IF k + 1 <= Len(c) THEN Len(c) - (k + 1) + 1 ELSE 0
      /\ \A i \in 1..Len(c) - (k + 1) + 1 : d[i] = c[(k + 1) + i - 1]
  BY <1>4, Zenon
<1>6. (IF k + 1 <= Len(c) THEN Len(c) - (k + 1) + 1 ELSE 0) = Len(c) - k
  BY <1>2
<1>7. Len(d) = Len(c) - k
  BY <1>5, <1>6, Zenon
<1>8. ASSUME NEW i \in 1..Len(c) - k
      PROVE  /\ (k + 1) + i - 1 = k + i
             /\ i \in 1..Len(c) - (k + 1) + 1
  BY <1>2
<1>9. \A i \in 1..Len(d) : d[i] = c[k + i]
  BY <1>5, <1>7, <1>8, Zenon
<1>10. IsSequence(d)
  BY <1>5, OfItsElements, Zenon
<1> QED BY <1>7, <1>9, <1>10, Zenon

(* Two sequences that agree between m and n have the same part there.      *)
LEMMA SameSubSeq ==
    ASSUME NEW c, NEW d, NEW m \in Int, NEW n \in Int,
           \A i \in m..n : d[i] = c[i]
    PROVE  SubSeq(d, m, n) = SubSeq(c, m, n)
<1> DEFINE S == {c[i] : i \in m..n}
<1>1. \A i \in m..n : c[i] \in S /\ d[i] \in S
  OBVIOUS
<1> HIDE DEF S
<1>2. /\ SubSeq(c, m, n) \in Seq(S) /\ SubSeq(d, m, n) \in Seq(S)
      /\ Len(SubSeq(d, m, n)) = Len(SubSeq(c, m, n))
      /\ Len(SubSeq(d, m, n)) = IF m <= n THEN n - m + 1 ELSE 0
      /\ \A i \in 1..n - m + 1 : SubSeq(c, m, n)[i] = c[m + i - 1]
      /\ \A i \in 1..n - m + 1 : SubSeq(d, m, n)[i] = d[m + i - 1]
  BY <1>1, SubSeqProperties
<1>3. 1..(IF m <= n THEN n - m + 1 ELSE 0) \subseteq 1..n - m + 1
  OBVIOUS
<1>4. \A i \in 1..n - m + 1 : m + i - 1 \in m..n
  OBVIOUS
<1>5. \A i \in 1..Len(SubSeq(d, m, n)) : SubSeq(d, m, n)[i] = SubSeq(c, m, n)[i]
  <2> SUFFICES ASSUME NEW i \in 1..Len(SubSeq(d, m, n))
               PROVE  SubSeq(d, m, n)[i] = SubSeq(c, m, n)[i]
    OBVIOUS
  <2>1. i \in 1..n - m + 1
    BY <1>2, <1>3, Zenon
  <2>2. d[m + i - 1] = c[m + i - 1]
    BY <1>4, <2>1, Zenon
  <2> QED BY <1>2, <2>1, <2>2, Zenon
<1> QED BY <1>2, <1>5, SeqEqual, Zenon

---------------------------------------------------------------------------
(* Numbers.                                                                *)

(* A set of numbers that has a member has a least one.                     *)
LEMMA LeastNumber ==
    ASSUME NEW T \in SUBSET Nat, T # {}
    PROVE  \E n \in T : \A m \in T : n <= m
<1> DEFINE R == {ss \in Nat \X Nat : ss[1] < ss[2]}
<1>1. IsWellFoundedOn(R, Nat)
  BY NatLessThanWellFounded DEF OpToRel
<1> HIDE DEF R
<1>2. PICK n \in T : \A m \in T : ~(<<m, n>> \in R)
  BY <1>1, WFMin
<1>3. \A m \in T : ~(m < n)
  BY <1>2 DEF R
<1> QED BY <1>3

(* And a greatest one, if there is a bound.                                *)
LEMMA GreatestUpTo ==
    ASSUME NEW N \in Nat, NEW T \in SUBSET (0..N), T # {}
    PROVE  \E n \in T : \A m \in T : m <= n
<1> DEFINE U == {k \in Nat : N - k \in T}
<1>1. U \in SUBSET Nat /\ U # {}
  <2>1. PICK n \in T : TRUE
    OBVIOUS
  <2>2. N - n \in U
    BY <2>1
  <2> QED BY <2>2
<1>2. PICK k \in U : \A j \in U : k <= j
  <2> HIDE DEF U
  <2> QED BY <1>1, LeastNumber
<1>3. N - k \in T /\ \A m \in T : m <= N - k
  <2>1. ASSUME NEW m \in T PROVE m <= N - k
    <3>1. N - m \in U
      OBVIOUS
    <3>2. k <= N - m
      BY <1>2, <3>1
    <3> QED BY <3>2
  <2> QED BY <2>1
<1> QED BY <1>3

(* Induction, with a set for the property: the theorems of the library     *)
(* take an operator.                                                       *)
LEMMA Induction ==
    ASSUME NEW T, 0 \in T, \A n \in Nat : n \in T => n + 1 \in T
    PROVE  Nat \subseteq T
<1> DEFINE U == Nat \ T
<1> SUFFICES ASSUME U # {} PROVE FALSE
  OBVIOUS
<1>1. PICK n \in U : \A m \in U : n <= m
  <2>1. U \in SUBSET Nat
    OBVIOUS
  <2> HIDE DEF U
  <2> QED BY <2>1, LeastNumber
<1>2. n # 0 /\ n - 1 \in Nat /\ n - 1 \notin U
  BY <1>1
<1> QED BY <1>1, <1>2

(* Induction over the turns of a loop.                                     *)
LEMMA InductionUpTo ==
    ASSUME NEW N \in Nat, NEW T, 0 \in T, \A n \in 0..N - 1 : n \in T => n + 1 \in T
    PROVE  0..N \subseteq T
<1> DEFINE U == {n \in Nat : n <= N => n \in T}
<1>1. 0 \in U
  OBVIOUS
<1>2. \A n \in Nat : n \in U => n + 1 \in U
  OBVIOUS
<1> HIDE DEF U
<1>3. Nat \subseteq U
  BY <1>1, <1>2, Induction
<1> QED BY <1>3 DEF U

(* The function f is computed from e, step by step.                        *)
Iterates(f, D, S, e, step) ==
    /\ f \in [D -> S]
    /\ \A n \in D : f[n] = IF n = 0 THEN e ELSE step[n][f[n - 1]]

(* There is a function that is defined by recursion.  A definition         *)
(* f[n \in Nat] == ... names one of those, if there is one.                *)
LEMMA Recursion ==
    ASSUME NEW S, NEW e \in S, NEW step \in [Nat -> [S -> S]]
    PROVE  \E f : Iterates(f, Nat, S, e, step)
<1> DEFINE Start(n) == {g \in [0..n -> S] : /\ g[0] = e
                                            /\ \A k \in 0..n - 1 : g[k + 1] = step[k + 1][g[k]]}
<1>1. \A n \in Nat : Start(n) # {}
  <2> DEFINE T == {n \in Nat : Start(n) # {}}
  <2>1. 0 \in T
    <3>1. [k \in 0..0 |-> e] \in Start(0)
      OBVIOUS
    <3> QED BY <3>1
  <2>2. ASSUME NEW n \in Nat, n \in T PROVE n + 1 \in T
    <3>1. PICK g \in Start(n) : TRUE
      BY <2>2
    <3> DEFINE h == [k \in 0..n + 1 |-> IF k = n + 1 THEN step[n + 1][g[n]] ELSE g[k]]
    <3>2. g \in [0..n -> S] /\ g[0] = e /\ \A k \in 0..n - 1 : g[k + 1] = step[k + 1][g[k]]
      BY <3>1
    <3>3. step[n + 1] \in [S -> S] /\ g[n] \in S
      BY <3>2
    <3>4. h \in [0..n + 1 -> S]
      BY <3>2, <3>3
    <3>5. h[0] = e
      BY <3>2
    <3>6. ASSUME NEW k \in 0..(n + 1) - 1 PROVE h[k + 1] = step[k + 1][h[k]]
      <4>1. CASE k = n
        BY <4>1
      <4>2. CASE k # n
        <5>1. k \in 0..n - 1 /\ k + 1 \in 0..n + 1 /\ k + 1 # n + 1 /\ k \in 0..n + 1 /\ k # n + 1
          BY <4>2
        <5> QED BY <5>1, <3>2
      <4> QED BY <4>1, <4>2
    <3> HIDE DEF h
    <3>7. h \in Start(n + 1)
      BY <3>4, <3>5, <3>6
    <3> QED BY <3>7
  <2> HIDE DEF T
  <2>3. Nat \subseteq T
    BY <2>1, <2>2, Induction
  <2> QED BY <2>3 DEF T
<1>2. ASSUME NEW n \in Nat, NEW g \in Start(n), NEW m \in Nat, n <= m, NEW h \in Start(m)
      PROVE  \A k \in 0..n : g[k] = h[k]
  <2> DEFINE T == {k \in Nat : k <= n => g[k] = h[k]}
  <2>1. 0 \in T
    OBVIOUS
  <2>2. ASSUME NEW k \in Nat, k \in T PROVE k + 1 \in T
    <3>1. CASE k + 1 <= n
      <4>1. k \in 0..n - 1 /\ k \in 0..m - 1 /\ k <= n
        BY <1>2, <3>1
      <4>2. g[k + 1] = step[k + 1][g[k]] /\ h[k + 1] = step[k + 1][h[k]]
        BY <4>1
      <4> QED BY <2>2, <4>1, <4>2
    <3> QED BY <3>1
  <2> HIDE DEF T
  <2>3. Nat \subseteq T
    BY <2>1, <2>2, Induction
  <2> QED BY <2>3 DEF T
<1> DEFINE first(n) == CHOOSE g \in Start(n) : TRUE
           f        == [n \in Nat |-> first(n)[n]]
<1>3. \A n \in Nat : first(n) \in Start(n)
  BY <1>1
<1> HIDE DEF first
<1>4. f \in [Nat -> S] /\ f[0] = e
  <2>1. ASSUME NEW n \in Nat PROVE first(n)[n] \in S
    BY <1>3
  <2>2. first(0)[0] = e
    BY <1>3
  <2> QED BY <2>1, <2>2
<1>5. ASSUME NEW n \in Nat PROVE f[n + 1] = step[n + 1][f[n]]
  <2>1. first(n) \in Start(n) /\ first(n + 1) \in Start(n + 1)
    BY <1>3
  <2>2. first(n)[n] = first(n + 1)[n]
    <3> HIDE DEF Start
    <3> QED BY <2>1, <1>2, n <= n + 1, n \in 0..n, n + 1 \in Nat
  <2>3. first(n + 1)[n + 1] = step[n + 1][first(n + 1)[n]]
    BY <2>1
  <2> QED BY <2>2, <2>3
<1> HIDE DEF f
<1>6. ASSUME NEW n \in Nat \ {0} PROVE f[n] = step[n][f[n - 1]]
  <2>1. n - 1 \in Nat /\ (n - 1) + 1 = n
    OBVIOUS
  <2>2. f[(n - 1) + 1] = step[(n - 1) + 1][f[n - 1]]
    BY <2>1, <1>5
  <2> QED BY <2>1, <2>2
<1>7. Iterates(f, Nat, S, e, step)
  BY <1>4, <1>6 DEF Iterates
<1> QED BY <1>7

(* On a finite range of numbers, as the loops of the code count.           *)
LEMMA FiniteRecursion ==
    ASSUME NEW S, NEW e \in S, NEW N \in Nat, NEW step \in [1..N -> [S -> S]]
    PROVE  \E f : Iterates(f, 0..N, S, e, step)
<1> DEFINE all == [n \in Nat |-> IF n \in 1..N THEN step[n] ELSE [v \in S |-> v]]
<1>1. all \in [Nat -> [S -> S]]
  OBVIOUS
<1>2. \A n \in 1..N : all[n] = step[n]
  OBVIOUS
<1> HIDE DEF all
<1>3. PICK g : Iterates(g, Nat, S, e, all)
  BY <1>1, Recursion
<1>4. g \in [Nat -> S] /\ g[0] = e /\ \A n \in 1..N : g[n] = step[n][g[n - 1]]
  BY <1>2, <1>3 DEF Iterates
<1> DEFINE f == [n \in 0..N |-> g[n]]
<1>5. f \in [0..N -> S] /\ f[0] = e
  BY <1>4
<1>6. ASSUME NEW n \in 1..N PROVE f[n] = step[n][f[n - 1]]
  BY <1>4, n - 1 \in 0..N
<1> HIDE DEF f
<1>7. Iterates(f, 0..N, S, e, step)
  BY <1>5, <1>6 DEF Iterates
<1> QED BY <1>7


(* Powers of two: the numbers of subsets, of which there are twice as many *)
(* with one more element.                                                  *)
LEMMA PowersOfTwo ==
    /\ 2 ^ 0 = 1
    /\ \A n \in Nat : 2 ^ n \in Nat \ {0} /\ 2 ^ (n + 1) = 2 * 2 ^ n
<1>1. 2 ^ 0 = 1
  <2>1. IsFiniteSet({}) /\ Cardinality({}) = 0
    BY FS_EmptySet
  <2>2. Cardinality(SUBSET {}) = 2 ^ 0
    BY <2>1, FS_SUBSET
  <2>3. Cardinality({{}}) = 1
    BY FS_Singleton
  <2> QED BY <2>2, <2>3
<1>2. ASSUME NEW n \in Nat
      PROVE  /\ IsFiniteSet(1..n) /\ Cardinality(1..n) = n
             /\ IsFiniteSet(SUBSET (1..n)) /\ Cardinality(SUBSET (1..n)) = 2 ^ n
  <2>1. IsFiniteSet(1..n) /\ Cardinality(1..n) = n
    BY FS_Interval
  <2> QED BY <2>1, FS_SUBSET
<1>3. ASSUME NEW n \in Nat PROVE 2 ^ (n + 1) = 2 * 2 ^ n
  <2> DEFINE Old == SUBSET (1..n)
             New == {T \cup {n + 1} : T \in Old}
             All == SUBSET (1..n + 1)
             f   == [T \in Old |-> T \cup {n + 1}]
  <2>1. /\ IsFiniteSet(Old) /\ Cardinality(Old) = 2 ^ n
        /\ Cardinality(All) = 2 ^ (n + 1)
    BY <1>2, n + 1 \in Nat
  <2>2. f \in Bijection(Old, New)
    <3>1. f \in [Old -> New]
      OBVIOUS
    <3>2. ASSUME NEW T \in Old, NEW U \in Old, f[T] = f[U] PROVE T = U
      <4>1. n + 1 \notin T /\ n + 1 \notin U /\ T \cup {n + 1} = U \cup {n + 1}
        BY <3>2
      <4> QED BY <4>1
    <3>3. \A V \in New : \E T \in Old : f[T] = V
      OBVIOUS
    <3> QED BY <3>1, <3>2, <3>3 DEF Bijection, Injection, Surjection, IsInjective
  <2>3. IsFiniteSet(New) /\ Cardinality(New) = Cardinality(Old)
    <3>1. ExistsBijection(Old, New)
      BY <2>2 DEF ExistsBijection
    <3> HIDE DEF Old, New
    <3> QED BY <3>1, <2>1, FS_Bijection
  <2>4. Old \cap New = {}
    <3>1. \A T \in Old : n + 1 \notin T
      OBVIOUS
    <3>2. \A V \in New : n + 1 \in V
      OBVIOUS
    <3> QED BY <3>1, <3>2
  <2>5. All = Old \cup New
    <3>1. Old \subseteq All /\ New \subseteq All
      <4>1. 1..n \subseteq 1..n + 1 /\ n + 1 \in 1..n + 1
        OBVIOUS
      <4>2. \A T \in Old : T \cup {n + 1} \in All
        BY <4>1
      <4> QED BY <4>1, <4>2
    <3>2. ASSUME NEW V \in All PROVE V \in Old \cup New
      <4>1. CASE n + 1 \notin V
        BY <4>1
      <4>2. CASE n + 1 \in V
        <5>1. V \ {n + 1} \in Old /\ V = (V \ {n + 1}) \cup {n + 1}
          BY <4>2
        <5> QED BY <5>1
      <4> QED BY <4>1, <4>2
    <3> QED BY <3>1, <3>2
  <2> HIDE DEF Old, New, All
  <2>6. Cardinality(All) = Cardinality(Old) + Cardinality(New) - Cardinality(Old \cap New)
    BY <2>1, <2>3, <2>5, FS_Union
  <2>7. Cardinality(Old \cap New) = 0
    BY <2>4, FS_EmptySet
  <2>8. Cardinality(Old) \in Nat
    BY <2>1, FS_CardinalityType
  <2> QED BY <2>1, <2>3, <2>6, <2>7, <2>8
<1>4. ASSUME NEW n \in Nat PROVE 2 ^ n \in Nat \ {0}
  <2>1. 2 ^ n \in Nat
    BY <1>2, FS_CardinalityType
  <2>2. SUBSET (1..n) # {}
    OBVIOUS
  <2>3. 2 ^ n # 0
    BY <1>2, <2>2, FS_EmptySet
  <2> QED BY <2>1, <2>3
<1> QED BY <1>1, <1>3, <1>4

(* Shifting twice.                                                         *)
LEMMA PowersAdd ==
    ASSUME NEW m \in Nat, NEW n \in Nat
    PROVE  2 ^ (m + n) = 2 ^ m * 2 ^ n
<1> DEFINE T == {k \in Nat : 2 ^ (m + k) = 2 ^ m * 2 ^ k}
<1>1. 0 \in T
  BY PowersOfTwo
<1>2. ASSUME NEW k \in Nat, k \in T PROVE k + 1 \in T
  <2>1. 2 ^ (m + k) = 2 ^ m * 2 ^ k
    BY <1>2
  <2>2. m + k \in Nat /\ m + (k + 1) = (m + k) + 1
    OBVIOUS
  <2>3. 2 ^ (m + (k + 1)) = 2 * 2 ^ (m + k) /\ 2 ^ (k + 1) = 2 * 2 ^ k
    BY <2>2, PowersOfTwo
  <2>4. 2 ^ m \in Nat /\ 2 ^ k \in Nat
    BY PowersOfTwo
  <2>5. 2 ^ (m + (k + 1)) = 2 ^ m * 2 ^ (k + 1)
    BY <2>1, <2>3, <2>4
  <2> QED BY <2>5
<1> HIDE DEF T
<1>3. Nat \subseteq T
  BY <1>1, <1>2, Induction
<1> QED BY <1>3 DEF T

(* Division with remainder has one result.                                 *)
LEMMA RemainderUnique ==
    ASSUME NEW m \in Nat \ {0}, NEW k \in Int, NEW r \in 0..m - 1
    PROVE  (k * m + r) % m = r
<1> DEFINE v == k * m + r
           q == v \div m
           s == v % m
<1>1. v \in Int
  OBVIOUS
<1>2. q \in Int /\ s \in 0..m - 1 /\ v = m * q + s
  BY <1>1
<1> HIDE DEF q, s
<1>3. (k - q) * m = s - r
  BY <1>2
<1>4. k - q = 0
  <2>1. CASE k - q >= 1
    <3>1. (k - q) * m >= m
      BY <1>2, <2>1
    <3> QED BY <1>2, <1>3, <3>1
  <2>2. CASE k - q <= -1
    <3>1. (q - k) * m >= m
      BY <1>2, <2>2
    <3>2. (q - k) * m = r - s
      BY <1>2, <1>3
    <3> QED BY <1>2, <3>1, <3>2
  <2> QED BY <1>2, <2>1, <2>2
<1>5. s = r
  BY <1>2, <1>3, <1>4
<1> QED BY <1>5 DEF s

LEMMA QuotientUnique ==
    ASSUME NEW m \in Nat \ {0}, NEW k \in Int, NEW r \in 0..m - 1
    PROVE  (k * m + r) \div m = k
<1> DEFINE v == k * m + r
           q == v \div m
           s == v % m
<1>1. v \in Int
  OBVIOUS
<1>2. q \in Int /\ s \in 0..m - 1 /\ v = m * q + s
  BY <1>1
<1>3. s = r
  BY RemainderUnique
<1> HIDE DEF q, s
<1>4. (k - q) * m = 0
  BY <1>2, <1>3
<1>5. k - q = 0
  BY <1>2, <1>4
<1>6. q = k
  BY <1>2, <1>5
<1> QED BY <1>6 DEF q

LEMMA SmallQuotient ==
    ASSUME NEW v \in Nat, NEW m \in Nat \ {0}, v < m
    PROVE  v \div m = 0
OBVIOUS

(* Dividing twice.                                                         *)
LEMMA DividedTwice ==
    ASSUME NEW v \in Nat, NEW m \in Nat \ {0}, NEW n \in Nat \ {0}
    PROVE  /\ v \div (m * n) = (v \div m) \div n
           /\ v \div m \in Nat
<1> DEFINE q == v \div m
           r == v % m
           t == q \div n
           u == q % n
<1>1. q \in Nat /\ r \in 0..m - 1 /\ v = m * q + r
  OBVIOUS
<1>2. t \in Nat /\ u \in 0..n - 1 /\ q = n * t + u
  BY <1>1
<1> HIDE DEF q, r, t, u
<1>3. v = t * (m * n) + (m * u + r)
  BY <1>1, <1>2
<1>4. m * n \in Nat \ {0} /\ m * u + r \in 0..m * n - 1
  <2>1. m * u <= m * (n - 1) /\ m * (n - 1) = m * n - m /\ m * u \in Nat
    BY <1>2
  <2>2. m * n \in Nat \ {0}
    OBVIOUS
  <2> QED BY <1>1, <2>1, <2>2
<1>5. v \div (m * n) = t
  <2> DEFINE d == m * n
             w == m * u + r
  <2>1. d \in Nat \ {0} /\ w \in 0..d - 1 /\ v = t * d + w
    BY <1>3, <1>4
  <2> HIDE DEF d, w
  <2>2. v \div d = t
    BY <1>2, <2>1, QuotientUnique
  <2> QED BY <2>2 DEF d
<1> QED BY <1>1, <1>5 DEF t, q

(* Recursion over the subsets of a finite set, one element taken out after *)
(* the other: the function inside MapThenFoldSet.                          *)
Collects(f, D, S, e, pick, step) ==
    /\ f \in [SUBSET D -> S]
    /\ \A s \in SUBSET D :
          f[s] = IF s = {} THEN e ELSE step[pick[s]][f[s \ {pick[s]}]]

LEMMA FoldExists ==
    ASSUME NEW D, IsFiniteSet(D), NEW S, NEW e \in S, NEW step \in [D -> [S -> S]],
           NEW pick, \A s \in SUBSET D : s # {} => pick[s] \in s
    PROVE  \E f : Collects(f, D, S, e, pick, step)
<1> DEFINE All      == [SUBSET D -> S]
           next(f)  == [s \in SUBSET D |-> IF s = {} THEN e
                                           ELSE step[pick[s]][f[s \ {pick[s]}]]]
           start    == [s \in SUBSET D |-> e]
           steps    == [n \in Nat |-> [f \in All |-> next(f)]]
<1>1. ASSUME NEW f \in All PROVE next(f) \in All
  <2>1. ASSUME NEW s \in SUBSET D, s # {} PROVE step[pick[s]][f[s \ {pick[s]}]] \in S
    <3>1. pick[s] \in D /\ s \ {pick[s]} \in SUBSET D
      BY <2>1
    <3> QED BY <3>1
  <2> QED BY <2>1
<1>2. start \in All /\ steps \in [Nat -> [All -> All]]
  BY <1>1
<1>3. \A n \in Nat, f \in All : steps[n][f] = next(f)
  OBVIOUS
<1> HIDE DEF steps
<1>4. PICK g : Iterates(g, Nat, All, start, steps)
  <2> HIDE DEF All, start
  <2> QED BY <1>2, Recursion
<1>5. /\ g \in [Nat -> All]
      /\ \A n \in Nat : g[n + 1] = next(g[n])
  <2>1. g \in [Nat -> All] /\ \A n \in Nat \ {0} : g[n] = steps[n][g[n - 1]]
    BY <1>4 DEF Iterates
  <2>2. ASSUME NEW n \in Nat PROVE g[n + 1] = next(g[n])
    <3>1. n + 1 \in Nat \ {0} /\ (n + 1) - 1 = n
      OBVIOUS
    <3>2. g[n + 1] = steps[n + 1][g[n]] /\ g[n] \in All
      BY <2>1, <3>1
    <3> HIDE DEF All, next
    <3> QED BY <3>1, <3>2, <1>3
  <2> QED BY <2>1, <2>2
<1> HIDE DEF start
(* The n-th function is final on the sets with fewer than n elements.      *)
<1> DEFINE T == {n \in Nat : \A s \in SUBSET D :
                                Cardinality(s) < n => g[n][s] = g[n + 1][s]}
<1>6. \A s \in SUBSET D : IsFiniteSet(s) /\ Cardinality(s) \in Nat
  BY FS_Subset, FS_CardinalityType
<1>7. 0 \in T
  <2>1. \A s \in SUBSET D : ~(Cardinality(s) < 0)
    BY <1>6
  <2> QED BY <2>1
<1>8. ASSUME NEW n \in Nat, n \in T PROVE n + 1 \in T
  <2> SUFFICES ASSUME NEW s \in SUBSET D, Cardinality(s) < n + 1
               PROVE  g[n + 1][s] = g[(n + 1) + 1][s]
    OBVIOUS
  <2>1. /\ g[n + 1] = next(g[n])
        /\ g[(n + 1) + 1] = next(g[n + 1])
    BY <1>5, n + 1 \in Nat
  <2>2. CASE s = {}
    BY <2>1, <2>2
  <2>3. CASE s # {}
    <3> DEFINE r == s \ {pick[s]}
    <3>1. r \in SUBSET D /\ Cardinality(r) < n
      <4>1. pick[s] \in s
        BY <2>3
      <4>2. Cardinality(r) = Cardinality(s) - 1
        BY <1>6, <4>1, FS_RemoveElement
      <4> QED BY <1>6, <4>2
    <3> HIDE DEF r
    <3>2. g[n][r] = g[n + 1][r]
      BY <1>8, <3>1
    <3>3. /\ next(g[n])[s] = step[pick[s]][g[n][r]]
          /\ next(g[n + 1])[s] = step[pick[s]][g[n + 1][r]]
      BY <2>3 DEF r
    <3> HIDE DEF next
    <3> QED BY <2>1, <3>2, <3>3
  <2> QED BY <2>2, <2>3
<1>9. Nat \subseteq T
  <2> HIDE DEF T
  <2> QED BY <1>7, <1>8, Induction
<1> DEFINE N == Cardinality(D) + 1
           f == g[N]
<1>10. N \in Nat /\ N + 1 \in Nat
  BY FS_CardinalityType
<1>11. ASSUME NEW s \in SUBSET D PROVE f[s] = g[N + 1][s]
  <2>1. Cardinality(s) < N
    BY <1>6, FS_Subset, FS_CardinalityType
  <2>2. N \in T
    BY <1>9, <1>10
  <2> HIDE DEF N
  <2> QED BY <2>1, <2>2
<1>12. f \in All
  <2> HIDE DEF N, All
  <2> QED BY <1>5, <1>10
<1>13. g[N + 1] = next(f)
  <2> HIDE DEF N, next
  <2> QED BY <1>5, <1>10
<1> HIDE DEF N, f
<1>14. ASSUME NEW s \in SUBSET D
       PROVE  f[s] = IF s = {} THEN e ELSE step[pick[s]][f[s \ {pick[s]}]]
  BY <1>11, <1>13
<1>15. Collects(f, D, S, e, pick, step)
  BY <1>12, <1>14 DEF Collects
<1> QED BY <1>15

=============================================================================
