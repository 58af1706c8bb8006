--------------------------- MODULE FieldIntProofs ---------------------------
(***************************************************************************)
(* Proofs about the numbers of words and the methods of a FieldInt, for    *)
(* every number of words, every width of a word and every prime of the     *)
(* shape the Barrett reduction needs.                                      *)
(***************************************************************************)
EXTENDS FieldInt, Facts

-----------------------------------------------------------------------------
(* Places, values and carries.                                             *)

LEMMA PlacesAdd ==
    ASSUME NEW j \in Nat, NEW k \in Nat
    PROVE  Place(j + k) = Place(j) * Place(k)
<1>1. /\ WordBits * j \in Nat /\ WordBits * k \in Nat
      /\ WordBits * (j + k) = WordBits * j + WordBits * k
  BY WordsAssumption
<1>2. 2 ^ (WordBits * j + WordBits * k) = 2 ^ (WordBits * j) * 2 ^ (WordBits * k)
  BY <1>1, PowersAdd
<1> QED BY <1>1, <1>2 DEF Place

LEMMA Places ==
    /\ Place(0) = 1
    /\ \A k \in Nat : Place(k) \in Nat \ {0} /\ Place(k + 1) = Base * Place(k)
    /\ Base \in Nat \ {0, 1} /\ Base % 2 = 0
<1> USE WordsAssumption
<1>1. \A k \in Nat : WordBits * k \in Nat
  OBVIOUS
<1>3. \A k \in Nat : Place(k) \in Nat \ {0}
  BY <1>1, PowersOfTwo DEF Place
<1>4. Place(0) = 1
  BY PowersOfTwo, WordBits * 0 = 0 DEF Place
<1>5. Place(1) = Base
  BY WordBits * 1 = WordBits DEF Place, Base
<1>6. ASSUME NEW k \in Nat PROVE Place(k + 1) = Base * Place(k)
  <2>1. Place(1 + k) = Place(1) * Place(k)
    BY PlacesAdd, 1 \in Nat
  <2> QED BY <1>5, <2>1, k + 1 = 1 + k
<1>7. Base \in Nat \ {0, 1} /\ Base % 2 = 0
  <2>1. PICK n \in Nat : WordBits = n + 1
    BY WordBits - 1 \in Nat
  <2>2. PICK m \in Nat \ {0} : m = 2 ^ n
    BY PowersOfTwo
  <2>3. Base = 2 * m
    BY <2>1, <2>2, PowersOfTwo DEF Base
  <2> QED BY <2>3
<1> QED BY <1>3, <1>4, <1>6, <1>7

(* The loops that put a word together, turn by turn.                       *)
LEMMA AssembledTurns ==
    ASSUME NEW n \in Nat, NEW bits \in Nat, NEW d, \A k \in 0..n - 1 : d[k] \in Int
    PROVE  /\ Assembled(0, bits, d) = 0
           /\ \A k \in 0..n - 1 :
                 Assembled(k + 1, bits, d) = Assembled(k, bits, d) + d[k] * 2 ^ (bits * k)
           /\ \A k \in 0..n : Assembled(k, bits, d) \in Int
<1> DEFINE Is(v, m) == v = [k \in 0..m |-> IF k = 0 THEN 0
                               ELSE v[k - 1] + d[k - 1] * 2 ^ (bits * (k - 1))]
           step == [k \in 1..n |-> [c \in Int |-> c + d[k - 1] * 2 ^ (bits * (k - 1))]]
<1>1. \A k \in 1..n : d[k - 1] * 2 ^ (bits * (k - 1)) \in Int
  <2> SUFFICES ASSUME NEW k \in 1..n PROVE d[k - 1] * 2 ^ (bits * (k - 1)) \in Int
    OBVIOUS
  <2>1. PICK j \in Nat : j = k - 1 /\ j \in 0..n - 1
    BY k - 1 \in Nat
  <2>2. d[j] \in Int
    BY <2>1
  <2>3. bits * j \in Nat
    OBVIOUS
  <2>4. 2 ^ (bits * j) \in Nat
    BY <2>3, PowersOfTwo
  <2>5. d[j] * 2 ^ (bits * j) \in Int
    BY <2>2, <2>4
  <2> QED BY <2>1, <2>5
<1>2. step \in [1..n -> [Int -> Int]]
  BY <1>1
<1>3. \A k \in 1..n, c \in Int : step[k][c] = c + d[k - 1] * 2 ^ (bits * (k - 1))
  OBVIOUS
<1> HIDE DEF step
<1>4. PICK f : Iterates(f, 0..n, Int, 0, step)
  BY <1>2, 0 \in Int, FiniteRecursion
<1>5. /\ f \in [0..n -> Int] /\ f[0] = 0
      /\ \A k \in 1..n : f[k] = f[k - 1] + d[k - 1] * 2 ^ (bits * (k - 1))
  <2>1. f \in [0..n -> Int] /\ f[0] = 0
    <3>1. 0 \in 0..n
      OBVIOUS
    <3>2. f \in [0..n -> Int] /\ \A k \in 0..n : k = 0 => f[k] = 0
      BY <1>4 DEF Iterates
    <3> QED BY <3>1, <3>2
  <2>2. ASSUME NEW k \in 1..n
        PROVE  f[k] = f[k - 1] + d[k - 1] * 2 ^ (bits * (k - 1))
    <3>1. f[k - 1] \in Int /\ f[k] = step[k][f[k - 1]]
      BY <1>4, <2>1 DEF Iterates
    <3> QED BY <1>3, <3>1
  <2> QED BY <2>1, <2>2
<1>6. ASSUME NEW m \in 0..n PROVE Assembled(m, bits, d) = f[m]
  <2> DEFINE g == [k \in 0..m |-> f[k]]
             v == CHOOSE v : Is(v, m)
  <2>1. g = [k \in 0..m |-> IF k = 0 THEN 0
                            ELSE g[k - 1] + d[k - 1] * 2 ^ (bits * (k - 1))]
    <3>1. ASSUME NEW k \in 0..m
          PROVE  g[k] = IF k = 0 THEN 0
                        ELSE g[k - 1] + d[k - 1] * 2 ^ (bits * (k - 1))
      <4>1. CASE k = 0
        BY <1>5, <4>1
      <4>2. CASE k # 0
        BY <1>5, <4>2, k - 1 \in 0..m, k \in 1..n
      <4> QED BY <4>1, <4>2
    <3> QED BY <3>1
  <2>2. Is(v, m)
    BY <2>1
  <2>3. Assembled(m, bits, d) = v[m]
    BY DEF Assembled
  <2> HIDE DEF v
  <2>4. /\ v[0] = 0
        /\ \A k \in 1..m : v[k] = v[k - 1] + d[k - 1] * 2 ^ (bits * (k - 1))
    BY <2>2
  <2> DEFINE T == {k \in 0..m : v[k] = f[k]}
  <2>5. 0 \in T
    BY <1>5, <2>4
  <2>6. ASSUME NEW k \in 0..m - 1, k \in T PROVE k + 1 \in T
    <3>1. k + 1 \in 1..m /\ k + 1 \in 1..n /\ (k + 1) - 1 = k /\ k + 1 \in 0..m
      OBVIOUS
    <3>2. v[k + 1] = v[k] + d[k] * 2 ^ (bits * k)
      BY <2>4, <3>1
    <3>3. f[k + 1] = f[k] + d[k] * 2 ^ (bits * k)
      BY <1>5, <3>1
    <3> QED BY <2>6, <3>1, <3>2, <3>3
  <2>7. 0..m \subseteq T
    <3> HIDE DEF T
    <3> QED BY <2>5, <2>6, InductionUpTo
  <2> QED BY <2>3, <2>7
<1>7. ASSUME NEW k \in 0..n - 1
      PROVE  Assembled(k + 1, bits, d) = Assembled(k, bits, d) + d[k] * 2 ^ (bits * k)
  <2>1. k + 1 \in 1..n /\ (k + 1) - 1 = k /\ k \in 0..n /\ k + 1 \in 0..n
    OBVIOUS
  <2>2. f[k + 1] = f[k] + d[k] * 2 ^ (bits * k)
    BY <1>5, <2>1
  <2> QED BY <1>6, <2>1, <2>2
<1> QED BY <1>5, <1>6, <1>7

(* The value of the lowest words, from below.                              *)
LEMMA Values ==
    ASSUME NEW n \in Nat, NEW w, \A k \in 0..n - 1 : w[k] \in Int
    PROVE  /\ ValueOf(0, w) = 0
           /\ \A k \in 0..n - 1 : ValueOf(k + 1, w) = ValueOf(k, w) + w[k] * Place(k)
           /\ \A k \in 0..n : ValueOf(k, w) \in Int
BY WordsAssumption, AssembledTurns DEF ValueOf, Place

(* The carry, from below.                                                  *)
LEMMA Carries ==
    ASSUME NEW n \in Nat, NEW term, \A k \in 0..n - 1 : term[k] \in Int
    PROVE  /\ CarryInto(0, term) = 0
           /\ \A k \in 0..n - 1 :
                 CarryInto(k + 1, term) = (term[k] + CarryInto(k, term)) \div Base
           /\ \A k \in 0..n : CarryInto(k, term) \in Int
<1> DEFINE Is(v, m) == v = [k \in 0..m |-> IF k = 0 THEN 0
                                           ELSE (term[k - 1] + v[k - 1]) \div Base]
           step     == [k \in 1..n |-> [c \in Int |-> (term[k - 1] + c) \div Base]]
<1>1. \A k \in 1..n, c \in Int : (term[k - 1] + c) \div Base \in Int
  <2> SUFFICES ASSUME NEW k \in 1..n, NEW c \in Int
               PROVE  (term[k - 1] + c) \div Base \in Int
    OBVIOUS
  <2>1. k - 1 \in 0..n - 1
    OBVIOUS
  <2>2. PICK t \in Int : t = term[k - 1]
    BY <2>1
  <2>3. PICK m \in Nat \ {0} : m = Base
    BY Places
  <2>4. (t + c) \div m \in Int
    OBVIOUS
  <2> QED BY <2>2, <2>3, <2>4
<1>2. step \in [1..n -> [Int -> Int]]
  BY <1>1
<1>3. \A k \in 1..n, c \in Int : step[k][c] = (term[k - 1] + c) \div Base
  OBVIOUS
<1> HIDE DEF step
<1>4. PICK f : Iterates(f, 0..n, Int, 0, step)
  BY <1>2, 0 \in Int, FiniteRecursion
<1>5. /\ f \in [0..n -> Int] /\ f[0] = 0
      /\ \A k \in 1..n : f[k] = (term[k - 1] + f[k - 1]) \div Base
  <2>1. f \in [0..n -> Int] /\ f[0] = 0
    <3>1. 0 \in 0..n
      OBVIOUS
    <3>2. f \in [0..n -> Int] /\ \A k \in 0..n : k = 0 => f[k] = 0
      BY <1>4 DEF Iterates
    <3> QED BY <3>1, <3>2
  <2>2. ASSUME NEW k \in 1..n PROVE f[k] = (term[k - 1] + f[k - 1]) \div Base
    <3>1. f[k - 1] \in Int /\ f[k] = step[k][f[k - 1]]
      BY <1>4, <2>1 DEF Iterates
    <3> QED BY <1>3, <3>1
  <2> QED BY <2>1, <2>2
<1>6. ASSUME NEW m \in 0..n PROVE CarryInto(m, term) = f[m]
  <2> DEFINE g == [k \in 0..m |-> f[k]]
             v == CHOOSE v : Is(v, m)
  <2>1. g = [k \in 0..m |-> IF k = 0 THEN 0 ELSE (term[k - 1] + g[k - 1]) \div Base]
    <3>1. ASSUME NEW k \in 0..m
          PROVE  g[k] = IF k = 0 THEN 0 ELSE (term[k - 1] + g[k - 1]) \div Base
      <4>1. CASE k = 0
        BY <1>5, <4>1
      <4>2. CASE k # 0
        BY <1>5, <4>2, k - 1 \in 0..m, k \in 1..n
      <4> QED BY <4>1, <4>2
    <3> QED BY <3>1
  <2>2. Is(v, m)
    BY <2>1
  <2>3. CarryInto(m, term) = v[m]
    BY DEF CarryInto
  <2> HIDE DEF v
  <2>4. /\ v[0] = 0
        /\ \A k \in 1..m : v[k] = (term[k - 1] + v[k - 1]) \div Base
    BY <2>2
  <2> DEFINE T == {k \in 0..m : v[k] = f[k]}
  <2>5. 0 \in T
    BY <1>5, <2>4
  <2>6. ASSUME NEW k \in 0..m - 1, k \in T PROVE k + 1 \in T
    <3>1. k + 1 \in 1..m /\ k + 1 \in 1..n /\ (k + 1) - 1 = k /\ k + 1 \in 0..m
      OBVIOUS
    <3>2. v[k + 1] = (term[k] + v[k]) \div Base
      BY <2>4, <3>1
    <3>3. f[k + 1] = (term[k] + f[k]) \div Base
      BY <1>5, <3>1
    <3> QED BY <2>6, <3>1, <3>2, <3>3
  <2>7. 0..m \subseteq T
    <3> HIDE DEF T
    <3> QED BY <2>5, <2>6, InductionUpTo
  <2> QED BY <2>3, <2>7
<1>7. ASSUME NEW k \in 0..n - 1
      PROVE  CarryInto(k + 1, term) = (term[k] + CarryInto(k, term)) \div Base
  <2>1. k + 1 \in 1..n /\ (k + 1) - 1 = k /\ k \in 0..n /\ k + 1 \in 0..n
    OBVIOUS
  <2>2. f[k + 1] = (term[k] + f[k]) \div Base
    BY <1>5, <2>1
  <2> QED BY <1>6, <2>1, <2>2
<1> QED BY <1>5, <1>6, <1>7

(* What a ripple keeps and what it carries out are what its terms count.   *)
LEMMA RippleCounts ==
    ASSUME NEW n \in Nat, NEW term, \A k \in 0..n - 1 : term[k] \in Int
    PROVE  /\ Ripple(n, term) \in Words(n)
           /\ CarryInto(n, term) \in Int
           /\ ValueOf(n, Ripple(n, term)) + CarryInto(n, term) * Place(n) = ValueOf(n, term)
<1> DEFINE r == Ripple(n, term)
           c(k) == CarryInto(k, term)
<1>1. Base \in Nat \ {0}
  BY Places
<1>2. ASSUME NEW k \in 0..n - 1
      PROVE  /\ r[k] = (term[k] + c(k)) % Base /\ r[k] \in Word
             /\ term[k] \in Int /\ c(k) \in Int /\ c(k + 1) \in Int
             /\ term[k] + c(k) = Base * c(k + 1) + r[k]
  <2>1. term[k] \in Int /\ c(k) \in Int /\ c(k + 1) = (term[k] + c(k)) \div Base
    BY Carries
  <2>2. PICK t \in Int : t = term[k] + c(k)
    BY <2>1
  <2>3. r[k] = t % Base
    BY <2>2 DEF Ripple
  <2>4. t \div Base \in Int /\ t % Base \in 0..Base - 1 /\ t = Base * (t \div Base) + (t % Base)
    BY <1>1, <2>2
  <2> HIDE DEF r, c
  <2> QED BY <2>1, <2>2, <2>3, <2>4 DEF Word
<1>3. r \in Words(n)
  <2>1. r = [k \in 0..n - 1 |-> r[k]]
    BY DEF Ripple
  <2> HIDE DEF r
  <2> QED BY <1>2, <2>1 DEF Words
<1>4. \A k \in 0..n - 1 : r[k] \in Int
  <2> HIDE DEF r
  <2> QED BY <1>1, <1>2 DEF Word
<1> HIDE DEF r, c
<1> DEFINE T == {k \in 0..n : ValueOf(k, r) + c(k) * Place(k) = ValueOf(k, term)}
<1>5. 0 \in T
  <2>1. ValueOf(0, r) = 0 /\ ValueOf(0, term) = 0
    BY <1>4, Values
  <2>2. c(0) = 0 /\ Place(0) = 1
    BY Carries, Places DEF c
  <2> QED BY <2>1, <2>2
<1>6. ASSUME NEW k \in 0..n - 1, k \in T PROVE k + 1 \in T
  <2>1. /\ ValueOf(k + 1, r) = ValueOf(k, r) + r[k] * Place(k) /\ ValueOf(k, r) \in Int
        /\ ValueOf(k + 1, term) = ValueOf(k, term) + term[k] * Place(k)
        /\ ValueOf(k, term) \in Int
    BY <1>4, Values
  <2>2. PICK p \in Nat : p = Place(k) /\ Place(k + 1) = Base * p
    <3>1. k \in Nat
      OBVIOUS
    <3>2. Place(k) \in Nat /\ Place(k + 1) = Base * Place(k)
      BY <3>1, Places
    <3> QED BY <3>2
  <2>3. PICK u \in Int, v \in Int, d \in Int, e \in Int, s \in Int :
            /\ u = ValueOf(k, r) /\ v = r[k] /\ d = c(k) /\ e = c(k + 1) /\ s = term[k]
    BY <1>2, <1>4, <2>1
  <2>4. s + d = Base * e + v /\ u + d * p = ValueOf(k, term)
    BY <1>2, <1>6, <2>2, <2>3
  <2>5. (u + v * p) + e * (Base * p) = (u + d * p) + s * p
    <3>1. (s + d) * p = (Base * e + v) * p
      BY <2>4
    <3>2. s * p + d * p = Base * e * p + v * p
      BY <1>1, <2>2, <3>1
    <3>3. e * (Base * p) = Base * e * p
      BY <1>1, <2>2
    <3>4. s * p \in Int /\ d * p \in Int /\ v * p \in Int /\ Base * e * p \in Int
      BY <1>1, <2>2
    <3> QED BY <3>2, <3>3, <3>4
  <2> QED BY <2>1, <2>2, <2>3, <2>4, <2>5
<1>7. n \in T
  <2>1. 0..n \subseteq T
    <3> HIDE DEF T
    <3> QED BY <1>5, <1>6, InductionUpTo
  <2> QED BY <2>1
<1>8. c(n) \in Int
  BY Carries DEF c
<1> QED BY <1>3, <1>7, <1>8 DEF r, c

(* A value of words is a number below the place it ends at.                *)
LEMMA WordsAreNumbers ==
    ASSUME NEW n \in Nat, NEW w \in Words(n)
    PROVE  /\ \A k \in 0..n - 1 : w[k] \in Int /\ 0 <= w[k] /\ w[k] < Base
           /\ \A k \in 0..n : ValueOf(k, w) \in Nat /\ ValueOf(k, w) < Place(k)
<1>1. Base \in Nat \ {0}
  BY Places
<1>2. ASSUME NEW k \in 0..n - 1 PROVE w[k] \in Int /\ 0 <= w[k] /\ w[k] < Base
  BY <1>1 DEF Words, Word
<1>v. /\ ValueOf(0, w) = 0
      /\ \A k \in 0..n - 1 : ValueOf(k + 1, w) = ValueOf(k, w) + w[k] * Place(k)
  BY <1>2, Values
<1> DEFINE T == {k \in 0..n : ValueOf(k, w) \in Nat /\ ValueOf(k, w) < Place(k)}
<1>3. 0 \in T
  BY <1>v, Places
<1>4. ASSUME NEW k \in 0..n - 1, k \in T PROVE k + 1 \in T
  <2>1. PICK p \in Nat, v \in Nat, d \in Nat :
            p = Place(k) /\ v = ValueOf(k, w) /\ d = w[k] /\ v < p /\ d <= Base - 1
    <3>1. Place(k) \in Nat /\ w[k] \in Nat /\ w[k] <= Base - 1
      BY <1>1, <1>2, Places
    <3> QED BY <1>4, <3>1
  <2>2. Place(k + 1) = Base * p /\ ValueOf(k + 1, w) = v + d * p
    BY <1>v, <2>1, Places
  <2>3. d * p <= (Base - 1) * p /\ (Base - 1) * p = Base * p - p /\ d * p \in Nat
    BY <1>1, <2>1
  <2>4. v + d * p \in Nat /\ v + d * p < Base * p
    BY <1>1, <2>1, <2>3
  <2> QED BY <2>2, <2>4
<1>5. 0..n \subseteq T
  <2> HIDE DEF T
  <2> QED BY <1>3, <1>4, InductionUpTo
<1> QED BY <1>2, <1>5

(* Adding, or subtracting a multiple, word by word.                        *)
LEMMA ValueLinear ==
    ASSUME NEW n \in Nat, NEW u, NEW v, NEW w, NEW e \in Int,
           \A k \in 0..n - 1 : u[k] \in Int /\ v[k] \in Int /\ w[k] = u[k] + e * v[k]
    PROVE  ValueOf(n, w) = ValueOf(n, u) + e * ValueOf(n, v)
<1>1. \A k \in 0..n - 1 : w[k] \in Int
  <2> SUFFICES ASSUME NEW k \in 0..n - 1 PROVE w[k] \in Int
    OBVIOUS
  <2>1. PICK a \in Int, b \in Int : a = u[k] /\ b = v[k] /\ w[k] = a + e * b
    OBVIOUS
  <2> QED BY <2>1
<1>v. /\ ValueOf(0, u) = 0 /\ ValueOf(0, v) = 0 /\ ValueOf(0, w) = 0
      /\ \A k \in 0..n - 1 : /\ ValueOf(k + 1, u) = ValueOf(k, u) + u[k] * Place(k)
                              /\ ValueOf(k + 1, v) = ValueOf(k, v) + v[k] * Place(k)
                              /\ ValueOf(k + 1, w) = ValueOf(k, w) + w[k] * Place(k)
      /\ \A k \in 0..n : ValueOf(k, u) \in Int /\ ValueOf(k, v) \in Int
  BY <1>1, Values
<1> DEFINE T == {k \in 0..n : ValueOf(k, w) = ValueOf(k, u) + e * ValueOf(k, v)}
<1>2. 0 \in T
  BY <1>v
<1>3. ASSUME NEW k \in 0..n - 1, k \in T PROVE k + 1 \in T
  <2>1. PICK p \in Nat : p = Place(k)
    BY Places
  <2>2. PICK a \in Int, b \in Int, x \in Int, y \in Int :
            a = u[k] /\ b = v[k] /\ x = ValueOf(k, u) /\ y = ValueOf(k, v)
    BY <1>v
  <2>3. w[k] = a + e * b /\ ValueOf(k, w) = x + e * y
    BY <1>3, <2>2
  <2>4. /\ ValueOf(k + 1, u) = x + a * p /\ ValueOf(k + 1, v) = y + b * p
        /\ ValueOf(k + 1, w) = (x + e * y) + (a + e * b) * p
    BY <1>v, <2>1, <2>2, <2>3
  <2>5. (x + e * y) + (a + e * b) * p = (x + a * p) + e * (y + b * p)
    BY <2>1
  <2> QED BY <2>4, <2>5
<1>4. 0..n \subseteq T
  <2> HIDE DEF T
  <2> QED BY <1>2, <1>3, InductionUpTo
<1> QED BY <1>4

LEMMA SameWords ==
    ASSUME NEW n \in Nat, NEW u, NEW w, \A k \in 0..n - 1 : u[k] \in Int /\ w[k] = u[k]
    PROVE  ValueOf(n, w) = ValueOf(n, u)
<1>1. \A k \in 0..n - 1 : u[k] \in Int /\ w[k] = u[k] + 0 * u[k]
  OBVIOUS
<1>2. ValueOf(n, w) = ValueOf(n, u) + 0 * ValueOf(n, u)
  BY <1>1, ValueLinear
<1>3. ValueOf(n, u) \in Int
  BY Values
<1> QED BY <1>2, <1>3

(* The words from place m on count Place(m) times as much.                 *)
LEMMA ValueConcat ==
    ASSUME NEW m \in Nat, NEW n \in Nat, NEW w, NEW s,
           \A k \in 0..m + n - 1 : w[k] \in Int,
           \A k \in 0..n - 1 : s[k] = w[m + k]
    PROVE  ValueOf(m + n, w) = ValueOf(m, w) + Place(m) * ValueOf(n, s)
<1>1. \A k \in 0..n - 1 : s[k] \in Int /\ m + k \in 0..m + n - 1
  OBVIOUS
<1> DEFINE T == {k \in 0..n : ValueOf(m + k, w) = ValueOf(m, w) + Place(m) * ValueOf(k, s)}
<1>2. ValueOf(m, w) \in Int /\ Place(m) \in Nat
  <2>1. m + n \in Nat /\ m \in 0..m + n
    OBVIOUS
  <2>2. ValueOf(m, w) \in Int
    BY <2>1, Values
  <2> QED BY <2>2, Places
<1>3. 0 \in T
  <2>1. ValueOf(0, s) = 0
    BY <1>1, Values
  <2> QED BY <1>2, <2>1, m + 0 = m
<1>4. ASSUME NEW k \in 0..n - 1, k \in T PROVE k + 1 \in T
  <2>1. PICK p \in Nat, q \in Nat : p = Place(k) /\ q = Place(m) /\ Place(m + k) = q * p
    <3>1. k \in Nat /\ Place(m + k) = Place(m) * Place(k)
      BY PlacesAdd
    <3>2. Place(k) \in Nat /\ Place(m) \in Nat
      BY <3>1, Places
    <3> QED BY <3>1, <3>2
  <2>2. PICK a \in Int, x \in Int, y \in Int : a = s[k] /\ x = ValueOf(m, w) /\ y = ValueOf(k, s)
    BY <1>1, <1>2, Values
  <2>3. ValueOf(k + 1, s) = y + a * p
    BY <1>1, <2>1, <2>2, Values
  <2>4. ValueOf((m + k) + 1, w) = (x + q * y) + a * (q * p)
    <3>1. m + k \in 0..(m + n) - 1 /\ m + n \in Nat
      OBVIOUS
    <3>2. ValueOf((m + k) + 1, w) = ValueOf(m + k, w) + w[m + k] * Place(m + k)
      BY <3>1, Values
    <3>3. ValueOf(m + k, w) = x + q * y /\ w[m + k] = a
      BY <1>4, <2>1, <2>2
    <3> QED BY <2>1, <3>2, <3>3
  <2>5. (x + q * y) + a * (q * p) = x + q * (y + a * p)
    BY <2>1
  <2>6. (m + k) + 1 = m + (k + 1)
    OBVIOUS
  <2> QED BY <2>1, <2>2, <2>3, <2>4, <2>5, <2>6
<1>5. 0..n \subseteq T
  <2> HIDE DEF T
  <2> QED BY <1>3, <1>4, InductionUpTo
<1> QED BY <1>5

-----------------------------------------------------------------------------
(* The methods of Uint256, on values.                                      *)

LEMMA UintValue ==
    ASSUME NEW u \in Uint
    PROVE  Value(u) \in Nat /\ Value(u) < Width /\ Width \in Nat \ {0}
BY WordsAssumption, WordsAreNumbers, Places, NUM_WORDS \in 0..NUM_WORDS DEF Uint, Value, Width

(* The highest words that differ decide, and if none do the numbers are    *)
(* the same.                                                               *)
LEMMA LessCounts ==
    ASSUME NEW u \in Uint, NEW v \in Uint, Less(u, v)
    PROVE  Value(u) < Value(v)
<1> DEFINE n == NUM_WORDS
<1>1. /\ n \in Nat /\ u \in Words(n) /\ v \in Words(n)
  BY WordsAssumption DEF Uint
<1>2. PICK h \in 0..n - 1 : u[h] < v[h] /\ \A j \in h + 1..n - 1 : u[j] = v[j]
  BY DEF Less
<1>3. /\ \A k \in 0..n - 1 : u[k] \in Int /\ v[k] \in Int
      /\ \A k \in 0..n : ValueOf(k, u) \in Nat /\ ValueOf(k, u) < Place(k) /\ ValueOf(k, v) \in Nat
  BY <1>1, WordsAreNumbers
<1>4. \A k \in 0..n - 1 : /\ ValueOf(k + 1, u) = ValueOf(k, u) + u[k] * Place(k)
                          /\ ValueOf(k + 1, v) = ValueOf(k, v) + v[k] * Place(k)
  BY <1>1, <1>3, Values
<1> HIDE DEF n
<1> DEFINE T == {k \in 0..n : k > h => ValueOf(k, u) < ValueOf(k, v)}
<1>5. 0 \in T
  BY <1>1
<1>6. ASSUME NEW k \in 0..n - 1, k \in T PROVE k + 1 \in T
  <2>1. PICK p \in Nat, a \in Nat, b \in Nat, x \in Int, y \in Int :
            /\ p = Place(k) /\ a = ValueOf(k, u) /\ b = ValueOf(k, v)
            /\ x = u[k] /\ y = v[k] /\ a < p
    <3>1. k \in Nat /\ k \in 0..n
      BY <1>1
    <3>2. Place(k) \in Nat
      BY <3>1, Places
    <3> QED BY <1>3, <3>1, <3>2
  <2>2. ValueOf(k + 1, u) = a + x * p /\ ValueOf(k + 1, v) = b + y * p
    BY <1>4, <2>1
  <2>3. CASE k < h
    BY <2>3, <1>1
  <2>4. CASE k = h
    <3>1. x + 1 <= y
      BY <1>2, <2>1, <2>4
    <3>2. (x + 1) * p <= y * p /\ (x + 1) * p = x * p + p /\ x * p \in Int /\ y * p \in Int
      BY <2>1, <3>1
    <3>3. a + x * p < b + y * p
      BY <2>1, <3>2
    <3> QED BY <1>1, <2>2, <3>3
  <2>5. CASE k > h
    <3>1. x = y /\ a < b
      BY <1>2, <1>6, <2>1, <2>5
    <3>2. x * p \in Int
      BY <2>1
    <3>3. a + x * p < b + y * p
      BY <2>1, <3>1, <3>2
    <3> QED BY <1>1, <2>2, <3>3
  <2> QED BY <1>1, <2>3, <2>4, <2>5
<1>7. 0..n \subseteq T
  <2> HIDE DEF T
  <2> QED BY <1>1, <1>5, <1>6, InductionUpTo
<1>8. n \in T /\ n > h
  BY <1>1, <1>7
<1> QED BY <1>8 DEF Value, n

LEMMA LessOrSame ==
    ASSUME NEW u \in Uint, NEW v \in Uint
    PROVE  u = v \/ Less(u, v) \/ Less(v, u)
<1> DEFINE n == NUM_WORDS
           D == {k \in 0..n - 1 : u[k] # v[k]}
<1>1. n \in Nat /\ \A k \in 0..n - 1 : u[k] \in Int /\ v[k] \in Int
  BY WordsAssumption, WordsAreNumbers DEF Uint
<1>2. CASE D = {}
  <2>1. u = [k \in 0..n - 1 |-> u[k]] /\ v = [k \in 0..n - 1 |-> v[k]]
    BY DEF Uint, Words
  <2>2. \A k \in 0..n - 1 : u[k] = v[k]
    BY <1>2
  <2> HIDE DEF D, n
  <2> QED BY <2>1, <2>2
<1>3. CASE D # {}
  <2>1. D \in SUBSET (0..n)
    BY <1>1
  <2>2. PICK h \in D : \A m \in D : m <= h
    <3> HIDE DEF D, n
    <3> QED BY <1>1, <1>3, <2>1, GreatestUpTo
  <2>3. \A j \in h + 1..n - 1 : u[j] = v[j]
    <3> SUFFICES ASSUME NEW j \in h + 1..n - 1 PROVE u[j] = v[j]
      OBVIOUS
    <3>1. j \in 0..n - 1 /\ ~(j <= h)
      BY <1>1, <2>2
    <3> QED BY <2>2, <3>1
  <2>4. h \in 0..n - 1 /\ (u[h] < v[h] \/ v[h] < u[h])
    BY <1>1, <2>2
  <2> QED BY <2>3, <2>4 DEF Less
<1> QED BY <1>2, <1>3

LEMMA LessIsLess ==
    ASSUME NEW u \in Uint, NEW v \in Uint
    PROVE  /\ Less(u, v) <=> Value(u) < Value(v)
           /\ Value(u) = Value(v) => u = v
<1>1. Less(u, v) => Value(u) < Value(v)
  BY LessCounts
<1>2. Less(v, u) => Value(v) < Value(u)
  BY LessCounts
<1>3. Value(u) \in Nat /\ Value(v) \in Nat
  BY UintValue
<1> QED BY <1>1, <1>2, <1>3, LessOrSame

(* What is added, or subtracted, and what is carried.                      *)
LEMMA AddedCounts ==
    ASSUME NEW u \in Uint, NEW v \in Uint, NEW e \in Int
    PROVE  \E r \in Uint, c \in Int :
              /\ r = Ripple(NUM_WORDS, Added(u, v, e))
              /\ c = CarryInto(NUM_WORDS, Added(u, v, e))
              /\ Value(r) + c * Width = Value(u) + e * Value(v)
<1> DEFINE n    == NUM_WORDS
           term == Added(u, v, e)
<1>1. n \in Nat /\ \A k \in 0..n - 1 : u[k] \in Int /\ v[k] \in Int
  BY WordsAssumption, WordsAreNumbers DEF Uint
<1>2. \A k \in 0..n - 1 : term[k] = u[k] + e * v[k]
  BY DEF Added
<1>3. \A k \in 0..n - 1 : term[k] \in Int
  <2> SUFFICES ASSUME NEW k \in 0..n - 1 PROVE term[k] \in Int
    OBVIOUS
  <2>1. PICK a \in Int, b \in Int : a = u[k] /\ b = v[k] /\ term[k] = a + e * b
    BY <1>1, <1>2
  <2> QED BY <2>1
<1> HIDE DEF term
<1>4. ValueOf(n, term) = ValueOf(n, u) + e * ValueOf(n, v)
  BY <1>1, <1>2, ValueLinear
<1>5. /\ Ripple(n, term) \in Words(n) /\ CarryInto(n, term) \in Int
      /\ ValueOf(n, Ripple(n, term)) + CarryInto(n, term) * Place(n) = ValueOf(n, term)
  BY <1>1, <1>3, RippleCounts
<1> QED BY <1>4, <1>5 DEF term, Uint, Value, Width

(* Between 0 and two widths there is room for one carry.                   *)
LEMMA OneCarry ==
    ASSUME NEW w \in Nat, NEW r \in Nat, r < w, NEW c \in Int, NEW s \in Int, r + c * w = s
    PROVE  /\ 0 <= s => 0 <= c
           /\ s < 2 * w => c <= 1
           /\ -w <= s => -1 <= c
           /\ s < w => c <= 0
<1>1. c * w \in Int
  OBVIOUS
<1>2. ASSUME c <= -1 PROVE c * w <= -w
  <2>1. (-c) * w >= w
    BY <1>2
  <2>2. (-c) * w = -(c * w)
    OBVIOUS
  <2> QED BY <1>1, <2>1, <2>2
<1>3. ASSUME c <= -2 PROVE c * w <= -(2 * w)
  <2>1. (-c) * w >= 2 * w
    BY <1>3
  <2>2. (-c) * w = -(c * w)
    OBVIOUS
  <2> QED BY <1>1, <2>1, <2>2
<1>4. ASSUME c >= 1 PROVE c * w >= w
  BY <1>4
<1>5. ASSUME c >= 2 PROVE c * w >= 2 * w
  BY <1>5
<1> QED BY <1>1, <1>2, <1>3, <1>4, <1>5

LEMMA SumCounts ==
    ASSUME NEW u \in Uint, NEW v \in Uint, NEW e \in {0, 1}
    PROVE  /\ Sum(u, v, e) \in Uint /\ SumCarry(u, v, e) \in {0, 1}
           /\ Value(Sum(u, v, e)) + SumCarry(u, v, e) * Width = Value(u) + e * Value(v)
<1>e. e \in Int
  OBVIOUS
<1>1. PICK r \in Uint, c \in Int :
          /\ r = Sum(u, v, e) /\ c = SumCarry(u, v, e)
          /\ Value(r) + c * Width = Value(u) + e * Value(v)
  <2>1. PICK r \in Uint, c \in Int :
            /\ r = Ripple(NUM_WORDS, Added(u, v, e))
            /\ c = CarryInto(NUM_WORDS, Added(u, v, e))
            /\ Value(r) + c * Width = Value(u) + e * Value(v)
    BY <1>e, AddedCounts, Zenon
  <2> QED BY <2>1 DEF Sum, SumCarry
<1>2. /\ Value(u) \in Nat /\ Value(u) < Width /\ Value(v) \in Nat /\ Value(v) < Width
      /\ Value(r) \in Nat /\ Value(r) < Width /\ Width \in Nat
  BY UintValue
<1>3. 0 <= Value(u) + e * Value(v) /\ Value(u) + e * Value(v) < 2 * Width
      /\ Value(u) + e * Value(v) \in Int
  BY <1>2
<1>4. 0 <= c /\ c <= 1
  <2>1. PICK s \in Int, q \in Nat, w \in Nat :
            s = Value(u) + e * Value(v) /\ q = Value(r) /\ w = Width
    BY <1>2, <1>3
  <2>2. q < w /\ q + c * w = s /\ 0 <= s /\ s < 2 * w
    BY <1>1, <1>2, <1>3, <2>1
  <2> QED BY <2>2, OneCarry
<1> QED BY <1>1, <1>4

LEMMA DifferenceCounts ==
    ASSUME NEW u \in Uint, NEW v \in Uint, NEW e \in {0, 1}
    PROVE  /\ Difference(u, v, e) \in Uint /\ DifferenceBorrow(u, v, e) \in {0, 1}
           /\ Value(Difference(u, v, e)) - DifferenceBorrow(u, v, e) * Width
                = Value(u) - e * Value(v)
<1> PICK f \in Int : f = -e
  OBVIOUS
<1>1. PICK r \in Uint, c \in Int :
          /\ r = Difference(u, v, e) /\ -c = DifferenceBorrow(u, v, e)
          /\ Value(r) + c * Width = Value(u) + f * Value(v)
  <2>1. PICK r \in Uint, d \in Int :
            /\ r = Ripple(NUM_WORDS, Added(u, v, f))
            /\ d = CarryInto(NUM_WORDS, Added(u, v, f))
            /\ Value(r) + d * Width = Value(u) + f * Value(v)
    BY AddedCounts, Zenon
  <2>2. r = Difference(u, v, e) /\ DifferenceBorrow(u, v, e) = -d
    BY <2>1 DEF Difference, DifferenceBorrow
  <2> QED BY <2>1, <2>2
<1>2. /\ Value(u) \in Nat /\ Value(u) < Width /\ Value(v) \in Nat /\ Value(v) < Width
      /\ Value(r) \in Nat /\ Value(r) < Width /\ Width \in Nat
  BY UintValue
<1>3. /\ -Width <= Value(u) + f * Value(v) /\ Value(u) + f * Value(v) < Width
      /\ Value(u) + f * Value(v) \in Int
      /\ Value(u) + f * Value(v) = Value(u) - e * Value(v)
  BY <1>2
<1>4. -1 <= c /\ c <= 0
  <2>1. PICK s \in Int, q \in Nat, w \in Nat :
            s = Value(u) + f * Value(v) /\ q = Value(r) /\ w = Width
    BY <1>2, <1>3
  <2>2. q < w /\ q + c * w = s /\ -w <= s /\ s < w
    BY <1>1, <1>2, <1>3, <2>1
  <2> QED BY <2>2, OneCarry
<1>5. c * Width = -((-c) * Width)
  BY <1>2
<1>6. Value(r) - (-c) * Width = Value(u) - e * Value(v)
  BY <1>1, <1>2, <1>3, <1>4, <1>5
<1> QED BY <1>1, <1>4, <1>6

LEMMA DoubledCounts ==
    ASSUME NEW u \in Uint
    PROVE  /\ Doubled(u) \in Uint /\ DoubledCarry(u) \in {0, 1}
           /\ Value(Doubled(u)) + DoubledCarry(u) * Width = 2 * Value(u)
<1>1. Doubled(u) = Sum(u, u, 1) /\ DoubledCarry(u) = SumCarry(u, u, 1)
  BY DEF Doubled, DoubledCarry, Sum, SumCarry
<1>2. Value(u) + 1 * Value(u) = 2 * Value(u)
  BY UintValue
<1> QED BY <1>1, <1>2, SumCounts

(* shiftRight1 halves; the bit that falls out is the lowest of the lowest  *)
(* word.                                                                   *)
LEMMA HalvedCounts ==
    ASSUME NEW u \in Uint
    PROVE  /\ Halved(u, 1) \in Uint /\ Halved(u, 0) = u
           /\ u[0] % 2 = Value(u) % 2
           /\ Value(Halved(u, 1)) = Value(u) \div 2
<1> DEFINE n == NUM_WORDS
           h == Halved(u, 1)
           odd(k) == IF k < n THEN u[k] % 2 ELSE 0
<1>1. n \in Nat \ {0} /\ u \in Words(n)
  BY WordsAssumption DEF Uint
<1>2. \A k \in 0..n - 1 : u[k] \in Nat /\ u[k] <= Base - 1
  BY <1>1, WordsAreNumbers, Places
<1>3. PICK half \in Nat \ {0} : Base \div 2 = half /\ Base = 2 * half
  BY Places
<1>4. \A k \in 0..n - 1 : h[k] = u[k] \div 2 + odd(k + 1) * half
  <2> SUFFICES ASSUME NEW k \in 0..n - 1
               PROVE  h[k] = u[k] \div 2 + odd(k + 1) * half
    OBVIOUS
  <2>1. h[k] = u[k] \div 2 + (IF k < NUM_WORDS - 1 THEN u[k + 1] % 2 ELSE 0) * (Base \div 2)
    BY DEF Halved
  <2>2. k < NUM_WORDS - 1 <=> k + 1 < n
    BY <1>1
  <2> HIDE DEF h
  <2> QED BY <1>3, <2>1, <2>2
<1>5. ASSUME NEW k \in 0..n - 1
      PROVE  /\ odd(k) \in {0, 1} /\ odd(k + 1) \in {0, 1}
             /\ 2 * (u[k] \div 2) + odd(k) = u[k]
             /\ u[k] \div 2 \in 0..half - 1
  <2>1. PICK m \in Nat : m = u[k] /\ m <= 2 * half - 1
    BY <1>2, <1>3
  <2>2. m % 2 \in {0, 1} /\ 2 * (m \div 2) + (m % 2) = m /\ m \div 2 \in 0..half - 1
    BY <2>1
  <2>3. odd(k) = m % 2
    BY <1>1, <2>1
  <2>4. odd(k + 1) \in {0, 1}
    <3>1. CASE k + 1 < n
      <4>1. k + 1 \in 0..n - 1
        BY <1>1, <3>1
      <4>2. PICK j \in Nat : j = u[k + 1]
        BY <1>2, <4>1
      <4>3. j % 2 \in {0, 1}
        OBVIOUS
      <4> QED BY <3>1, <4>2, <4>3
    <3>2. CASE ~(k + 1 < n)
      BY <3>2
    <3> QED BY <3>1, <3>2
  <2> HIDE DEF odd
  <2> QED BY <2>1, <2>2, <2>3, <2>4
<1>6. odd(0) = u[0] % 2 /\ odd(n) = 0
  BY <1>1
<1>7. h = [k \in 0..n - 1 |-> h[k]]
  BY DEF Halved
<1> HIDE DEF odd, h
<1>8. ASSUME NEW k \in 0..n - 1
      PROVE  h[k] \in Nat /\ h[k] < Base /\ 2 * h[k] + odd(k) = u[k] + odd(k + 1) * Base
  <2>1. PICK m \in 0..half - 1, a \in {0, 1}, b \in {0, 1} :
            m = u[k] \div 2 /\ a = odd(k) /\ b = odd(k + 1)
    BY <1>5
  <2>2. h[k] = m + b * half /\ u[k] = 2 * m + a
    BY <1>4, <1>5, <2>1
  <2>3. h[k] = m \/ h[k] = m + half
    BY <2>2
  <2>4. m + b * half \in Nat /\ m + b * half < Base
        /\ 2 * (m + b * half) + a = (2 * m + a) + b * Base
    <3>1. CASE b = 0
      BY <1>3, <3>1
    <3>2. CASE b = 1
      BY <1>3, <3>2
    <3> QED BY <3>1, <3>2
  <2> QED BY <2>1, <2>2, <2>4
<1>9. h \in Uint
  <2>1. \A k \in 0..n - 1 : h[k] \in Word
    BY <1>8, Places DEF Word
  <2> QED BY <1>7, <2>1 DEF Uint, Words
<1>10. /\ ValueOf(0, u) = 0 /\ ValueOf(0, h) = 0
       /\ \A k \in 0..n - 1 : /\ ValueOf(k + 1, u) = ValueOf(k, u) + u[k] * Place(k)
                              /\ ValueOf(k + 1, h) = ValueOf(k, h) + h[k] * Place(k)
       /\ \A k \in 0..n : ValueOf(k, u) \in Int /\ ValueOf(k, h) \in Int
  <2>1. n \in Nat /\ \A k \in 0..n - 1 : u[k] \in Int /\ h[k] \in Int
    BY <1>1, <1>2, <1>8
  <2> QED BY <2>1, Values
<1> DEFINE T == {k \in 0..n : 2 * ValueOf(k, h) + odd(0) = ValueOf(k, u) + odd(k) * Place(k)}
<1>11. 0 \in T
  <2>1. odd(0) \in {0, 1} /\ Place(0) = 1
    BY <1>1, <1>5, Places
  <2> QED BY <1>1, <1>10, <2>1
<1>12. ASSUME NEW k \in 0..n - 1, k \in T PROVE k + 1 \in T
  <2>1. PICK p \in Nat : p = Place(k) /\ Place(k + 1) = Base * p
    <3>1. k \in Nat
      BY <1>1
    <3> QED BY <3>1, Places
  <2>2. PICK a \in {0, 1}, b \in {0, 1}, m \in Nat, g \in Nat, x \in Int, y \in Int :
            /\ a = odd(k) /\ b = odd(k + 1) /\ m = u[k] /\ g = h[k]
            /\ x = ValueOf(k, u) /\ y = ValueOf(k, h)
    <3>1. odd(k) \in {0, 1} /\ odd(k + 1) \in {0, 1}
      BY <1>5
    <3>2. u[k] \in Nat /\ h[k] \in Nat
      BY <1>2, <1>8
    <3>3. ValueOf(k, u) \in Int /\ ValueOf(k, h) \in Int
      BY <1>1, <1>10, k \in 0..n
    <3> QED BY <3>1, <3>2, <3>3
  <2>3. 2 * g + a = m + b * Base /\ 2 * y + odd(0) = x + a * p
    BY <1>8, <1>12, <2>1, <2>2
  <2>4. ValueOf(k + 1, u) = x + m * p /\ ValueOf(k + 1, h) = y + g * p
    BY <1>10, <2>1, <2>2
  <2>5. 2 * (y + g * p) + odd(0) = (x + m * p) + b * (Base * p)
    <3>1. PICK c \in Nat, d \in Int : c = Base /\ d = odd(0)
      <4>1. odd(0) \in Int
        BY <1>1, <1>5
      <4> QED BY <4>1, Places
    <3>2. (2 * g + a) * p = (m + b * c) * p
      BY <2>3, <3>1
    <3>3. 2 * (g * p) + a * p = m * p + b * (c * p)
      BY <3>2
    <3>4. g * p \in Int /\ a * p \in Int /\ m * p \in Int /\ b * (c * p) \in Int
      OBVIOUS
    <3>5. 2 * y + d = x + a * p
      BY <2>3, <3>1
    <3>6. 2 * (y + g * p) + d = (x + m * p) + b * (c * p)
      BY <3>3, <3>4, <3>5
    <3> QED BY <3>1, <3>6
  <2>6. k + 1 \in 0..n
    BY <1>1
  <2> QED BY <2>1, <2>2, <2>4, <2>5, <2>6
<1>13. n \in T
  <2>1. 0..n \subseteq T
    <3> HIDE DEF T, n
    <3> QED BY <1>1, <1>11, <1>12, InductionUpTo
  <2> QED BY <1>1, <2>1
<1>14. 2 * Value(h) + odd(0) = Value(u)
  <2>1. Place(n) \in Nat /\ ValueOf(n, u) \in Int /\ n \in 0..n
    BY <1>1, <1>10, Places
  <2>2. 2 * ValueOf(n, h) + odd(0) = ValueOf(n, u) + 0 * Place(n)
    BY <1>6, <1>13
  <2> QED BY <2>1, <2>2 DEF Value
<1>15. odd(0) \in {0, 1} /\ Value(h) \in Nat
  BY <1>1, <1>5, <1>9, UintValue
<1>16. Value(u) % 2 = odd(0) /\ Value(u) \div 2 = Value(h)
  BY <1>14, <1>15
<1>17. Halved(u, 0) = u
  BY DEF Halved
<1> QED BY <1>6, <1>9, <1>16, <1>17 DEF h

(* The words of a number give it back.                                     *)
LEMMA ToWordsCounts ==
    ASSUME NEW v \in Nat, v < Width
    PROVE  ToWords(v) \in Uint /\ Value(ToWords(v)) = v
<1> DEFINE n == NUM_WORDS
           w == ToWords(v)
           q(k) == v \div Place(k)
<1>1. n \in Nat
  BY WordsAssumption
<1>2. \A k \in Nat : q(k) \in Nat
  <2> SUFFICES ASSUME NEW k \in Nat PROVE v \div Place(k) \in Nat
    OBVIOUS
  <2>1. PICK m \in Nat \ {0} : m = Place(k)
    BY Places
  <2> QED BY <2>1, DividedTwice, 1 \in Nat \ {0}
<1>3. \A k \in 0..n - 1 : w[k] = q(k) % Base
  BY DEF ToWords
<1>4. w = [k \in 0..n - 1 |-> w[k]]
  BY DEF ToWords
<1>5. ASSUME NEW k \in Nat PROVE q(k) = Base * q(k + 1) + (q(k) % Base)
  <2>1. PICK p \in Nat \ {0}, b \in Nat \ {0} : p = Place(k) /\ b = Base /\ Place(k + 1) = b * p
    BY Places
  <2>2. b * p = p * b
    BY <2>1
  <2>3. v \div (p * b) = (v \div p) \div b /\ v \div p \in Nat
    BY DividedTwice
  <2>4. q(k) = v \div p /\ q(k + 1) = (v \div p) \div b
    BY <2>1, <2>2, <2>3
  <2>5. PICK m \in Nat : m = v \div p
    BY <2>3
  <2>6. m = b * (m \div b) + (m % b)
    BY <2>1
  <2> QED BY <2>1, <2>4, <2>5, <2>6
<1> HIDE DEF w, q
<1>6. \A k \in 0..n - 1 : w[k] \in Word /\ w[k] \in Int
  <2> SUFFICES ASSUME NEW k \in 0..n - 1 PROVE w[k] \in Word /\ w[k] \in Int
    OBVIOUS
  <2>1. PICK m \in Nat, b \in Nat \ {0} : m = q(k) /\ b = Base
    BY <1>1, <1>2, Places
  <2>2. m % b \in 0..b - 1
    OBVIOUS
  <2> QED BY <1>3, <2>1, <2>2 DEF Word
<1>7. w \in Uint
  BY <1>4, <1>6 DEF Uint, Words
<1>8. /\ ValueOf(0, w) = 0
      /\ \A k \in 0..n - 1 : ValueOf(k + 1, w) = ValueOf(k, w) + w[k] * Place(k)
      /\ \A k \in 0..n : ValueOf(k, w) \in Int
  BY <1>1, <1>6, Values
<1> DEFINE T == {k \in 0..n : ValueOf(k, w) + q(k) * Place(k) = v}
<1>9. 0 \in T
  <2>1. Place(0) = 1 /\ q(0) = v
    BY Places DEF q
  <2> QED BY <1>1, <1>8, <2>1
<1>10. ASSUME NEW k \in 0..n - 1, k \in T PROVE k + 1 \in T
  <2>1. k \in Nat /\ k + 1 \in Nat /\ k + 1 \in 0..n
    BY <1>1
  <2>2. PICK p \in Nat, b \in Nat : p = Place(k) /\ b = Base /\ Place(k + 1) = b * p
    BY <2>1, Places
  <2>3. PICK x \in Int, c \in Nat, d \in Nat, e \in Int :
            x = ValueOf(k, w) /\ c = q(k) /\ d = q(k + 1) /\ e = w[k]
    <3>1. q(k) \in Nat /\ q(k + 1) \in Nat
      BY <1>2, <2>1
    <3>2. ValueOf(k, w) \in Int /\ w[k] \in Int
      BY <1>1, <1>6, <1>8, k \in 0..n
    <3> QED BY <3>1, <3>2
  <2>4. c = b * d + e /\ x + c * p = v /\ ValueOf(k + 1, w) = x + e * p
    BY <1>3, <1>5, <1>8, <1>10, <2>1, <2>2, <2>3
  <2>5. x + e * p + d * (b * p) = x + (b * d + e) * p
    OBVIOUS
  <2> QED BY <2>1, <2>2, <2>3, <2>4, <2>5
<1>11. n \in T
  <2>1. 0..n \subseteq T
    <3> HIDE DEF T
    <3> QED BY <1>1, <1>9, <1>10, InductionUpTo
  <2> QED BY <1>1, <2>1
<1>12. q(n) = 0
  <2>1. PICK m \in Nat \ {0} : m = Place(n)
    BY <1>1, Places
  <2> QED BY <2>1, SmallQuotient DEF q, Width
<1>13. ValueOf(n, w) = v
  BY <1>1, <1>8, <1>11, <1>12, Places
<1> QED BY <1>7, <1>13 DEF w, Value

-----------------------------------------------------------------------------
(* The methods, as numbers.                                                *)

LEMMA PrimeFacts ==
    /\ Width \in Nat /\ Prime \in Nat /\ 1 < Prime /\ Prime + 1 < Width
    /\ Width < 2 * Prime /\ Prime % 2 = 1
    /\ MODULUS \in Uint /\ Value(MODULUS) = Prime
    /\ ZERO \in Uint /\ Value(ZERO) = 0
    /\ ONE \in Uint /\ Value(ONE) = 1
<1>1. Width \in Nat /\ Base \in Nat \ {0, 1}
  BY Places, WordsAssumption DEF Width
<1>2. /\ Offset \in Nat /\ 1 < Prime /\ Width < 2 * Prime
      /\ \A d \in 2..Prime - 1 : Prime % d # 0
  BY OffsetAssumption
<1>3. Prime \in Nat /\ Prime + 1 < Width
  BY <1>1, <1>2 DEF Prime
<1>4. Prime % 2 = 1
  <2>1. 2 \in 2..Prime - 1
    BY <1>1, <1>2, <1>3
  <2>2. Prime % 2 # 0
    BY <1>2, <2>1
  <2>3. Prime % 2 \in {0, 1}
    BY <1>3
  <2> QED BY <2>2, <2>3
<1>5. MODULUS \in Uint /\ Value(MODULUS) = Prime
  BY <1>1, <1>3, ToWordsCounts DEF MODULUS
<1>6. ZERO \in Uint /\ Value(ZERO) = 0 /\ ONE \in Uint /\ Value(ONE) = 1
  BY <1>1, <1>2, <1>3, ToWordsCounts, 0 \in Nat, 1 \in Nat DEF ZERO, ONE
<1> QED BY <1>1, <1>2, <1>3, <1>4, <1>5, <1>6

LEMMA OneReduction ==
    ASSUME NEW s \in Nat, s < 2 * Prime
    PROVE  s % Prime = IF s < Prime THEN s ELSE s - Prime
<1>1. Prime \in Nat \ {0}
  BY PrimeFacts
<1>2. CASE s < Prime
  <2>1. s \in 0..Prime - 1 /\ 0 * Prime + s = s
    BY <1>1, <1>2
  <2> QED BY <1>1, <1>2, <2>1, RemainderUnique, 0 \in Int
<1>3. CASE ~(s < Prime)
  <2>1. s - Prime \in 0..Prime - 1 /\ 1 * Prime + (s - Prime) = s
    BY <1>1, <1>3
  <2> QED BY <1>1, <1>3, <2>1, RemainderUnique, 1 \in Int
<1> QED BY <1>2, <1>3

(* The subtraction at the end of a method leaves a residue, if the number  *)
(* and its carry are below twice the prime.                                *)
LEMMA ReducedCounts ==
    ASSUME NEW u \in Uint, NEW c \in {0, 1}, Value(u) + c * Width < 2 * Prime
    PROVE  /\ Reduced(c, u) \in Uint /\ Value(Reduced(c, u)) < Prime
           /\ Value(Reduced(c, u)) = (Value(u) + c * Width) % Prime
<1> DEFINE e == Bit(c # 0 \/ ~Less(u, MODULUS))
           d == Difference(u, MODULUS, e)
           b == DifferenceBorrow(u, MODULUS, e)
           v == Value(u)
<1>1. Reduced(c, u) = d
  BY DEF Reduced
<1>2. /\ Prime \in Nat /\ Width \in Nat /\ Prime < Width /\ Width < 2 * Prime
      /\ MODULUS \in Uint /\ Value(MODULUS) = Prime
  BY PrimeFacts
<1>3. /\ e \in {0, 1}
      /\ e = 1 <=> c = 1 \/ ~(v < Prime)
  <2>1. Less(u, MODULUS) <=> v < Prime
    BY <1>2, LessIsLess
  <2> QED BY <2>1 DEF Bit
<1> HIDE DEF e
<1>4. /\ d \in Uint /\ b \in {0, 1} /\ Value(d) - b * Width = v - e * Prime
  BY <1>2, <1>3, DifferenceCounts
<1>5. v \in Nat /\ v < Width /\ Value(d) \in Nat /\ Value(d) < Width
  BY <1>4, UintValue
<1> HIDE DEF d, b, v
<1> DEFINE s == v + c * Width
<1>6. s \in Nat /\ s < 2 * Prime
  BY <1>2, <1>5 DEF v
<1>7. s % Prime = IF s < Prime THEN s ELSE s - Prime
  BY <1>6, OneReduction
<1>8. Value(d) = (IF s < Prime THEN s ELSE s - Prime) /\ Value(d) < Prime
  <2>1. CASE c = 0 /\ v < Prime
    BY <1>2, <1>3, <1>4, <1>5, <2>1
  <2>2. CASE c = 0 /\ ~(v < Prime)
    BY <1>2, <1>3, <1>4, <1>5, <2>2
  <2>3. CASE c = 1
    BY <1>2, <1>3, <1>4, <1>5, <1>6, <2>3
  <2> QED BY <2>1, <2>2, <2>3
<1> QED BY <1>1, <1>4, <1>7, <1>8 DEF v

(* subtract, and the same with a flag, which reciprocal needs: the modulus *)
(* makes a borrow good.                                                    *)
LEMMA MinusCounts ==
    ASSUME NEW u \in Uint, NEW v \in Uint, NEW e \in {0, 1},
           Value(u) < Prime, Value(v) < Prime
    PROVE  LET m == Sum(Difference(u, v, e), MODULUS, DifferenceBorrow(u, v, e))
               t == Value(u) - e * Value(v)
           IN  m \in Uint /\ Value(m) = (IF t < 0 THEN t + Prime ELSE t)
<1> DEFINE d == Difference(u, v, e)
           b == DifferenceBorrow(u, v, e)
           m == Sum(d, MODULUS, b)
           c == SumCarry(d, MODULUS, b)
           t == Value(u) - e * Value(v)
<1>1. /\ Prime \in Nat /\ Width \in Nat /\ Prime < Width
      /\ MODULUS \in Uint /\ Value(MODULUS) = Prime
  BY PrimeFacts
<1>2. d \in Uint /\ b \in {0, 1} /\ Value(d) - b * Width = t
  BY DifferenceCounts
<1>3. Value(u) \in Nat /\ Value(v) \in Nat /\ Value(d) \in Nat /\ Value(d) < Width
  BY <1>2, UintValue
<1>4. t \in Int /\ -Prime < t /\ t < Prime
  BY <1>1, <1>3
<1> HIDE DEF d, b, t
<1>5. m \in Uint /\ c \in {0, 1} /\ Value(m) + c * Width = Value(d) + b * Prime
  <2>1. MODULUS \in Uint /\ d \in Uint /\ b \in {0, 1}
    BY <1>1, <1>2
  <2>2. /\ m \in Uint /\ c \in {0, 1}
        /\ Value(m) + c * Width = Value(d) + b * Value(MODULUS)
    <3>1. ASSUME NEW w \in Uint, NEW f \in {0, 1}
          PROVE  /\ Sum(w, MODULUS, f) \in Uint /\ SumCarry(w, MODULUS, f) \in {0, 1}
                 /\ Value(Sum(w, MODULUS, f)) + SumCarry(w, MODULUS, f) * Width
                      = Value(w) + f * Value(MODULUS)
      BY <2>1, SumCounts
    <3> QED BY <2>1, <3>1, Zenon
  <2> HIDE DEF m, c
  <2> QED BY <1>1, <2>2
<1>6. Value(m) \in Nat /\ Value(m) < Width
  BY <1>5, UintValue
<1> HIDE DEF m, c
<1>7. Value(m) = IF t < 0 THEN t + Prime ELSE t
  <2>1. CASE b = 0
    BY <1>1, <1>2, <1>3, <1>4, <1>5, <1>6, <2>1
  <2>2. CASE b = 1
    BY <1>1, <1>2, <1>3, <1>4, <1>5, <1>6, <2>2
  <2> QED BY <1>2, <2>1, <2>2
<1> QED BY <1>5, <1>7 DEF m, t, d, b

(* What Add, Subtract and Multiply2 return.                                *)
Residual(u) == u \in Uint /\ Value(u) < Prime

LEMMA MethodsCount ==
    ASSUME NEW u, NEW v, Residual(u), Residual(v)
    PROVE  /\ LET r == Reduced(SumCarry(u, v, 1), Sum(u, v, 1))
              IN  Residual(r) /\ Value(r) = (Value(u) + Value(v)) % Prime
           /\ LET r == Sum(Difference(u, v, 1), MODULUS, DifferenceBorrow(u, v, 1))
              IN  Residual(r) /\ Value(r) = (Value(u) - Value(v)) % Prime
           /\ LET r == Reduced(DoubledCarry(u), Doubled(u))
              IN  Residual(r) /\ Value(r) = (2 * Value(u)) % Prime
<1>1. /\ u \in Uint /\ v \in Uint /\ Value(u) \in Nat /\ Value(v) \in Nat
      /\ Value(u) < Prime /\ Value(v) < Prime
  BY UintValue DEF Residual
<1>2. Prime \in Nat \ {0} /\ Width \in Nat
  BY PrimeFacts
<1>3. ASSUME NEW r \in Uint, NEW c \in {0, 1}, NEW s \in Nat, s < 2 * Prime,
             Value(r) + c * Width = s
      PROVE  Residual(Reduced(c, r)) /\ Value(Reduced(c, r)) = s % Prime
  BY <1>3, ReducedCounts DEF Residual
<1>4. LET r == Reduced(SumCarry(u, v, 1), Sum(u, v, 1))
      IN  Residual(r) /\ Value(r) = (Value(u) + Value(v)) % Prime
  <2>1. /\ Sum(u, v, 1) \in Uint /\ SumCarry(u, v, 1) \in {0, 1}
        /\ Value(Sum(u, v, 1)) + SumCarry(u, v, 1) * Width = Value(u) + 1 * Value(v)
    BY <1>1, SumCounts
  <2>2. Value(u) + Value(v) \in Nat /\ Value(u) + Value(v) < 2 * Prime
        /\ Value(u) + 1 * Value(v) = Value(u) + Value(v)
    BY <1>1, <1>2
  <2> QED BY <1>3, <2>1, <2>2
<1>5. LET r == Sum(Difference(u, v, 1), MODULUS, DifferenceBorrow(u, v, 1))
      IN  Residual(r) /\ Value(r) = (Value(u) - Value(v)) % Prime
  <2> DEFINE r == Sum(Difference(u, v, 1), MODULUS, DifferenceBorrow(u, v, 1))
  <2>1. PICK t \in Int : t = Value(u) - Value(v) /\ t = Value(u) - 1 * Value(v)
    BY <1>1
  <2>2. r \in Uint /\ Value(r) = IF t < 0 THEN t + Prime ELSE t
    <3>1. LET x == Value(u) - 1 * Value(v)
          IN  r \in Uint /\ Value(r) = (IF x < 0 THEN x + Prime ELSE x)
      BY <1>1, 1 \in {0, 1}, MinusCounts
    <3> QED BY <2>1, <3>1
  <2> HIDE DEF r
  <2>3. -Prime < t /\ t < Prime
    BY <1>1, <1>2, <2>1
  <2>4. Value(r) = t % Prime /\ Value(r) < Prime
    <3>1. CASE t < 0
      <4>1. t + Prime \in 0..Prime - 1 /\ (-1) * Prime + (t + Prime) = t
        BY <1>2, <2>3, <3>1
      <4> QED BY <1>2, <2>2, <3>1, <4>1, RemainderUnique, -1 \in Int
    <3>2. CASE ~(t < 0)
      <4>1. t \in 0..Prime - 1 /\ 0 * Prime + t = t
        BY <1>2, <2>3, <3>2
      <4> QED BY <1>2, <2>2, <3>2, <4>1, RemainderUnique, 0 \in Int
    <3> QED BY <3>1, <3>2
  <2> QED BY <2>1, <2>2, <2>4 DEF r, Residual
<1>6. LET r == Reduced(DoubledCarry(u), Doubled(u))
      IN  Residual(r) /\ Value(r) = (2 * Value(u)) % Prime
  <2>1. 2 * Value(u) \in Nat /\ 2 * Value(u) < 2 * Prime
    BY <1>1, <1>2
  <2> QED BY <1>1, <1>3, <2>1, DoubledCounts
<1> QED BY <1>4, <1>5, <1>6

-----------------------------------------------------------------------------
(* The arrays of multiply.                                                 *)

(* Zeros at the top count nothing.                                         *)
LEMMA ZeroAbove ==
    ASSUME NEW n \in Nat, NEW m \in 0..n, NEW w,
           \A k \in 0..m - 1 : w[k] \in Int, \A k \in m..n - 1 : w[k] = 0
    PROVE  ValueOf(n, w) = ValueOf(m, w) /\ ValueOf(m, w) \in Int
<1>1. \A k \in 0..n - 1 : w[k] \in Int
  OBVIOUS
<1> DEFINE T == {k \in 0..n : k < m \/ ValueOf(k, w) = ValueOf(m, w)}
<1>2. \A k \in 0..n - 1 : ValueOf(k + 1, w) = ValueOf(k, w) + w[k] * Place(k)
  BY <1>1, Values
<1>3. \A k \in 0..n : ValueOf(k, w) \in Int
  BY <1>1, Values
<1>4. 0 \in T
  OBVIOUS
<1>5. ASSUME NEW k \in 0..n - 1, k \in T PROVE k + 1 \in T
  <2>1. CASE k + 1 <= m
    BY <2>1
  <2>2. CASE m <= k
    <3>1. PICK p \in Nat : p = Place(k)
      BY Places
    <3>2. w[k] = 0 /\ 0 * p = 0
      BY <2>2
    <3>3. ValueOf(k + 1, w) = ValueOf(k, w) + 0 /\ ValueOf(k, w) \in Int
      BY <1>2, <1>3, <3>1, <3>2
    <3> QED BY <1>5, <2>2, <3>3
  <2> QED BY <2>1, <2>2
<1>6. 0..n \subseteq T
  <2> HIDE DEF T
  <2> QED BY <1>4, <1>5, InductionUpTo
<1>7. n \in T
  <2> HIDE DEF T
  <2> QED BY <1>6
<1> QED BY <1>3, <1>7

(* Moved up by l places, m words count Place(l) times as much.             *)
LEMMA MovedUp ==
    ASSUME NEW m \in Nat, NEW l \in Nat, NEW n \in Nat, m + l <= n, NEW w, NEW s,
           \A k \in 0..m - 1 : w[k] \in Int,
           \A k \in 0..n - 1 : s[k] = At(w, m, k - l)
    PROVE  ValueOf(n, s) = Place(l) * ValueOf(m, w)
<1>1. \A k \in 0..l - 1 : s[k] = 0
  <2> SUFFICES ASSUME NEW k \in 0..l - 1 PROVE s[k] = 0
    OBVIOUS
  <2>1. k \in 0..n - 1 /\ k - l \notin 0..m - 1
    OBVIOUS
  <2> QED BY <2>1 DEF At
<1>2. \A k \in 0..m - 1 : w[k] = s[l + k]
  <2> SUFFICES ASSUME NEW k \in 0..m - 1 PROVE w[k] = s[l + k]
    OBVIOUS
  <2>1. l + k \in 0..n - 1 /\ (l + k) - l = k
    OBVIOUS
  <2> QED BY <2>1 DEF At
<1>3. \A k \in l + m..n - 1 : s[k] = 0
  <2> SUFFICES ASSUME NEW k \in l + m..n - 1 PROVE s[k] = 0
    OBVIOUS
  <2>1. k \in 0..n - 1 /\ k - l \notin 0..m - 1
    OBVIOUS
  <2> QED BY <2>1 DEF At
<1>4. \A k \in 0..l + m - 1 : s[k] \in Int
  <2> SUFFICES ASSUME NEW k \in 0..l + m - 1 PROVE s[k] \in Int
    OBVIOUS
  <2>1. CASE k < l
    BY <1>1, <2>1
  <2>2. CASE l <= k
    <3>1. PICK j \in 0..m - 1 : k = l + j
      <4>1. k - l \in 0..m - 1 /\ k = l + (k - l)
        BY <2>2
      <4> QED BY <4>1
    <3> QED BY <1>2, <3>1
  <2> QED BY <2>1, <2>2
<1>5. ValueOf(n, s) = ValueOf(l + m, s)
  BY <1>3, <1>4, ZeroAbove, l + m \in 0..n
<1>6. ValueOf(l + m, s) = ValueOf(l, s) + Place(l) * ValueOf(m, w)
  <2>1. \A k \in 0..m - 1 : w[k] = s[l + k]
    BY <1>2
  <2>2. \A k \in 0..l + m - 1 : s[k] \in Int
    BY <1>4
  <2> QED BY ONLY l \in Nat, m \in Nat, <2>1, <2>2, ValueConcat
<1>7. ValueOf(l, s) = 0
  <2>1. ValueOf(l, s) = ValueOf(0, s)
    BY <1>1, ZeroAbove, 0 \in 0..l
  <2>2. ValueOf(0, s) = 0
    BY <1>4, Values, l + m \in Nat
  <2> QED BY <2>1, <2>2
<1>8. Place(l) * ValueOf(m, w) \in Int
  <2>1. Place(l) \in Nat
    BY Places
  <2>2. ValueOf(m, w) \in Int
    BY Values, m \in 0..m
  <2> QED BY <2>1, <2>2
<1> QED BY <1>5, <1>6, <1>7, <1>8

(* One digit times a number, and what was there, carries one word out.     *)
LEMMA RowCarry ==
    ASSUME NEW b \in Nat, NEW w \in Nat, NEW d \in Nat, d < b, NEW f \in Nat, f < w,
           NEW s \in Nat, s < w, NEW r \in Nat, r < w, NEW c \in Int,
           r + c * w = s + d * f
    PROVE  0 <= c /\ c < b
<1>1. d * f \in Nat /\ d * f <= (b - 1) * f /\ (b - 1) * f <= (b - 1) * (w - 1)
  <2>1. d * f \in Nat
    OBVIOUS
  <2>2. d * f <= (b - 1) * f
    OBVIOUS
  <2>3. (b - 1) * f <= (b - 1) * (w - 1)
    OBVIOUS
  <2> QED BY <2>1, <2>2, <2>3
<1>2. (b - 1) * (w - 1) = b * w - w - b + 1 /\ b * w \in Nat
  OBVIOUS
<1>3. s + d * f \in Nat /\ s + d * f < b * w
  BY <1>1, <1>2
<1>4. 0 <= c
  BY <1>3, OneCarry
<1>5. CASE b <= c
  <2>1. b * w <= c * w /\ c * w \in Nat
    BY <1>4, <1>5
  <2> QED BY <1>2, <1>3, <2>1
<1> QED BY <1>4, <1>5

(* A row of the multiplication (FieldInt.cpp:58-67) adds the factor times  *)
(* the digit, at the digit's place, and touches one word more.             *)
LEMMA RowCounts ==
    ASSUME value \in Uint, Factor \in Uint, NEW r \in 0..NUM_WORDS - 1,
           NEW p \in Words(2 * NUM_WORDS), \A k \in r + NUM_WORDS..2 * NUM_WORDS - 1 : p[k] = 0
    PROVE  LET q == RowAdded(p, r)
           IN  /\ q \in Words(2 * NUM_WORDS)
               /\ \A k \in r + 1 + NUM_WORDS..2 * NUM_WORDS - 1 : q[k] = 0
               /\ ValueOf(2 * NUM_WORDS, q)
                    = ValueOf(2 * NUM_WORDS, p) + (value[r] * Place(r)) * Value(Factor)
<1> DEFINE n   == NUM_WORDS
           q   == RowAdded(p, r)
           t   == RowTerm(p, r)
           row == Ripple(n, t)
           c   == CarryInto(n, t)
           seg == [j \in 0..n - 1 |-> p[r + j]]
<1>1. n \in Nat \ {0} /\ r \in Nat /\ r < n /\ value \in Words(n) /\ Factor \in Words(n)
  BY WordsAssumption DEF Uint
<1>2. /\ value[r] \in Nat /\ value[r] < Base
      /\ \A k \in 0..n - 1 : Factor[k] \in Nat
      /\ \A k \in 0..2 * n - 1 : p[k] \in Nat /\ p[k] < Base
  <2>1. \A k \in 0..n - 1 : value[k] \in Int /\ 0 <= value[k] /\ value[k] < Base
    BY <1>1, WordsAreNumbers
  <2>2. \A k \in 0..n - 1 : Factor[k] \in Int /\ 0 <= Factor[k]
    BY <1>1, WordsAreNumbers
  <2>3. \A k \in 0..2 * n - 1 : p[k] \in Int /\ 0 <= p[k] /\ p[k] < Base
    BY <1>1, WordsAreNumbers, 2 * n \in Nat
  <2> QED BY <1>1, <2>1, <2>2, <2>3
<1>3. PICK d \in Nat : d = value[r] /\ d < Base
  BY <1>2
<1>4. seg \in Words(n)
  <2>1. \A j \in 0..n - 1 : r + j \in 0..2 * n - 1
    BY <1>1
  <2> QED BY <1>1, <2>1 DEF Words
<1>5. \A j \in 0..n - 1 : /\ seg[j] = p[r + j] /\ seg[j] \in Int /\ Factor[j] \in Int
                          /\ t[j] = seg[j] + d * Factor[j] /\ t[j] \in Int
  <2> SUFFICES ASSUME NEW j \in 0..n - 1
               PROVE  /\ seg[j] = p[r + j] /\ seg[j] \in Int /\ Factor[j] \in Int
                      /\ t[j] = seg[j] + d * Factor[j] /\ t[j] \in Int
    OBVIOUS
  <2>1. r + j \in 0..2 * n - 1
    BY <1>1
  <2>2. PICK g \in Nat, s \in Nat : g = Factor[j] /\ s = p[r + j]
    BY <1>2, <2>1
  <2>3. t[j] = d * g + s /\ seg[j] = s
    BY <1>3, <2>2 DEF RowTerm
  <2>4. d * g + s = s + d * g /\ s + d * g \in Int
    OBVIOUS
  <2> HIDE DEF t, seg
  <2> QED BY <2>2, <2>3, <2>4
<1>6. /\ row \in Words(n) /\ c \in Int
      /\ ValueOf(n, row) + c * Place(n) = ValueOf(n, seg) + d * ValueOf(n, Factor)
  <2>1. row \in Words(n) /\ c \in Int /\ ValueOf(n, row) + c * Place(n) = ValueOf(n, t)
    <3>1. n \in Nat /\ \A k \in 0..n - 1 : t[k] \in Int
      BY <1>1, <1>5
    <3> HIDE DEF n, t
    <3> QED BY <3>1, RippleCounts
  <2>2. ValueOf(n, t) = ValueOf(n, seg) + d * ValueOf(n, Factor)
    <3> HIDE DEF n, t, seg
    <3> QED BY <1>1, <1>5, ValueLinear
  <2> QED BY <2>1, <2>2
<1>7. /\ ValueOf(n, row) \in Nat /\ ValueOf(n, row) < Place(n)
      /\ ValueOf(n, seg) \in Nat /\ ValueOf(n, seg) < Place(n)
      /\ ValueOf(n, Factor) \in Nat /\ ValueOf(n, Factor) < Place(n)
      /\ \A k \in 0..n - 1 : row[k] \in Word
      /\ Place(n) \in Nat /\ Base \in Nat
  <2>1. n \in 0..n
    BY <1>1
  <2>2. row \in Words(n) /\ seg \in Words(n) /\ Factor \in Words(n) /\ n \in Nat
    BY <1>1, <1>4, <1>6
  <2> HIDE DEF row, seg, n
  <2>3. \A k \in 0..n - 1 : row[k] \in Word
    BY <2>2 DEF Words
  <2> QED BY <2>1, <2>2, <2>3, WordsAreNumbers, Places
<1>8. 0 <= c /\ c < Base
  <2>1. PICK b \in Nat, w \in Nat, g \in Nat, s \in Nat, u \in Nat :
            /\ b = Base /\ w = Place(n) /\ g = ValueOf(n, Factor)
            /\ s = ValueOf(n, seg) /\ u = ValueOf(n, row)
    BY <1>7
  <2> HIDE DEF n, row, seg, c
  <2>2. d < b /\ g < w /\ s < w /\ u < w /\ u + c * w = s + d * g /\ c \in Int
    BY <1>3, <1>6, <1>7, <2>1
  <2> QED BY <2>1, <2>2, RowCarry
<1>9. \A k \in 0..2 * n - 1 :
          q[k] = IF k \in r..r + n - 1 THEN row[k - r] ELSE IF k = r + n THEN c ELSE p[k]
  BY DEF RowAdded
<1>10. q = [k \in 0..2 * n - 1 |-> q[k]]
  BY DEF RowAdded
<1> HIDE DEF q, t, row, c, seg, n
<1>11. ASSUME NEW k \in 0..2 * n - 1 PROVE q[k] \in Word /\ q[k] \in Int
  <2>1. q[k] \in Word
    <3>1. CASE k \in r..r + n - 1
      <4>1. k - r \in 0..n - 1
        BY <1>1, <3>1
      <4> QED BY <1>7, <1>9, <3>1, <4>1
    <3>2. CASE k = r + n
      <4>1. c \in Word
        BY <1>6, <1>7, <1>8 DEF Word
      <4> QED BY <1>1, <1>9, <3>2, <4>1
    <3>3. CASE k \notin r..r + n - 1 /\ k # r + n
      <4>1. p[k] \in Word
        BY <1>2, <1>7 DEF Word
      <4> QED BY <1>9, <3>3, <4>1
    <3> QED BY <3>1, <3>2, <3>3
  <2> QED BY <2>1, <1>7 DEF Word
<1>12. q \in Words(2 * n)
  BY <1>10, <1>11 DEF Words
<1>13. \A k \in r + 1 + n..2 * n - 1 : q[k] = 0
  <2> SUFFICES ASSUME NEW k \in r + 1 + n..2 * n - 1 PROVE q[k] = 0
    OBVIOUS
  <2>1. k \in 0..2 * n - 1 /\ k \notin r..r + n - 1 /\ k # r + n /\ k \in r + n..2 * n - 1
    BY <1>1
  <2> QED BY <1>9, <2>1 DEF n
<1>0. PICK m \in Nat, l \in Nat, h \in Nat :
          m = r /\ l = n /\ h = 2 * n /\ m + l \in 0..h - 1 /\ m + 1 + l \in 0..h
  BY <1>1
<1>c. ASSUME NEW w, NEW s,
             \A k \in 0..m + l - 1 : w[k] \in Int, \A k \in 0..l - 1 : s[k] = w[m + k]
      PROVE  ValueOf(m + l, w) = ValueOf(m, w) + Place(m) * ValueOf(l, s)
  BY ONLY <1>c, ValueConcat
<1>14. ValueOf(2 * n, p) = ValueOf(r, p) + Place(r) * ValueOf(n, seg)
  <2>2. \A k \in 0..m + l - 1 : p[k] \in Int
    BY <1>0, <1>1, <1>2
  <2>3. \A k \in m + l..h - 1 : p[k] = 0
    BY <1>0 DEF n
  <2>4. ValueOf(h, p) = ValueOf(m + l, p)
    BY <1>0, <2>2, <2>3, ZeroAbove, m + l \in 0..h
  <2>5. \A k \in 0..l - 1 : seg[k] = p[m + k]
    BY <1>0, <1>5
  <2>6. ValueOf(m + l, p) = ValueOf(m, p) + Place(m) * ValueOf(l, seg)
    BY <2>2, <2>5, <1>c, Zenon
  <2> QED BY <1>0, <2>4, <2>6
<1>15. ValueOf(2 * n, q) = ValueOf(r, q) + Place(r) * ValueOf(n, row) + c * Place(r + n)
  <2>2. \A k \in 0..h - 1 : q[k] \in Int
    BY <1>0, <1>11
  <2>3. ValueOf(h, q) = ValueOf(m + 1 + l, q)
    <3>1. \A k \in 0..m + 1 + l - 1 : q[k] \in Int
      BY <1>0, <2>2
    <3>2. \A k \in m + 1 + l..h - 1 : q[k] = 0
      BY <1>0, <1>13
    <3> QED BY <1>0, <3>1, <3>2, ZeroAbove
  <2>4. ValueOf((m + l) + 1, q) = ValueOf(m + l, q) + q[m + l] * Place(m + l)
    BY <1>0, <2>2, Values
  <2>5. q[m + l] = c
    <3>1. m + l \in 0..2 * n - 1 /\ m + l \notin r..r + n - 1 /\ m + l = r + n
      BY <1>0, <1>1
    <3> QED BY <1>9, <3>1
  <2>6. \A k \in 0..l - 1 : row[k] = q[m + k]
    <3> SUFFICES ASSUME NEW k \in 0..l - 1 PROVE row[k] = q[m + k]
      OBVIOUS
    <3>1. /\ r + k \in 0..2 * n - 1 /\ r + k \in r..r + n - 1 /\ (r + k) - r = k
          /\ m + k = r + k
      BY <1>0, <1>1
    <3> QED BY <1>9, <3>1
  <2>7. \A k \in 0..m + l - 1 : q[k] \in Int
    BY <1>0, <2>2
  <2>8. ValueOf(m + l, q) = ValueOf(m, q) + Place(m) * ValueOf(l, row)
    BY <2>6, <2>7, <1>c, Zenon
  <2>9. (m + l) + 1 = m + 1 + l
    OBVIOUS
  <2> QED BY <1>0, <2>3, <2>4, <2>5, <2>8, <2>9
<1>16. ValueOf(r, q) = ValueOf(r, p)
  <2>1. \A k \in 0..r - 1 : p[k] \in Int /\ q[k] = p[k]
    <3> SUFFICES ASSUME NEW k \in 0..r - 1 PROVE p[k] \in Int /\ q[k] = p[k]
      OBVIOUS
    <3>1. k \in 0..2 * n - 1 /\ k \notin r..r + n - 1 /\ k # r + n
      BY <1>1
    <3> QED BY <1>2, <1>9, <3>1
  <2> QED BY <1>1, <2>1, SameWords
<1>17. ValueOf(2 * n, q) = ValueOf(2 * n, p) + (d * Place(r)) * ValueOf(n, Factor)
  <2>1. Place(r + n) = Place(r) * Place(n)
    BY <1>1, PlacesAdd
  <2>2. PICK a \in Int, x \in Nat, w \in Nat, g \in Nat, s \in Nat, u \in Nat :
            /\ a = ValueOf(r, p) /\ x = Place(r) /\ w = Place(n)
            /\ g = ValueOf(n, Factor) /\ s = ValueOf(n, seg) /\ u = ValueOf(n, row)
    <3>1. ValueOf(r, p) \in Int
      <4>1. r \in Nat /\ r \in 0..r /\ \A k \in 0..r - 1 : p[k] \in Int
        BY <1>1, <1>2
      <4> QED BY <4>1, Values
    <3>2. Place(r) \in Nat
      BY <1>1, Places
    <3> QED BY <1>7, <3>1, <3>2
  <2>3. u + c * w = s + d * g /\ c \in Int
    BY <1>6, <2>2
  <2>4. x * u + c * (x * w) = x * s + (d * x) * g
    <3>1. x * (u + c * w) = x * (s + d * g)
      BY <2>3
    <3>2. x * u + x * (c * w) = x * s + x * (d * g)
      BY <2>3, <3>1
    <3>3. x * (c * w) = c * (x * w) /\ x * (d * g) = (d * x) * g
      BY <2>3
    <3> QED BY <3>2, <3>3
  <2>5. /\ ValueOf(2 * n, q) = a + x * u + c * (x * w)
        /\ ValueOf(2 * n, p) = a + x * s
    BY <1>14, <1>15, <1>16, <2>1, <2>2
  <2>6. x * u \in Int /\ c * (x * w) \in Int /\ x * s \in Int /\ (d * x) * g \in Int
    BY <2>3
  <2>7. a + x * u + c * (x * w) = (a + x * s) + (d * x) * g
    <3>1. PICK k1 \in Int, k2 \in Int, k3 \in Int, k4 \in Int :
              k1 = x * u /\ k2 = c * (x * w) /\ k3 = x * s /\ k4 = (d * x) * g
      BY <2>6
    <3>2. k1 + k2 = k3 + k4
      BY <2>4, <3>1
    <3>3. a + k1 + k2 = (a + k3) + k4
      BY <3>2
    <3> QED BY <3>1, <3>3
  <2> QED BY <2>2, <2>5, <2>7
<1> QED BY <1>3, <1>12, <1>13, <1>17 DEF q, n, Value

(* What two and three numbers in a row count.                              *)
LEMMA WidthPlaces ==
    /\ Place(NUM_WORDS) = Width /\ Place(2 * NUM_WORDS) = Width * Width
    /\ Place(3 * NUM_WORDS) = Width * Width * Width
    /\ Width \in Nat \ {0} /\ Place(1) = Base
<1>1. PICK n \in Nat, m \in Nat : n = NUM_WORDS /\ m = 2 * n
  BY WordsAssumption
<1>2. Place(n) \in Nat \ {0} /\ Place(n) = Width
  BY <1>1, Places DEF Width
<1>3. Place(n + n) = Place(n) * Place(n)
  BY PlacesAdd
<1>4. Place(m + n) = Place(m) * Place(n)
  BY PlacesAdd
<1>5. m = n + n /\ m + n = 3 * n
  BY <1>1
<1>6. Place(0 + 1) = Base * Place(0) /\ Place(0) = 1 /\ Base \in Nat /\ 0 + 1 = 1
  BY Places, 0 \in Nat
<1>7. Place(1) = Base
  BY <1>6
<1> QED BY <1>1, <1>2, <1>3, <1>4, <1>5, <1>7

(* The product with the quotient of the Barrett reduction                  *)
(* (FieldInt.cpp:69-90).                                                   *)
LEMMA EstimateCounts ==
    ASSUME NEW p \in Words(2 * NUM_WORDS),
           ValueOf(2 * NUM_WORDS, p) * (Width + Base + Offset) < Width * Width * Width
    PROVE  LET e == Ripple(3 * NUM_WORDS, EstimateTerm(p))
           IN  /\ e \in Words(3 * NUM_WORDS)
               /\ ValueOf(3 * NUM_WORDS, e)
                    = ValueOf(2 * NUM_WORDS, p) * (Width + Base + Offset)
               /\ CarryInto(3 * NUM_WORDS, EstimateTerm(p)) = 0
<1> DEFINE t == EstimateTerm(p)
           e == Ripple(3 * NUM_WORDS, t)
           z == CarryInto(3 * NUM_WORDS, t)
<1>1. PICK n \in Nat, m \in Nat, l \in Nat, o \in Nat, j \in Nat :
          /\ n = NUM_WORDS /\ m = 2 * NUM_WORDS /\ l = 3 * NUM_WORDS /\ o = 0 /\ j = 1
          /\ m + o <= l /\ m + j <= l /\ m + n <= l
  BY WordsAssumption
<1>2. p \in Words(m) /\ \A k \in 0..m - 1 : p[k] \in Int
  BY <1>1, WordsAreNumbers
<1> DEFINE a == [k \in 0..l - 1 |-> At(p, m, k - o)]
           b == [k \in 0..l - 1 |-> At(p, m, k - j)]
           c == [k \in 0..l - 1 |-> At(p, m, k - n)]
           s == [k \in 0..l - 1 |-> b[k] + Offset * a[k]]
<1>3. \A k \in Int : At(p, m, k) \in Int
  BY <1>2 DEF At
<1>4. Offset \in Nat /\ Base \in Nat /\ Width \in Nat \ {0}
  BY OffsetAssumption, Places, WidthPlaces
<1>5. /\ \A k \in 0..l - 1 : a[k] \in Int /\ b[k] \in Int /\ c[k] \in Int
      /\ \A k \in 0..l - 1 : s[k] = b[k] + Offset * a[k] /\ s[k] \in Int
      /\ \A k \in 0..l - 1 : t[k] = s[k] + 1 * c[k] /\ t[k] \in Int
  <2> SUFFICES ASSUME NEW k \in 0..l - 1
               PROVE  /\ a[k] \in Int /\ b[k] \in Int /\ c[k] \in Int
                      /\ s[k] = b[k] + Offset * a[k] /\ s[k] \in Int
                      /\ t[k] = s[k] + 1 * c[k] /\ t[k] \in Int
    OBVIOUS
  <2>1. PICK x \in Int, y \in Int, w \in Int :
            x = At(p, m, k) /\ y = At(p, m, k - 1) /\ w = At(p, m, k - n)
    BY <1>3
  <2>2. a[k] = x /\ b[k] = y /\ c[k] = w /\ s[k] = y + Offset * x
    BY <1>1, <2>1, k - 0 = k
  <2>3. t[k] = x * Offset + y + w
    BY <1>1, <2>1 DEF EstimateTerm
  <2>4. x * Offset + y + w = (y + Offset * x) + 1 * w /\ y + Offset * x \in Int
    BY <1>4
  <2> HIDE DEF a, b, c, s, t
  <2> QED BY <2>2, <2>3, <2>4
<1>a. \A k \in 0..l - 1 : a[k] = At(p, m, k - o)
  OBVIOUS
<1>b. \A k \in 0..l - 1 : b[k] = At(p, m, k - j)
  OBVIOUS
<1>c. \A k \in 0..l - 1 : c[k] = At(p, m, k - n)
  OBVIOUS
<1> HIDE DEF a, b, c, s, t
<1>7. PICK v \in Nat : v = ValueOf(m, p)
  BY <1>2, WordsAreNumbers, m \in 0..m
<1>6. ASSUME NEW d \in Nat, m + d <= l, NEW u, \A k \in 0..l - 1 : u[k] = At(p, m, k - d)
      PROVE  ValueOf(l, u) = Place(d) * v
  <2>1. ValueOf(l, u) = Place(d) * ValueOf(m, p)
    BY ONLY <1>2, <1>6, MovedUp
  <2> QED BY <1>7, <2>1
<1>8. ValueOf(l, a) = Place(o) * v
  BY <1>1, <1>6, <1>a, Zenon
<1>9. ValueOf(l, b) = Place(j) * v
  BY <1>1, <1>6, <1>b, Zenon
<1>10. ValueOf(l, c) = Place(n) * v
  BY <1>1, <1>6, <1>c, Zenon
<1>11. ValueOf(l, s) = ValueOf(l, b) + Offset * ValueOf(l, a)
  BY <1>4, <1>5, ValueLinear
<1>12. ValueOf(l, t) = ValueOf(l, s) + 1 * ValueOf(l, c)
  BY <1>5, ValueLinear, 1 \in Int
<1>13. ValueOf(l, t) = v * (Width + Base + Offset)
  <2>1. Place(o) * v = v /\ Place(j) * v = Base * v /\ Place(n) * v = Width * v
    <3>1. Place(o) = 1 /\ Place(j) = Base /\ Place(n) = Width
      BY <1>1, Places, WidthPlaces
    <3> QED BY <1>4, <3>1
  <2>2. ValueOf(l, t) = (Base * v + Offset * v) + 1 * (Width * v)
    BY <1>8, <1>9, <1>10, <1>11, <1>12, <2>1
  <2>3. (Base * v + Offset * v) + 1 * (Width * v) = v * (Width + Base + Offset)
    BY <1>4
  <2> QED BY <2>2, <2>3
<1>14. e \in Words(l) /\ z \in Int /\ ValueOf(l, e) + z * Place(l) = ValueOf(l, t)
  BY <1>1, <1>5, RippleCounts
<1> HIDE DEF e, z
<1>15. z = 0 /\ ValueOf(l, e) = ValueOf(l, t)
  <2>1. PICK w \in Nat, r \in Nat, u \in Nat :
            w = Place(l) /\ r = ValueOf(l, e) /\ u = ValueOf(l, t) /\ r < w /\ u < w
    <3>1. Place(l) \in Nat /\ Place(l) = Width * Width * Width
      BY <1>1, <1>4, WidthPlaces, Places
    <3>2. ValueOf(l, e) \in Nat /\ ValueOf(l, e) < Place(l)
      BY <1>14, WordsAreNumbers, l \in 0..l
    <3>3. v * (Width + Base + Offset) \in Nat
      BY <1>4
    <3> QED BY <1>1, <1>7, <1>13, <3>1, <3>2, <3>3
  <2>2. r + z * w = u
    BY <1>14, <2>1
  <2>3. 0 <= z /\ z <= 0
    BY <1>14, <2>1, <2>2, OneCarry
  <2>4. z = 0 /\ z * w = 0
    BY <1>14, <2>3
  <2> QED BY <2>1, <2>2, <2>4
<1> QED BY <1>1, <1>7, <1>13, <1>14, <1>15 DEF e, t, z

(* The highest words are the quotient by what comes below them.            *)
LEMMA ShiftedCounts ==
    ASSUME NEW p \in Words(3 * NUM_WORDS)
    PROVE  /\ Shifted(p) \in Uint
           /\ Value(Shifted(p)) = ValueOf(3 * NUM_WORDS, p) \div (Width * Width)
<1> DEFINE s == Shifted(p)
<1>1. PICK n \in Nat, m \in Nat : n = NUM_WORDS /\ m = 2 * NUM_WORDS /\ m + n = 3 * NUM_WORDS
  BY WordsAssumption
<1>2. p \in Words(m + n) /\ \A k \in 0..m + n - 1 : p[k] \in Int
  BY <1>1, WordsAreNumbers, m + n \in Nat
<1>3. s = [k \in 0..n - 1 |-> p[m + k]]
  BY <1>1 DEF Shifted
<1>4. s \in Uint
  <2>1. \A k \in 0..n - 1 : m + k \in 0..m + n - 1
    OBVIOUS
  <2> QED BY <1>1, <1>2, <1>3, <2>1 DEF Uint, Words
<1>5. \A k \in 0..n - 1 : s[k] = p[m + k]
  BY <1>3
<1> HIDE DEF s
<1>6. ValueOf(m + n, p) = ValueOf(m, p) + Place(m) * ValueOf(n, s)
  <2>1. ASSUME NEW w, NEW u,
               \A k \in 0..m + n - 1 : w[k] \in Int, \A k \in 0..n - 1 : u[k] = w[m + k]
        PROVE  ValueOf(m + n, w) = ValueOf(m, w) + Place(m) * ValueOf(n, u)
    BY ONLY <2>1, ValueConcat
  <2> QED BY <1>2, <1>5, <2>1, Zenon
<1>7. PICK w \in Nat \ {0}, low \in Nat, high \in Nat :
          w = Place(m) /\ low = ValueOf(m, p) /\ high = ValueOf(n, s) /\ low < w
  <2>1. Place(m) \in Nat \ {0}
    BY Places
  <2>2. ValueOf(m, p) \in Nat /\ ValueOf(m, p) < Place(m)
    <3>1. m \in 0..m + n /\ m + n \in Nat
      OBVIOUS
    <3> QED BY <1>2, <3>1, WordsAreNumbers
  <2>3. ValueOf(n, s) \in Nat
    BY <1>1, <1>4, UintValue DEF Value
  <2> QED BY <2>1, <2>2, <2>3
<1>8. (high * w + low) \div w = high
  BY <1>7, QuotientUnique
<1>9. low + w * high = high * w + low
  BY <1>7
<1> QED BY <1>1, <1>4, <1>6, <1>7, <1>8, <1>9, WidthPlaces DEF s, Value

(* The modulus times a number (FieldInt.cpp:92-114).                       *)
LEMMA MultipleCounts ==
    ASSUME NEW q \in Uint
    PROVE  LET e == Ripple(2 * NUM_WORDS, MultipleTerm(q))
           IN  /\ e \in Words(2 * NUM_WORDS)
               /\ ValueOf(2 * NUM_WORDS, e) = Value(q) * Prime
               /\ CarryInto(2 * NUM_WORDS, MultipleTerm(q)) = 0
<1> DEFINE t == MultipleTerm(q)
           e == Ripple(2 * NUM_WORDS, t)
           z == CarryInto(2 * NUM_WORDS, t)
<1>1. PICK n \in Nat, m \in Nat, o \in Nat, j \in Nat, g \in Int :
          /\ n = NUM_WORDS /\ m = 2 * NUM_WORDS /\ o = 0 /\ j = 1 /\ g = -Offset
          /\ n + o <= m /\ n + j <= m /\ n + n <= m
  BY WordsAssumption, OffsetAssumption
<1>2. q \in Words(n) /\ \A k \in 0..n - 1 : q[k] \in Int
  BY <1>1, WordsAreNumbers DEF Uint
<1> DEFINE a == [k \in 0..m - 1 |-> At(q, n, k - o)]
           b == [k \in 0..m - 1 |-> At(q, n, k - j)]
           c == [k \in 0..m - 1 |-> At(q, n, k - n)]
           s == [k \in 0..m - 1 |-> c[k] + g * a[k]]
<1>3. \A k \in Int : At(q, n, k) \in Int
  BY <1>2 DEF At
<1>4. /\ Offset \in Nat /\ Base \in Nat /\ Width \in Nat \ {0}
      /\ Prime = Width - Base - Offset /\ Prime \in Nat /\ Prime < Width
  BY OffsetAssumption, Places, WidthPlaces, PrimeFacts DEF Prime
<1>5. /\ \A k \in 0..m - 1 : a[k] \in Int /\ b[k] \in Int /\ c[k] \in Int
      /\ \A k \in 0..m - 1 : s[k] = c[k] + g * a[k] /\ s[k] \in Int
      /\ \A k \in 0..m - 1 : t[k] = s[k] + (-1) * b[k] /\ t[k] \in Int
  <2> SUFFICES ASSUME NEW k \in 0..m - 1
               PROVE  /\ a[k] \in Int /\ b[k] \in Int /\ c[k] \in Int
                      /\ s[k] = c[k] + g * a[k] /\ s[k] \in Int
                      /\ t[k] = s[k] + (-1) * b[k] /\ t[k] \in Int
    OBVIOUS
  <2>1. PICK x \in Int, y \in Int, w \in Int :
            x = At(q, n, k) /\ y = At(q, n, k - 1) /\ w = At(q, n, k - n)
    BY <1>3
  <2>2. a[k] = x /\ b[k] = y /\ c[k] = w /\ s[k] = w + g * x
    BY <1>1, <2>1, k - 0 = k
  <2>3. t[k] = w - x * Offset - y
    BY <1>1, <2>1 DEF MultipleTerm
  <2>4. w - x * Offset - y = (w + g * x) + (-1) * y /\ w + g * x \in Int
    BY <1>1, <1>4
  <2> HIDE DEF a, b, c, s, t
  <2> QED BY <2>2, <2>3, <2>4
<1>a. \A k \in 0..m - 1 : a[k] = At(q, n, k - o)
  OBVIOUS
<1>b. \A k \in 0..m - 1 : b[k] = At(q, n, k - j)
  OBVIOUS
<1>c. \A k \in 0..m - 1 : c[k] = At(q, n, k - n)
  OBVIOUS
<1> HIDE DEF a, b, c, s, t
<1>7. PICK v \in Nat : v = ValueOf(n, q) /\ v < Width
  BY <1>1, UintValue DEF Value
<1>6. ASSUME NEW d \in Nat, n + d <= m, NEW u, \A k \in 0..m - 1 : u[k] = At(q, n, k - d)
      PROVE  ValueOf(m, u) = Place(d) * v
  <2>1. ValueOf(m, u) = Place(d) * ValueOf(n, q)
    BY ONLY <1>2, <1>6, MovedUp
  <2> QED BY <1>7, <2>1
<1>8. ValueOf(m, a) = Place(o) * v
  BY <1>1, <1>6, <1>a, Zenon
<1>9. ValueOf(m, b) = Place(j) * v
  BY <1>1, <1>6, <1>b, Zenon
<1>10. ValueOf(m, c) = Place(n) * v
  BY <1>1, <1>6, <1>c, Zenon
<1>l. ASSUME NEW w1, NEW w2, NEW w3, NEW h \in Int,
             \A k \in 0..m - 1 : w1[k] \in Int /\ w2[k] \in Int /\ w3[k] = w1[k] + h * w2[k]
      PROVE  ValueOf(m, w3) = ValueOf(m, w1) + h * ValueOf(m, w2)
  BY ONLY <1>l, ValueLinear
<1>11. ValueOf(m, s) = ValueOf(m, c) + g * ValueOf(m, a)
  <2>1. \A k \in 0..m - 1 : c[k] \in Int /\ a[k] \in Int /\ s[k] = c[k] + g * a[k]
    BY <1>5
  <2> QED BY <1>l, <2>1, Zenon
<1>12. ValueOf(m, t) = ValueOf(m, s) + (-1) * ValueOf(m, b)
  <2>1. PICK h \in Int : h = -1
    OBVIOUS
  <2>2. \A k \in 0..m - 1 : s[k] \in Int /\ b[k] \in Int /\ t[k] = s[k] + h * b[k]
    BY <1>5, <2>1
  <2>3. ValueOf(m, t) = ValueOf(m, s) + h * ValueOf(m, b)
    BY <1>l, <2>2, Zenon
  <2> QED BY <2>1, <2>3
<1>13. ValueOf(m, t) = v * Prime
  <2>1. Place(o) * v = v /\ Place(j) * v = Base * v /\ Place(n) * v = Width * v
    <3>1. Place(o) = 1 /\ Place(j) = Base /\ Place(n) = Width
      BY <1>1, Places, WidthPlaces
    <3> QED BY <1>4, <3>1
  <2>2. ValueOf(m, t) = (Width * v + g * v) + (-1) * (Base * v)
    BY <1>8, <1>9, <1>10, <1>11, <1>12, <2>1
  <2>3. (Width * v + g * v) + (-1) * (Base * v) = v * (Width - Base - Offset)
    <3>1. g * v = -(Offset * v)
      BY <1>1, <1>4
    <3>2. v * (Width - Base - Offset) = Width * v - Base * v - Offset * v
      BY <1>4
    <3>3. Width * v \in Nat /\ Base * v \in Nat /\ Offset * v \in Nat
      BY <1>4
    <3> QED BY <3>1, <3>2, <3>3
  <2> QED BY <1>4, <2>2, <2>3
<1>14. e \in Words(m) /\ z \in Int /\ ValueOf(m, e) + z * Place(m) = ValueOf(m, t)
  BY <1>1, <1>5, RippleCounts
<1> HIDE DEF e, z
<1>15. z = 0 /\ ValueOf(m, e) = ValueOf(m, t)
  <2>1. PICK w \in Nat, r \in Nat, u \in Nat :
            w = Place(m) /\ r = ValueOf(m, e) /\ u = ValueOf(m, t) /\ r < w /\ u < w
    <3>1. Place(m) \in Nat /\ Place(m) = Width * Width
      BY <1>1, <1>4, WidthPlaces, Places
    <3>2. ValueOf(m, e) \in Nat /\ ValueOf(m, e) < Place(m)
      BY <1>14, WordsAreNumbers, m \in 0..m
    <3>3. v * Prime \in Nat /\ v * Prime < Width * Width
      <4>1. v * Prime <= v * Width /\ v * Width < Width * Width
        BY <1>4, <1>7
      <4> QED BY <1>4, <4>1
    <3> QED BY <1>13, <3>1, <3>2, <3>3
  <2>2. r + z * w = u
    BY <1>14, <2>1
  <2>3. 0 <= z /\ z <= 0
    BY <1>14, <2>1, <2>2, OneCarry
  <2>4. z = 0 /\ z * w = 0
    BY <1>14, <2>3
  <2> QED BY <2>1, <2>2, <2>4
<1> QED BY <1>1, <1>7, <1>13, <1>14, <1>15 DEF e, t, z, Value

(* Why the estimate is good enough (FieldInt.cpp:70, 116): t is the        *)
(* quotient, or one less.                                                  *)
LEMMA BarrettArithmetic ==
    ASSUME NEW m \in Nat, NEW w \in Nat, NEW q \in Nat, NEW r \in Nat,
           1 < m, m < w, m < q, r < m, w * w = m * q + r,
           NEW v \in Nat, v < m, NEW f \in Nat, f < m,
           NEW s \in Nat, s = v * f, NEW t, t = (s * q) \div (w * w)
    PROVE  /\ t \in Nat /\ t < w /\ s * q < w * w * w
           /\ 0 <= s - t * m /\ s - t * m < 2 * m
<1>1. s < m * m
  <2>1. v * f <= m * f
    OBVIOUS
  <2>2. m * f <= m * (m - 1) /\ m * (m - 1) = m * m - m
    OBVIOUS
  <2>3. v * f \in Nat /\ m * f \in Nat /\ m * m \in Nat
    OBVIOUS
  <2> QED BY <2>1, <2>2, <2>3
<1>2. PICK ww \in Nat, mq \in Nat, sq \in Nat : ww = w * w /\ mq = m * q /\ sq = s * q
  OBVIOUS
<1>3. 0 < ww /\ ww = mq + r
  <2>1. 0 < w * w
    OBVIOUS
  <2> QED BY <1>2, <2>1
<1>4. t \in Nat /\ t * ww <= sq /\ sq < (t + 1) * ww
  <2>1. t = sq \div ww
    BY <1>2
  <2>2. PICK rest \in Nat : sq = ww * (sq \div ww) + rest /\ rest < ww /\ sq \div ww \in Nat
    BY <1>3
  <2>3. t \in Nat /\ sq = t * ww + rest
    BY <2>1, <2>2
  <2>4. (t + 1) * ww = t * ww + ww /\ t * ww \in Nat
    BY <2>3
  <2> QED BY <2>2, <2>3, <2>4
<1>5. sq < m * ww
  <2>1. sq <= (m * m) * q
    BY <1>1, <1>2
  <2>2. sq < (m * m) * q
    <3>1. (s + 1) * q <= (m * m) * q
      <4>1. PICK mm \in Nat : mm = m * m /\ s + 1 <= mm
        BY <1>1
      <4>2. (s + 1) * q <= mm * q
        BY <4>1
      <4> QED BY <4>1, <4>2
    <3>2. (s + 1) * q = sq + q
      BY <1>2
    <3>3. (m * m) * q \in Nat
      OBVIOUS
    <3> QED BY <3>1, <3>2, <3>3
  <2>3. (m * m) * q = m * mq
    BY <1>2
  <2>4. m * mq <= m * ww
    BY <1>3
  <2>5. m * mq \in Nat /\ m * ww \in Nat
    OBVIOUS
  <2> QED BY <2>2, <2>3, <2>4, <2>5
<1>6. t < m
  <2> SUFFICES ASSUME m <= t PROVE FALSE
    BY <1>4
  <2>1. m * ww <= t * ww /\ m * ww \in Nat /\ t * ww \in Nat
    BY <1>4
  <2> QED BY <1>4, <1>5, <2>1
<1>7. s * q < w * w * w
  <2>1. m * ww <= w * ww /\ w * ww = w * w * w /\ m * ww \in Nat /\ w * ww \in Nat
    BY <1>2
  <2> QED BY <1>2, <1>5, <2>1
<1>8. t * m <= s
  <2> SUFFICES ASSUME s + 1 <= t * m PROVE FALSE
    BY <1>4
  <2>1. PICK tm \in Nat : tm = t * m /\ s + 1 <= tm
    BY <1>4
  <2>2. (s + 1) * q <= tm * q
    BY <2>1
  <2>3. (s + 1) * q = sq + q
    BY <1>2
  <2>4. tm * q = t * mq
    BY <1>2, <1>4, <2>1
  <2>5. t * mq <= t * ww
    BY <1>3, <1>4
  <2>6. t * mq \in Nat /\ t * ww \in Nat
    BY <1>4
  <2> QED BY <1>4, <2>2, <2>3, <2>4, <2>5, <2>6
<1>9. s < (t + 2) * m
  <2> SUFFICES ASSUME (t + 2) * m <= s PROVE FALSE
    BY <1>4
  <2>1. ((t + 2) * m) * q <= sq
    <3>1. PICK a \in Nat : a = (t + 2) * m /\ a <= s
      BY <1>4
    <3>2. a * q <= s * q
      BY <3>1
    <3> QED BY <1>2, <3>1, <3>2
  <2>2. ((t + 2) * m) * q = t * mq + 2 * mq
    BY <1>2, <1>4
  <2>3. (t + 1) * ww = t * mq + mq + (t + 1) * r
    BY <1>3, <1>4
  <2>4. (t + 1) * r <= m * r
    BY <1>4, <1>6
  <2>5. m * r < m * q
    BY m * r <= m * (q - 1), m * (q - 1) = m * q - m
  <2>6. t * mq \in Nat /\ (t + 1) * r \in Nat /\ m * r \in Nat
    BY <1>4
  <2>7. PICK a \in Nat, b \in Nat, c \in Nat : a = t * mq /\ b = (t + 1) * r /\ c = m * r
    BY <2>6
  <2>8. a + 2 * mq <= sq /\ sq < a + mq + b
    BY <1>4, <2>1, <2>2, <2>3, <2>7
  <2>9. b <= c /\ c < mq
    BY <1>2, <2>4, <2>5, <2>7
  <2> QED BY <2>8, <2>9
<1>10. 0 <= s - t * m /\ s - t * m < 2 * m
  <2>1. t * m \in Nat /\ (t + 2) * m = t * m + 2 * m
    BY <1>4
  <2> QED BY <1>8, <1>9, <2>1
<1> QED BY <1>4, <1>6, <1>7, <1>10

(* What is left when the multiple is taken off fits in one bit more than a *)
(* number has (FieldInt.cpp:116-124).                                      *)
LEMMA RemainderCounts ==
    ASSUME NEW p \in Words(2 * NUM_WORDS), NEW q \in Words(2 * NUM_WORDS), NEW d \in Nat,
           d = ValueOf(2 * NUM_WORDS, p) - ValueOf(2 * NUM_WORDS, q), d < 2 * Prime
    PROVE  LET e == Ripple(NUM_WORDS + 1, [k \in 0..NUM_WORDS |-> p[k] - q[k]])
           IN  /\ e \in Words(NUM_WORDS + 1) /\ e[NUM_WORDS] \in {0, 1}
               /\ Value(e) + e[NUM_WORDS] * Width = d
<1> DEFINE t == [k \in 0..NUM_WORDS |-> p[k] - q[k]]
           e == Ripple(NUM_WORDS + 1, t)
           z == CarryInto(NUM_WORDS + 1, t)
<1>1. PICK n \in Nat, h \in Nat, l \in Nat, m \in Nat, g \in Int :
          /\ n = NUM_WORDS /\ h = n + 1 /\ m = 2 * NUM_WORDS /\ h + l = m /\ g = -1
  <2>1. NUM_WORDS \in Nat /\ 1 <= NUM_WORDS
    BY WordsAssumption
  <2>2. /\ NUM_WORDS + 1 \in Nat /\ NUM_WORDS - 1 \in Nat /\ 2 * NUM_WORDS \in Nat
        /\ (NUM_WORDS + 1) + (NUM_WORDS - 1) = 2 * NUM_WORDS /\ -1 \in Int
    BY <2>1
  <2> QED BY <2>1, <2>2
<1>2. /\ \A k \in 0..m - 1 : p[k] \in Int
      /\ \A k \in 0..m - 1 : q[k] \in Int
  BY <1>1, WordsAreNumbers
<1> DEFINE p1 == [k \in 0..l - 1 |-> p[h + k]]
           q1 == [k \in 0..l - 1 |-> q[h + k]]
<1>3. /\ \A k \in 0..l - 1 : p1[k] = p[h + k]
      /\ \A k \in 0..l - 1 : q1[k] = q[h + k]
  OBVIOUS
<1>4. \A k \in 0..h - 1 : /\ p[k] \in Int /\ q[k] \in Int /\ t[k] = p[k] + g * q[k]
                          /\ t[k] \in Int
  <2> SUFFICES ASSUME NEW k \in 0..h - 1
               PROVE  p[k] \in Int /\ q[k] \in Int /\ t[k] = p[k] + g * q[k] /\ t[k] \in Int
    OBVIOUS
  <2>1. k \in 0..m - 1 /\ k \in 0..NUM_WORDS
    BY <1>1
  <2>2. PICK a \in Int, b \in Int : a = p[k] /\ b = q[k]
    BY <1>2, <2>1
  <2>3. t[k] = a - b /\ a - b = a + g * b
    BY <1>1, <2>1, <2>2
  <2> HIDE DEF t
  <2> QED BY <2>2, <2>3
<1> HIDE DEF t, p1, q1
<1>5. ASSUME NEW w, NEW s,
             \A k \in 0..h + l - 1 : w[k] \in Int, \A k \in 0..l - 1 : s[k] = w[h + k]
      PROVE  ValueOf(h + l, w) = ValueOf(h, w) + Place(h) * ValueOf(l, s)
  BY ONLY <1>5, ValueConcat
<1>6. ValueOf(m, p) = ValueOf(h, p) + Place(h) * ValueOf(l, p1)
  <2>1. \A k \in 0..h + l - 1 : p[k] \in Int
    BY <1>1, <1>2
  <2>2. ValueOf(h + l, p) = ValueOf(h, p) + Place(h) * ValueOf(l, p1)
    BY <1>3, <1>5, <2>1, Zenon
  <2> QED BY <1>1, <2>2
<1>7. ValueOf(m, q) = ValueOf(h, q) + Place(h) * ValueOf(l, q1)
  <2>1. \A k \in 0..h + l - 1 : q[k] \in Int
    BY <1>1, <1>2
  <2>2. ValueOf(h + l, q) = ValueOf(h, q) + Place(h) * ValueOf(l, q1)
    BY <1>3, <1>5, <2>1, Zenon
  <2> QED BY <1>1, <2>2
<1>8. ValueOf(h, t) = ValueOf(h, p) + g * ValueOf(h, q)
  BY ONLY <1>4, ValueLinear
<1>9. e \in Words(h) /\ z \in Int /\ ValueOf(h, e) + z * Place(h) = ValueOf(h, t)
  BY <1>1, <1>4, RippleCounts
<1> HIDE DEF e, z
<1>10. /\ ValueOf(h, p) \in Int /\ ValueOf(h, q) \in Int
       /\ ValueOf(l, p1) \in Int /\ ValueOf(l, q1) \in Int
  <2>1. h \in 0..m /\ l \in 0..l /\ m \in Nat
    BY <1>1
  <2>2. \A k \in 0..l - 1 : p1[k] \in Int /\ q1[k] \in Int
    <3> SUFFICES ASSUME NEW k \in 0..l - 1 PROVE p1[k] \in Int /\ q1[k] \in Int
      OBVIOUS
    <3>1. h + k \in 0..m - 1
      BY <1>1
    <3> QED BY <1>2, <1>3, <3>1
  <2> QED BY <1>2, <2>1, <2>2, Values
<1>11. PICK w \in Nat \ {0}, b \in Nat : w = Width /\ b = Base /\ 2 <= b
                                         /\ Place(h) = b * w /\ Place(n) = w
  <2>1. Width \in Nat \ {0} /\ Base \in Nat /\ 2 <= Base
    BY Places, WidthPlaces
  <2>2. Place(n + 1) = Base * Place(n)
    BY Places
  <2>3. Place(n) = Width
    BY <1>1, WidthPlaces
  <2> QED BY <1>1, <2>1, <2>2, <2>3
<1>12. /\ ValueOf(h, e) \in Nat /\ ValueOf(h, e) < b * w
       /\ \A k \in 0..h - 1 : e[k] \in Int /\ 0 <= e[k]
       /\ ValueOf(n, e) \in Nat
  <2>1. h \in 0..h /\ n \in 0..h
    BY <1>1
  <2> QED BY <1>9, <1>11, <2>1, WordsAreNumbers
<1>13. ValueOf(h, e) = d
  <2>1. PICK r \in Nat, c \in Int, x \in Int, y \in Int, x1 \in Int, y1 \in Int, big \in Nat :
            /\ r = ValueOf(h, e) /\ c = z /\ x = ValueOf(h, p) /\ y = ValueOf(h, q)
            /\ x1 = ValueOf(l, p1) /\ y1 = ValueOf(l, q1) /\ big = b * w
    BY <1>9, <1>10, <1>12
  <2>2. r + c * big = x - y
    BY <1>1, <1>8, <1>9, <1>11, <2>1
  <2>3. d = (x + big * x1) - (y + big * y1)
    BY <1>1, <1>6, <1>7, <1>11, <2>1
  <2>4. d = r + (c + x1 - y1) * big
    <3>1. PICK k1 \in Int, k2 \in Int, k3 \in Int :
              k1 = c * big /\ k2 = big * x1 /\ k3 = big * y1
      OBVIOUS
    <3>a. r + k1 = x - y
      BY <2>2, <3>1
    <3>b. d = (x + k2) - (y + k3)
      BY <2>3, <3>1
    <3>2. d = r + k1 + k2 - k3
      BY <3>a, <3>b
    <3>3. (c + x1 - y1) * big = k1 + k2 - k3
      BY <3>1
    <3> QED BY <3>2, <3>3
  <2>5. d < big /\ r < big /\ big \in Nat
    <3>1. 2 * w <= b * w
      BY <1>11
    <3>2. Prime \in Nat /\ Prime < w
      BY <1>11, PrimeFacts
    <3> QED BY <1>12, <2>1, <3>1, <3>2
  <2>6. PICK a \in Int : a = c + x1 - y1
    OBVIOUS
  <2>7. r + a * big = d
    BY <2>4, <2>6
  <2>8. 0 <= a /\ a <= 0
    BY <2>5, <2>7, OneCarry
  <2>9. a = 0 /\ a * big = 0
    BY <2>8
  <2> QED BY <2>1, <2>7, <2>9
<1>14. d = ValueOf(n, e) + e[n] * w
  <2>1. n \in 0..h - 1 /\ h = n + 1
    BY <1>1
  <2>2. ValueOf(n + 1, e) = ValueOf(n, e) + e[n] * Place(n)
    BY <1>12, <2>1, Values
  <2> QED BY <1>11, <1>13, <2>1, <2>2
<1>15. e[n] \in {0, 1}
  <2>1. PICK a \in Nat, x \in Nat : a = e[n] /\ x = ValueOf(n, e)
    BY <1>1, <1>12, n \in 0..h - 1
  <2>2. x + a * w = d /\ d < 2 * w
    BY <1>11, <1>14, <2>1, PrimeFacts
  <2>3. CASE 2 <= a
    <3>1. 2 * w <= a * w /\ a * w \in Nat
      BY <2>3
    <3> QED BY <2>2, <3>1
  <2> QED BY <2>1, <2>3
<1> QED BY <1>1, <1>9, <1>11, <1>14, <1>15 DEF e, t, Value

-----------------------------------------------------------------------------
(* The last reduction of multiply gets one word more than it looks at.     *)
LEMMA LowerWords ==
    ASSUME NEW e \in Words(NUM_WORDS + 1)
    PROVE  LET u == [k \in 0..NUM_WORDS - 1 |-> e[k]]
           IN  /\ u \in Uint /\ Value(u) = Value(e)
               /\ \A c \in {0, 1} : Reduced(c, e) = Reduced(c, u)
<1> DEFINE u == [k \in 0..NUM_WORDS - 1 |-> e[k]]
<1>1. NUM_WORDS \in Nat
  BY WordsAssumption
<1>2. \A k \in 0..NUM_WORDS - 1 : e[k] \in Word /\ e[k] \in Int
  <2>1. \A k \in 0..NUM_WORDS - 1 : k \in 0..(NUM_WORDS + 1) - 1
    BY <1>1
  <2>2. NUM_WORDS + 1 \in Nat
    BY <1>1
  <2>3. \A k \in 0..(NUM_WORDS + 1) - 1 : e[k] \in Word
    BY DEF Words
  <2>4. \A k \in 0..(NUM_WORDS + 1) - 1 : e[k] \in Int
    BY <2>2, WordsAreNumbers
  <2> QED BY <2>1, <2>3, <2>4
<1>3. u \in Uint
  BY <1>2 DEF Uint, Words
<1>4. \A k \in 0..NUM_WORDS - 1 : e[k] \in Int /\ u[k] = e[k]
  BY <1>2
<1>5. Added(e, MODULUS, -1) = Added(u, MODULUS, -1)
      /\ Added(e, MODULUS, -0) = Added(u, MODULUS, -0)
  BY <1>4 DEF Added
<1>6. Less(e, MODULUS) <=> Less(u, MODULUS)
  <2>1. \A k \in 0..NUM_WORDS - 1 : \A j \in k + 1..NUM_WORDS - 1 : j \in 0..NUM_WORDS - 1
    BY <1>1
  <2> HIDE DEF u
  <2> QED BY <1>4, <2>1 DEF Less
<1> HIDE DEF u
<1>7. Value(u) = Value(e)
  BY <1>1, <1>4, SameWords DEF Value
<1>8. ASSUME NEW c \in {0, 1} PROVE Reduced(c, e) = Reduced(c, u)
  <2>1. PICK f \in {0, 1} :
            f = Bit(c # 0 \/ ~Less(e, MODULUS)) /\ f = Bit(c # 0 \/ ~Less(u, MODULUS))
    BY <1>6 DEF Bit
  <2>2. Difference(e, MODULUS, f) = Difference(u, MODULUS, f)
    BY <1>5 DEF Difference
  <2> QED BY <2>1, <2>2 DEF Reduced
<1> QED BY <1>3, <1>7, <1>8 DEF u

-----------------------------------------------------------------------------
(* The invariant: what the control is, and what the locals of the loops    *)
(* count.                                                                  *)
Residues == Residual(value) /\ Residual(other)

Control ==
    /\ call \in Methods \cup {"none"}
    /\ phase \in {"start", "rows", "estimated", "taken", "turns"}
    /\ phase = "start" => i = 0
    /\ phase \in {"rows", "estimated", "taken"} => call \in {"square", "multiply"}
    /\ phase = "rows" => i \in 0..NUM_WORDS
    /\ phase \in {"estimated", "taken"} => i = NUM_WORDS
    /\ phase = "turns" => call = "reciprocal" /\ i \in 0..Turns

Product == Value(value) * Value(Factor)

(* The words above the row that is next are zero still.                    *)
RowsInv ==
    /\ phase \in {"rows", "estimated", "taken"} => product0 \in Words(2 * NUM_WORDS)
    /\ phase = "rows" => \A k \in i + NUM_WORDS..2 * NUM_WORDS - 1 : product0[k] = 0
    /\ RowsAddUp
    /\ phase \in {"estimated", "taken"} => ValueOf(2 * NUM_WORDS, product0) = Product

EstimateInv ==
    /\ phase \in {"estimated", "taken"} =>
          /\ product1 \in Words(3 * NUM_WORDS)
          /\ ValueOf(3 * NUM_WORDS, product1) = Product * (Width + Base + Offset)
    /\ phase = "taken" =>
          /\ product2 \in Words(2 * NUM_WORDS)
          /\ ValueOf(2 * NUM_WORDS, product2)
               = (ValueOf(3 * NUM_WORDS, product1) \div (Width * Width)) * Prime

(* reciprocal is the loop of ModOrder, with the prime for the modulus.     *)
Gcd == INSTANCE ModOrderProofs WITH
         Width <- Width, Bits <- NUM_WORDS * WordBits, Moduli <- {Prime},
         call <- "reciprocal", modulus <- Prime, number <- Value(value),
         factor <- [k \in 0..NUM_WORDS * WordBits - 1 |-> 0], i <- i, z <- 0, top <- 0,
         x <- Value(gcd.x), y <- Value(gcd.y), a <- Value(gcd.a), b <- Value(gcd.b)

TurnsInv ==
    phase = "turns" => /\ gcd \in [x : Uint, y : Uint, a : Uint, b : Uint]
                       /\ Gcd!IInv /\ Gcd!GcdInv

IInv == Residues /\ Control /\ RowsInv /\ EstimateInv /\ TurnsInv

-----------------------------------------------------------------------------
(* A number of words is a residue exactly if it is less than the modulus.  *)
LEMMA ResidualIsLess ==
    \A u : Residual(u) <=> u \in Uint /\ Less(u, MODULUS)
BY LessIsLess, PrimeFacts DEF Residual

LEMMA FactorResidual ==
    ASSUME Residues
    PROVE  /\ Residual(Factor) /\ Value(Factor) \in 0..Prime - 1
           /\ Value(value) \in 0..Prime - 1 /\ Value(other) \in 0..Prime - 1
           /\ Product \in Nat
<1>1. Residual(Factor)
  BY DEF Factor, Residues
<1>2. /\ Value(Factor) \in Nat /\ Value(value) \in Nat /\ Value(other) \in Nat
      /\ Value(Factor) < Prime /\ Value(value) < Prime /\ Value(other) < Prime
      /\ Prime \in Nat
  BY <1>1, UintValue, PrimeFacts DEF Residual, Residues
<1>3. Product \in Nat
  BY <1>2 DEF Product
<1> QED BY <1>1, <1>2, <1>3

(* The quotient of the assumption, and the estimate it gives for a         *)
(* product of residues.                                                    *)
LEMMA ProductEstimate ==
    ASSUME Residues, NEW t, t = (Product * (Width + Base + Offset)) \div (Width * Width)
    PROVE  /\ t \in Nat /\ t < Width
           /\ Product * (Width + Base + Offset) < Width * Width * Width
           /\ 0 <= Product - t * Prime /\ Product - t * Prime < 2 * Prime
<1>1. PICK m \in Nat, w \in Nat, q \in Nat :
          m = Prime /\ w = Width /\ q = Width + Base + Offset /\ 1 < m /\ m < w /\ m < q
  BY PrimeFacts, Places, OffsetAssumption
<1>2. PICK r \in Nat : r < m /\ w * w = m * q + r
  <2>1. PICK ww \in Nat : ww = w * w
    OBVIOUS
  <2>2. ww \div m = q
    BY <1>1, <2>1, OffsetAssumption
  <2>3. ww = m * (ww \div m) + (ww % m) /\ ww % m \in Nat /\ ww % m < m
    BY <1>1
  <2> QED BY <2>1, <2>2, <2>3
<1>3. PICK v \in Nat, f \in Nat, s \in Nat :
          v = Value(value) /\ f = Value(Factor) /\ s = Product /\ v < m /\ f < m /\ s = v * f
  BY <1>1, FactorResidual DEF Product
<1>4. t = (s * q) \div (w * w)
  BY <1>1, <1>3
<1>5. /\ t \in Nat /\ t < w /\ s * q < w * w * w
      /\ 0 <= s - t * m /\ s - t * m < 2 * m
  <2>1. 1 < m /\ m < w /\ m < q /\ r < m /\ w * w = m * q + r /\ v < m /\ f < m /\ s = v * f
    BY <1>1, <1>2, <1>3
  <2> QED BY ONLY <1>4, <2>1, BarrettArithmetic
<1> QED BY <1>1, <1>3, <1>5

-----------------------------------------------------------------------------
(* The steps of multiply keep the invariant.                               *)

(* Between two calls there are no locals.                                  *)
LEMMA AfterCall ==
    ASSUME Residual(value'), Residual(other'), call' \in Methods \cup {"none"}, NoLocals
    PROVE  IInv'
BY DEF IInv, Residues, Control, RowsInv, RowsAddUp, EstimateInv, TurnsInv, NoLocals

LEMMA InitIInv == Init => IInv
<1> SUFFICES ASSUME Init PROVE IInv
  OBVIOUS
<1>1. \A u \in Uint : Residual(Constructed(u))
  <2> SUFFICES ASSUME NEW u \in Uint PROVE Residual(Constructed(u))
    OBVIOUS
  <2>1. Value(u) + 0 * Width < 2 * Prime
    BY UintValue, PrimeFacts
  <2> QED BY <2>1, ReducedCounts, 0 \in {0, 1} DEF Constructed, Residual
<1>2. Residual(value) /\ Residual(other)
  BY <1>1 DEF Init
<1> QED BY <1>2 DEF Init, IInv, Residues, Control, RowsInv, RowsAddUp, EstimateInv, TurnsInv

LEMMA RowsStart == IInv /\ StartsToMultiply => IInv'
<1> SUFFICES ASSUME IInv, StartsToMultiply PROVE IInv'
  OBVIOUS
<1>1. /\ UNCHANGED <<value, other, call, i>> /\ i = 0 /\ i' = 0
      /\ phase' = "rows" /\ call \in {"square", "multiply"}
  BY DEF IInv, Control, StartsToMultiply
<1>2. Factor' = Factor
  BY <1>1 DEF Factor
<1>3. PICK l \in Nat, o \in Nat : l = 2 * NUM_WORDS /\ o = 0 /\ o \in 0..l /\ NUM_WORDS \in Nat
  <2>1. NUM_WORDS \in Nat /\ 2 * NUM_WORDS \in Nat /\ 0 \in 0..2 * NUM_WORDS /\ 0 \in Nat
    BY WordsAssumption
  <2> QED BY <2>1
<1>4. product0' = [k \in 0..l - 1 |-> 0]
  BY <1>3 DEF StartsToMultiply
<1>5. \A k \in 0..l - 1 : product0'[k] = 0
  BY <1>4
<1>6. product0' \in Words(l)
  BY <1>4, Places DEF Words, Word
<1>7. ValueOf(l, product0') = 0
  <2>1. ASSUME NEW w, \A k \in 0..l - 1 : w[k] = 0 PROVE ValueOf(l, w) = 0
    <3>1. /\ \A k \in 0..o - 1 : w[k] \in Int
          /\ \A k \in o..l - 1 : w[k] = 0
      BY <1>3, <2>1
    <3>2. ValueOf(l, w) = ValueOf(o, w)
      BY ONLY <1>3, <3>1, ZeroAbove
    <3>3. ValueOf(0, w) = 0
      BY <2>1, Values
    <3> QED BY <1>3, <3>2, <3>3
  <2> QED BY <1>5, <2>1, Zenon
<1>8. ValueOf(0, value) = 0
  <2>1. value \in Words(NUM_WORDS)
    BY DEF IInv, Residues, Residual, Uint
  <2>2. \A k \in 0..NUM_WORDS - 1 : value[k] \in Int
    BY <1>3, <2>1, WordsAreNumbers
  <2> QED BY <1>3, <2>2, Values
<1>9. RowsAddUp'
  <2>1. Value(Factor) \in Nat
    BY FactorResidual, PrimeFacts DEF IInv
  <2>2. 0 * Value(Factor) = 0
    BY <2>1
  <2> QED BY <1>1, <1>2, <1>3, <1>7, <1>8, <2>2 DEF RowsAddUp
<1>10. RowsInv'
  <2>1. \A k \in i' + NUM_WORDS..2 * NUM_WORDS - 1 : product0'[k] = 0
    BY <1>1, <1>3, <1>5
  <2> QED BY <1>1, <1>3, <1>6, <1>9, <2>1 DEF RowsInv
<1>11. Residues' /\ Control' /\ EstimateInv' /\ TurnsInv'
  BY <1>1, <1>3 DEF IInv, Residues, Control, EstimateInv, TurnsInv
<1> QED BY <1>10, <1>11 DEF IInv

LEMMA RowKeeps == IInv /\ AddsRow => IInv'
<1> SUFFICES ASSUME IInv, AddsRow PROVE IInv'
  OBVIOUS
<1>1. /\ UNCHANGED <<value, other, call, phase>>
      /\ phase = "rows" /\ i \in 0..NUM_WORDS - 1 /\ i' = i + 1
      /\ product0' = RowAdded(product0, i) /\ NUM_WORDS \in Nat
  BY WordsAssumption DEF IInv, Control, AddsRow
<1>2. Factor' = Factor
  BY <1>1 DEF Factor
<1>3. /\ product0 \in Words(2 * NUM_WORDS)
      /\ \A k \in i + NUM_WORDS..2 * NUM_WORDS - 1 : product0[k] = 0
      /\ ValueOf(2 * NUM_WORDS, product0) = ValueOf(i, value) * Value(Factor)
  BY <1>1 DEF IInv, RowsInv, RowsAddUp
<1>4. value \in Uint /\ Factor \in Uint /\ Value(Factor) \in Nat
  BY FactorResidual, PrimeFacts DEF IInv, Residues, Residual
<1>5. /\ product0' \in Words(2 * NUM_WORDS)
      /\ \A k \in i + 1 + NUM_WORDS..2 * NUM_WORDS - 1 : product0'[k] = 0
      /\ ValueOf(2 * NUM_WORDS, product0')
           = ValueOf(2 * NUM_WORDS, product0) + (value[i] * Place(i)) * Value(Factor)
  BY <1>1, <1>3, <1>4, RowCounts
<1>6. RowsAddUp'
  <2>1. ValueOf(i + 1, value) = ValueOf(i, value) + value[i] * Place(i)
    <3>1. \A k \in 0..NUM_WORDS - 1 : value[k] \in Int
      BY <1>1, <1>4, WordsAreNumbers DEF Uint
    <3> QED BY <1>1, <3>1, Values
  <2>2. PICK v \in Int, d \in Int, f \in Int :
            v = ValueOf(i, value) /\ d = value[i] * Place(i) /\ f = Value(Factor)
    <3>1. ValueOf(i, value) \in Nat /\ value[i] \in Int
      <4>1. i \in 0..NUM_WORDS
        BY <1>1
      <4> QED BY <1>1, <1>4, <4>1, WordsAreNumbers DEF Uint
    <3>2. Place(i) \in Nat
      BY <1>1, Places
    <3> QED BY <1>4, <3>1, <3>2
  <2>3. ValueOf(2 * NUM_WORDS, product0') = v * f + d * f
    BY <1>3, <1>5, <2>2
  <2>4. v * f + d * f = (v + d) * f
    OBVIOUS
  <2> QED BY <1>1, <1>2, <2>1, <2>2, <2>3, <2>4 DEF RowsAddUp
<1>7. RowsInv'
  <2>1. \A k \in i' + NUM_WORDS..2 * NUM_WORDS - 1 : product0'[k] = 0
    BY <1>1, <1>5
  <2> QED BY <1>1, <1>5, <1>6, <2>1 DEF RowsInv
<1>8. Residues' /\ Control' /\ EstimateInv' /\ TurnsInv'
  <2>1. i' \in 0..NUM_WORDS
    BY <1>1
  <2> QED BY <1>1, <2>1 DEF IInv, Residues, Control, EstimateInv, TurnsInv
<1> QED BY <1>7, <1>8 DEF IInv

LEMMA EstimateKeeps == IInv /\ Estimates => IInv'
<1> SUFFICES ASSUME IInv, Estimates PROVE IInv'
  OBVIOUS
<1>1. /\ UNCHANGED <<value, other, call, i, product0>>
      /\ phase = "rows" /\ phase' = "estimated" /\ i = NUM_WORDS
      /\ product1' = Ripple(3 * NUM_WORDS, EstimateTerm(product0))
  BY DEF Estimates
<1>2. Factor' = Factor
  BY <1>1 DEF Factor
<1>3. /\ product0 \in Words(2 * NUM_WORDS)
      /\ ValueOf(2 * NUM_WORDS, product0) = Product
  BY <1>1 DEF IInv, RowsInv, RowsAddUp, Product, Value
<1>4. Product * (Width + Base + Offset) < Width * Width * Width
  BY ProductEstimate DEF IInv
<1>5. /\ product1' \in Words(3 * NUM_WORDS)
      /\ ValueOf(3 * NUM_WORDS, product1') = Product * (Width + Base + Offset)
  BY <1>1, <1>3, <1>4, EstimateCounts
<1>6. Product' = Product
  BY <1>1, <1>2 DEF Product
<1>7. RowsInv' /\ EstimateInv'
  BY <1>1, <1>3, <1>5, <1>6 DEF RowsInv, RowsAddUp, EstimateInv
<1>8. Residues' /\ Control' /\ TurnsInv'
  BY <1>1 DEF IInv, Residues, Control, TurnsInv
<1> QED BY <1>7, <1>8 DEF IInv

LEMMA MultipleKeeps == IInv /\ TakesMultiple => IInv'
<1> SUFFICES ASSUME IInv, TakesMultiple PROVE IInv'
  OBVIOUS
<1>1. /\ UNCHANGED <<value, other, call, i, product0, product1>>
      /\ phase = "estimated" /\ phase' = "taken"
      /\ product2' = Ripple(2 * NUM_WORDS, MultipleTerm(Shifted(product1)))
  BY DEF TakesMultiple
<1>2. Factor' = Factor
  BY <1>1 DEF Factor
<1>3. product1 \in Words(3 * NUM_WORDS)
  BY <1>1 DEF IInv, EstimateInv
<1>4. PICK q \in Uint :
          /\ q = Shifted(product1)
          /\ Value(q) = ValueOf(3 * NUM_WORDS, product1) \div (Width * Width)
  BY <1>3, ShiftedCounts
<1>5. /\ product2' \in Words(2 * NUM_WORDS)
      /\ ValueOf(2 * NUM_WORDS, product2') = Value(q) * Prime
  BY <1>1, <1>4, MultipleCounts
<1>6. Product' = Product
  BY <1>1, <1>2 DEF Product
<1>7. RowsInv' /\ EstimateInv'
  BY <1>1, <1>4, <1>5, <1>6 DEF IInv, RowsInv, RowsAddUp, EstimateInv
<1>8. Residues' /\ Control' /\ TurnsInv'
  BY <1>1 DEF IInv, Residues, Control, TurnsInv
<1> QED BY <1>7, <1>8 DEF IInv

(* What the comments of the reduction say is so.                           *)
LEMMA RemainderIsSmall ==
    ASSUME IInv, phase = "taken"
    PROVE  LET t == (ValueOf(3 * NUM_WORDS, product1) \div (Width * Width))
               d == Product - t * Prime
           IN  /\ ValueOf(2 * NUM_WORDS, product0) = Product
               /\ ValueOf(2 * NUM_WORDS, product2) = t * Prime
               /\ t \in Nat /\ d \in 0..2 * Prime - 1
               /\ Remainder \in Words(NUM_WORDS + 1) /\ Remainder[NUM_WORDS] \in {0, 1}
               /\ Value(Remainder) + Remainder[NUM_WORDS] * Width = d
<1> DEFINE t == (ValueOf(3 * NUM_WORDS, product1) \div (Width * Width))
           d == Product - t * Prime
<1>1. /\ product0 \in Words(2 * NUM_WORDS) /\ product2 \in Words(2 * NUM_WORDS)
      /\ ValueOf(2 * NUM_WORDS, product0) = Product
      /\ ValueOf(2 * NUM_WORDS, product2) = t * Prime
      /\ t = (Product * (Width + Base + Offset)) \div (Width * Width)
  BY DEF IInv, RowsInv, EstimateInv
<1> HIDE DEF t
<1>2. t \in Nat /\ 0 <= d /\ d < 2 * Prime
  BY <1>1, ProductEstimate DEF IInv
<1>3. Product \in Nat /\ Prime \in Nat
  BY FactorResidual, PrimeFacts DEF IInv
<1>4. d \in Nat /\ d \in 0..2 * Prime - 1
  <2>1. t * Prime \in Nat
    BY <1>2, <1>3
  <2> QED BY <1>2, <1>3, <2>1
<1>5. d = ValueOf(2 * NUM_WORDS, product0) - ValueOf(2 * NUM_WORDS, product2)
  BY <1>1
<1> HIDE DEF d
<1>6. /\ Remainder \in Words(NUM_WORDS + 1) /\ Remainder[NUM_WORDS] \in {0, 1}
      /\ Value(Remainder) + Remainder[NUM_WORDS] * Width = d
  BY <1>1, <1>2, <1>4, <1>5, RemainderCounts DEF Remainder, RemainderTerm
<1> QED BY <1>1, <1>2, <1>4, <1>6 DEF t, d

LEMMA MultiplyCounts ==
    ASSUME IInv, phase = "taken"
    PROVE  /\ Residual(Reduced(Remainder[NUM_WORDS], Remainder))
           /\ Value(Reduced(Remainder[NUM_WORDS], Remainder)) = Product % Prime
<1>1. PICK t \in Nat, d \in Nat, c \in {0, 1}, e \in Words(NUM_WORDS + 1) :
          /\ d = Product - t * Prime /\ d < 2 * Prime
          /\ e = Remainder /\ c = Remainder[NUM_WORDS] /\ Value(e) + c * Width = d
  <2> DEFINE t == (ValueOf(3 * NUM_WORDS, product1) \div (Width * Width))
             d == Product - t * Prime
  <2>1. /\ t \in Nat /\ d \in 0..2 * Prime - 1
        /\ Remainder \in Words(NUM_WORDS + 1) /\ Remainder[NUM_WORDS] \in {0, 1}
        /\ Value(Remainder) + Remainder[NUM_WORDS] * Width = d
    BY RemainderIsSmall
  <2>2. d = Product - t * Prime
    OBVIOUS
  <2> HIDE DEF t, d
  <2>3. d \in Nat /\ d < 2 * Prime
    BY <2>1, PrimeFacts
  <2> QED BY <2>1, <2>2, <2>3
<1>2. PICK u \in Uint : Value(u) = Value(e) /\ Reduced(c, e) = Reduced(c, u)
  BY LowerWords
<1>3. Value(u) + c * Width < 2 * Prime
  BY <1>1, <1>2
<1>4. /\ Residual(Reduced(c, u)) /\ Value(Reduced(c, u)) = d % Prime
  BY <1>1, <1>2, <1>3, ReducedCounts DEF Residual
<1>5. d % Prime = Product % Prime
  <2>1. PICK m \in Nat \ {0}, s \in Nat : m = Prime /\ s = Product
    BY FactorResidual, PrimeFacts DEF IInv
  <2>2. PICK q \in Int, r \in 0..m - 1 : d = q * m + r /\ r = d % m
    <3>1. d = (d \div m) * m + (d % m) /\ d \div m \in Int /\ d % m \in 0..m - 1
      OBVIOUS
    <3> QED BY <3>1
  <2>3. s = (q + t) * m + r
    BY <1>1, <2>1, <2>2
  <2>4. ((q + t) * m + r) % m = r
    BY RemainderUnique, q + t \in Int
  <2> QED BY <2>1, <2>2, <2>3, <2>4
<1> QED BY <1>1, <1>2, <1>4, <1>5

-----------------------------------------------------------------------------
(* reciprocal: each turn over words is a turn of ModOrder over numbers.    *)

LEMMA GcdAssumption == Gcd!ModuliAssumption
<1>1. NUM_WORDS * WordBits \in Nat /\ WordBits * NUM_WORDS = NUM_WORDS * WordBits
  BY WordsAssumption
<1>2. Width = 2 ^ (NUM_WORDS * WordBits)
  BY <1>1 DEF Width, Place
<1> QED BY <1>1, <1>2, PrimeFacts DEF Gcd!ModuliAssumption

LEMMA HalfModulusCounts ==
    HalfModulus \in Uint /\ Value(HalfModulus) = Gcd!HalfModulus
    /\ Value(HalfModulus) = (Prime + 1) \div 2
<1> DEFINE s == Sum(MODULUS, ONE, 1)
           c == SumCarry(MODULUS, ONE, 1)
<1>1. /\ Prime \in Nat /\ Width \in Nat /\ Prime + 1 < Width
      /\ MODULUS \in Uint /\ ONE \in Uint
      /\ Value(MODULUS) = Prime /\ Value(ONE) = 1
  BY PrimeFacts
<1>2. s \in Uint /\ c \in {0, 1} /\ Value(s) + c * Width = Prime + 1
  <2>1. /\ s \in Uint /\ c \in {0, 1}
        /\ Value(s) + c * Width = Value(MODULUS) + 1 * Value(ONE)
    BY <1>1, SumCounts
  <2> HIDE DEF s, c
  <2> QED BY <1>1, <2>1
<1> HIDE DEF s, c
<1>3. Value(s) \in Nat
  BY <1>2, UintValue
<1>4. Value(s) = Prime + 1
  BY <1>1, <1>2, <1>3
<1>5. HalfModulus = Halved(s, 1)
  BY DEF HalfModulus, s
<1>6. HalfModulus \in Uint /\ Value(HalfModulus) = (Prime + 1) \div 2
  BY <1>2, <1>4, <1>5, HalvedCounts
<1>7. Gcd!HalfModulus = (Prime + 1) \div 2
  BY <1>1 DEF Gcd!HalfModulus, Gcd!Wrap
<1> QED BY <1>6, <1>7

(* The halving of y and b, with its flags.                                 *)
LEMMA HalvingCounts ==
    ASSUME NEW y \in Uint, NEW b \in Uint, Value(b) < Prime
    PROVE  LET e  == 1 - (y[0] % 2)
               o  == b[0] % 2
               y1 == Halved(y, e)
               b1 == Sum(Halved(b, e), HalfModulus, e * o)
           IN  /\ y1 \in Uint /\ b1 \in Uint
               /\ Value(y1) = IF Value(y) % 2 = 0 THEN Value(y) \div 2 ELSE Value(y)
               /\ Value(b1) =
                    IF Value(y) % 2 = 0
                    THEN IF Value(b) % 2 = 1
                         THEN Gcd!Wrap(Value(b) \div 2 + Gcd!HalfModulus)
                         ELSE Value(b) \div 2
                    ELSE Value(b)
<1> DEFINE e  == 1 - (y[0] % 2)
           o  == b[0] % 2
           y1 == Halved(y, e)
           h  == Halved(b, e)
           b1 == Sum(h, HalfModulus, e * o)
           c  == SumCarry(h, HalfModulus, e * o)
<1>1. PICK v \in Nat, w \in Nat, m \in Nat, width \in Nat :
          /\ v = Value(y) /\ w = Value(b) /\ m = Prime /\ width = Width
          /\ w < m /\ m + 1 < width
  BY UintValue, PrimeFacts
<1>2. y[0] % 2 = v % 2 /\ o = w % 2 /\ v % 2 \in {0, 1} /\ w % 2 \in {0, 1}
  BY <1>1, HalvedCounts
<1>3. e = IF v % 2 = 0 THEN 1 ELSE 0
  BY <1>2
<1> HIDE DEF e, o
<1>4. y1 \in Uint /\ Value(y1) = IF v % 2 = 0 THEN v \div 2 ELSE v
  BY <1>1, <1>3, HalvedCounts
<1>5. h \in Uint /\ Value(h) = IF v % 2 = 0 THEN w \div 2 ELSE w
  BY <1>1, <1>3, HalvedCounts
<1> HIDE DEF h
<1>6. PICK n \in Nat : /\ n = Value(HalfModulus) /\ n = Gcd!HalfModulus /\ n = (m + 1) \div 2
                       /\ HalfModulus \in Uint
  <2>1. (m + 1) \div 2 \in Nat
    OBVIOUS
  <2> QED BY <1>1, <2>1, HalfModulusCounts
<1>7. PICK f \in {0, 1} : f = e * o /\ f = IF v % 2 = 0 /\ w % 2 = 1 THEN 1 ELSE 0
  BY <1>2, <1>3
<1>8. b1 \in Uint /\ c \in {0, 1} /\ Value(b1) + c * width = Value(h) + f * n
  <2>1. /\ Sum(h, HalfModulus, f) \in Uint /\ SumCarry(h, HalfModulus, f) \in {0, 1}
        /\ Value(Sum(h, HalfModulus, f)) + SumCarry(h, HalfModulus, f) * Width
             = Value(h) + f * Value(HalfModulus)
    BY <1>5, <1>6, SumCounts
  <2>2. b1 = Sum(h, HalfModulus, f) /\ c = SumCarry(h, HalfModulus, f)
    BY <1>7, Zenon
  <2> HIDE DEF b1, c
  <2> QED BY <1>1, <1>6, <2>1, <2>2
<1>9. Value(b1) \in Nat /\ Value(h) \in Nat
  BY <1>5, <1>8, UintValue
<1> HIDE DEF b1, c, y1
<1>10. Value(h) + f * n < width /\ Value(h) + f * n \in Nat
  <2>1. CASE f = 0
    BY <1>1, <1>5, <1>6, <1>9, <2>1
  <2>2. CASE f = 1
    <3>1. v % 2 = 0 /\ w \div 2 + (m + 1) \div 2 < width /\ w \div 2 \in Nat
      BY <1>1, <1>7, <2>2
    <3> QED BY <1>5, <1>6, <2>2, <3>1
  <2> QED BY <2>1, <2>2
<1>11. c = 0 /\ Value(b1) = Value(h) + f * n
  BY <1>1, <1>8, <1>9, <1>10
<1>12. Value(b1) = IF v % 2 = 0
                   THEN IF w % 2 = 1 THEN Gcd!Wrap(w \div 2 + Gcd!HalfModulus) ELSE w \div 2
                   ELSE w
  <2>1. CASE v % 2 = 0 /\ w % 2 = 1
    <3>1. f = 1 /\ Value(b1) = w \div 2 + n
      BY <1>5, <1>6, <1>7, <1>11, <2>1
    <3>2. w \div 2 + n < width /\ w \div 2 + n \in Nat
      BY <1>5, <1>10, <2>1, <3>1
    <3>3. Gcd!Wrap(w \div 2 + n) = w \div 2 + n
      BY <1>1, <3>2 DEF Gcd!Wrap
    <3> QED BY <1>6, <2>1, <3>1, <3>3
  <2>2. CASE ~(v % 2 = 0 /\ w % 2 = 1)
    <3>1. f = 0 /\ Value(b1) = Value(h)
      BY <1>6, <1>7, <1>9, <1>11, <2>2
    <3> QED BY <1>2, <1>5, <2>2, <3>1
  <2> QED BY <2>1, <2>2
<1> QED BY <1>1, <1>4, <1>8, <1>12 DEF e, o, y1, h, b1

(* A turn over words is a turn over numbers.                               *)
LEMMA TurnIsTurn ==
    ASSUME IInv, Turn
    PROVE  gcd' \in [x : Uint, y : Uint, a : Uint, b : Uint] /\ Gcd!ReciprocalTurn
<1>1. /\ phase = "turns" /\ gcd \in [x : Uint, y : Uint, a : Uint, b : Uint]
      /\ Gcd!IInv /\ i \in Nat /\ i < Turns /\ i' = i + 1
      /\ UNCHANGED <<value, other, call, phase>>
  <2>1. /\ phase = "turns" /\ i < Turns /\ i' = i + 1 /\ UNCHANGED <<value, other, call, phase>>
    BY DEF Turn
  <2>2. Turns \in Nat
    BY WordsAssumption DEF Turns
  <2> QED BY <2>1, <2>2 DEF IInv, Control, TurnsInv
<1> DEFINE e  == 1 - (gcd.y[0] % 2)
           o  == gcd.b[0] % 2
           y1 == Halved(gcd.y, e)
           b1 == Sum(Halved(gcd.b, e), HalfModulus, e * o)
           enable == y1[0] % 2
           doswap == enable * Bit(Less(y1, gcd.x))
           x2 == Replaced(gcd.x, y1, doswap)
           y2 == Replaced(y1, gcd.x, doswap)
           a2 == Replaced(gcd.a, b1, doswap)
           b2 == Replaced(b1, gcd.a, doswap)
           y3 == Difference(y2, x2, enable)
           b3 == Sum(Difference(b2, a2, enable), MODULUS, DifferenceBorrow(b2, a2, enable))
<1>2. gcd' = [x |-> x2, y |-> y3, a |-> a2, b |-> b3]
  BY DEF Turn
<1>3. /\ gcd.x \in Uint /\ gcd.y \in Uint /\ gcd.a \in Uint /\ gcd.b \in Uint
      /\ Value(gcd.x) \in 1..Prime /\ Value(gcd.y) \in 0..Prime
      /\ Value(gcd.a) \in 0..Prime - 1 /\ Value(gcd.b) \in 0..Prime - 1
      /\ Prime \in Nat /\ Width \in Nat /\ Prime < Width
  BY <1>1, PrimeFacts DEF Gcd!IInv, Gcd!TypeOK
<1>4. Gcd!HalvedY \in 0..Prime /\ Gcd!HalvedB \in 0..Prime - 1
  BY <1>1, GcdAssumption, Gcd!HalvingKeeps DEF Gcd!IInv
<1>5. /\ y1 \in Uint /\ b1 \in Uint
      /\ Value(y1) = Gcd!HalvedY /\ Value(b1) = Gcd!HalvedB
  <2>1. Value(gcd.b) < Prime
    BY <1>3
  <2> QED BY <1>3, <2>1, HalvingCounts DEF Gcd!HalvedY, Gcd!HalvedB
<1> HIDE DEF e, o, y1, b1
<1>6. enable = Value(y1) % 2 /\ enable \in {0, 1}
  <2>1. enable = Value(y1) % 2
    BY <1>5, HalvedCounts
  <2>2. Value(y1) \in Nat
    BY <1>5, UintValue
  <2> HIDE DEF enable
  <2> QED BY <2>1, <2>2
<1>7. Less(y1, gcd.x) <=> Value(y1) < Value(gcd.x)
  BY <1>3, <1>5, LessIsLess
<1>8. doswap = IF enable = 1 /\ Value(y1) < Value(gcd.x) THEN 1 ELSE 0
  <2> HIDE DEF enable
  <2> QED BY <1>6, <1>7 DEF Bit
<1> HIDE DEF enable, doswap
<1>9. PICK X \in Uint, A \in Uint, Y \in Uint, B \in Uint :
          X = gcd.x /\ A = gcd.a /\ Y = y1 /\ B = b1
  BY <1>3, <1>5
<1>10. /\ Value(X) \in Nat /\ 1 <= Value(X) /\ Value(X) <= Prime
       /\ Value(Y) \in Nat /\ Value(Y) <= Prime /\ Value(A) \in Nat /\ Value(A) < Prime
       /\ Value(B) \in Nat /\ Value(B) < Prime
  BY <1>3, <1>4, <1>5, <1>9
<1>11. /\ x2 = (IF doswap = 1 THEN Y ELSE X) /\ y2 = (IF doswap = 1 THEN X ELSE Y)
       /\ a2 = (IF doswap = 1 THEN B ELSE A) /\ b2 = (IF doswap = 1 THEN A ELSE B)
       /\ x2 \in Uint /\ y2 \in Uint /\ a2 \in Uint /\ b2 \in Uint
  BY <1>9 DEF Replaced
<1> HIDE DEF x2, y2, a2, b2
<1>12. Value(a2) < Prime /\ Value(b2) < Prime /\ Value(a2) \in Nat /\ Value(b2) \in Nat
  BY <1>10, <1>11
<1>13. y3 \in Uint
       /\ Value(y3) = IF enable = 1 THEN Value(y2) - Value(x2) ELSE Value(y2)
  <2>0. /\ y3 \in Uint /\ DifferenceBorrow(y2, x2, enable) \in {0, 1}
        /\ Value(y3) - DifferenceBorrow(y2, x2, enable) * Width
             = Value(y2) - enable * Value(x2)
    <3>1. enable \in {0, 1} /\ y2 \in Uint /\ x2 \in Uint
      BY <1>6, <1>11
    <3>2. PICK f \in {0, 1}, u \in Uint, v \in Uint : f = enable /\ u = y2 /\ v = x2
      BY <3>1
    <3>3. /\ Difference(u, v, f) \in Uint /\ DifferenceBorrow(u, v, f) \in {0, 1}
          /\ Value(Difference(u, v, f)) - DifferenceBorrow(u, v, f) * Width
               = Value(u) - f * Value(v)
      BY ONLY DifferenceCounts
    <3> QED BY ONLY <3>2, <3>3, Zenon
  <2>1. PICK d \in Uint, c \in {0, 1} :
            d = y3 /\ Value(d) - c * Width = Value(y2) - enable * Value(x2)
    <3> HIDE DEF y3
    <3> QED BY <2>0, Zenon
  <2>2. Value(d) \in Nat /\ Value(d) < Width /\ Value(y2) \in Nat /\ Value(x2) \in Nat
    BY <1>11, <2>1, UintValue
  <2>3. CASE enable = 0
    BY <1>3, <1>6, <2>1, <2>2, <2>3, <1>10, <1>11
  <2>4. CASE enable = 1
    <3>1. Value(x2) <= Value(y2)
      BY <1>8, <1>9, <1>10, <1>11, <2>4
    <3> QED BY <1>3, <2>1, <2>2, <2>4, <3>1
  <2> QED BY <1>6, <2>3, <2>4
<1>14. /\ b3 \in Uint
       /\ Value(b3) = IF enable = 1 THEN Gcd!Minus(Value(b2), Value(a2)) ELSE Value(b2)
  <2>1. PICK d : d = b3
    OBVIOUS
  <2>2. PICK t \in Int : t = Value(b2) - enable * Value(a2)
    BY <1>6, <1>12
  <2>3. d \in Uint /\ Value(d) = IF t < 0 THEN t + Prime ELSE t
    <3>1. ASSUME NEW u \in Uint, NEW v \in Uint, NEW f \in {0, 1},
                 Value(u) < Prime, Value(v) < Prime, NEW s, s = Value(u) - f * Value(v),
                 NEW m, m = Sum(Difference(u, v, f), MODULUS, DifferenceBorrow(u, v, f))
          PROVE  m \in Uint /\ Value(m) = IF s < 0 THEN s + Prime ELSE s
      BY ONLY <3>1, MinusCounts
    <3>2. d = Sum(Difference(b2, a2, enable), MODULUS, DifferenceBorrow(b2, a2, enable))
      BY <2>1
    <3>3. /\ enable \in {0, 1} /\ b2 \in Uint /\ a2 \in Uint
          /\ Value(b2) < Prime /\ Value(a2) < Prime
      BY <1>6, <1>11, <1>12
    <3>4. PICK f \in {0, 1}, u \in Uint, v \in Uint : f = enable /\ u = b2 /\ v = a2
      BY <3>3
    <3>5. /\ Value(u) < Prime /\ Value(v) < Prime /\ t = Value(u) - f * Value(v)
          /\ d = Sum(Difference(u, v, f), MODULUS, DifferenceBorrow(u, v, f))
      BY ONLY <2>2, <3>2, <3>3, <3>4, Zenon
    <3> QED BY ONLY <3>1, <3>5
  <2>4. CASE enable = 0
    BY <1>12, <2>1, <2>2, <2>3, <2>4
  <2>5. CASE enable = 1
    <3>1. t = Value(b2) - Value(a2)
      BY <1>12, <2>2, <2>5
    <3>2. Value(b2) \in 0..Prime - 1 /\ Value(a2) \in 0..Prime - 1
      BY <1>3, <1>12
    <3>3. Gcd!Minus(Value(b2), Value(a2))
            = IF Value(b2) < Value(a2) THEN Value(b2) - Value(a2) + Prime
              ELSE Value(b2) - Value(a2)
      BY <1>3, <3>2 DEF Gcd!Minus, Gcd!Wrap
    <3> QED BY <1>3, <1>12, <2>1, <2>3, <2>5, <3>1, <3>3
  <2> QED BY <1>6, <2>4, <2>5
<1> HIDE DEF y3, b3
<1>15. /\ gcd' \in [x : Uint, y : Uint, a : Uint, b : Uint]
       /\ gcd'.x = x2 /\ gcd'.y = y3 /\ gcd'.a = a2 /\ gcd'.b = b3
  BY <1>2, <1>11, <1>13, <1>14
<1>16. Gcd!ReciprocalTurn
  <2>1. i < Gcd!Turns
    <3>1. NUM_WORDS * WordBits \in Nat /\ NUM_WORDS * WordBits * 2 = 2 * (NUM_WORDS * WordBits)
      BY WordsAssumption
    <3> QED BY <1>1, <3>1 DEF Turns, Gcd!Turns
  <2>2. Value(Y) = Gcd!HalvedY /\ Value(B) = Gcd!HalvedB
        /\ Value(X) = Value(gcd.x) /\ Value(A) = Value(gcd.a)
    BY <1>5, <1>9
  <2>3. \/ /\ Gcd!HalvedY % 2 = 0
           /\ Value(gcd'.y) = Gcd!HalvedY /\ Value(gcd'.b) = Gcd!HalvedB
           /\ Value(gcd'.x) = Value(gcd.x) /\ Value(gcd'.a) = Value(gcd.a)
        \/ /\ Gcd!HalvedY % 2 = 1 /\ Value(gcd.x) <= Gcd!HalvedY
           /\ Value(gcd'.y) = Gcd!Wrap(Gcd!HalvedY - Value(gcd.x))
           /\ Value(gcd'.b) = Gcd!Minus(Gcd!HalvedB, Value(gcd.a))
           /\ Value(gcd'.x) = Value(gcd.x) /\ Value(gcd'.a) = Value(gcd.a)
        \/ /\ Gcd!HalvedY % 2 = 1 /\ Value(gcd.x) > Gcd!HalvedY
           /\ Value(gcd'.x) = Gcd!HalvedY /\ Value(gcd'.a) = Gcd!HalvedB
           /\ Value(gcd'.y) = Gcd!Wrap(Value(gcd.x) - Gcd!HalvedY)
           /\ Value(gcd'.b) = Gcd!Minus(Value(gcd.a), Gcd!HalvedB)
    <3>1. CASE enable = 0
      <4>1. Value(y1) % 2 = 0 /\ doswap = 0
        BY <1>6, <1>8, <3>1
      <4> QED BY <1>5, <1>11, <1>13, <1>14, <1>15, <2>2, <3>1, <4>1
    <3>2. CASE enable = 1 /\ Value(X) <= Value(Y)
      <4>1. Value(y1) % 2 = 1 /\ doswap = 0
        BY <1>6, <1>8, <1>9, <1>10, <3>2
      <4>2. Gcd!Wrap(Value(Y) - Value(X)) = Value(Y) - Value(X)
        BY <1>3, <1>10, <3>2 DEF Gcd!Wrap
      <4> QED BY <1>5, <1>11, <1>13, <1>14, <1>15, <2>2, <3>2, <4>1, <4>2
    <3>3. CASE enable = 1 /\ Value(Y) < Value(X)
      <4>1. Value(y1) % 2 = 1 /\ doswap = 1
        BY <1>6, <1>8, <1>9, <1>10, <3>3
      <4>2. Gcd!Wrap(Value(X) - Value(Y)) = Value(X) - Value(Y)
        BY <1>3, <1>10, <3>3 DEF Gcd!Wrap
      <4>3. Value(X) > Value(Y)
        BY <1>10, <3>3
      <4> QED BY <1>5, <1>11, <1>13, <1>14, <1>15, <2>2, <3>3, <4>1, <4>2, <4>3
    <3> QED BY <1>6, <1>10, <3>1, <3>2, <3>3
  <2> QED BY <1>1, <2>1, <2>3 DEF Gcd!ReciprocalTurn, Gcd!product
<1> QED BY <1>15, <1>16
(* The counters of the two modules.                                        *)
LEMMA SameTurns == Turns \in Nat /\ Turns = Gcd!Turns
<1>1. NUM_WORDS * WordBits \in Nat /\ NUM_WORDS * WordBits * 2 = 2 * (NUM_WORDS * WordBits)
  BY WordsAssumption
<1> QED BY <1>1 DEF Turns, Gcd!Turns

LEMMA GcdStarts == Gcd!Init' => Gcd!IInv' /\ Gcd!GcdInv'
<1>1. Gcd!Init => Gcd!IInv /\ Gcd!GcdInv
  BY GcdAssumption, Gcd!InitIInv, Gcd!GcdInductive
<1> QED BY <1>1, PTL

LEMMA TurnsStart == IInv /\ StartsToInvert => IInv'
<1> SUFFICES ASSUME IInv, StartsToInvert PROVE IInv'
  OBVIOUS
<1>1. /\ call = "reciprocal" /\ call' = call /\ value' = value /\ other' = other
      /\ phase = "start" /\ phase' = "turns" /\ i' = 0
      /\ gcd' = [x |-> MODULUS, y |-> value, a |-> ZERO, b |-> ONE]
      /\ UNCHANGED products
  BY DEF IInv, Control, StartsToInvert
<1>2. Residues' /\ Value(value) \in 0..Prime - 1 /\ value \in Uint
  BY <1>1, FactorResidual DEF IInv, Residues, Residual
<1>3. Control' /\ RowsInv' /\ EstimateInv'
  BY <1>1, SameTurns DEF Control, Methods, RowsInv, RowsAddUp, EstimateInv
<1>4. gcd' \in [x : Uint, y : Uint, a : Uint, b : Uint]
  BY <1>1, <1>2, PrimeFacts
<1>5. /\ Value(gcd'.x) = Prime /\ Value(gcd'.y) = Value(value)
      /\ Value(gcd'.a) = 0 /\ Value(gcd'.b) = 1
  BY <1>1, PrimeFacts
<1>6. Gcd!Init'
  BY <1>1, <1>2, <1>5 DEF Gcd!Init
<1>7. Gcd!IInv' /\ Gcd!GcdInv'
  BY <1>6, GcdStarts
<1> QED BY <1>2, <1>3, <1>4, <1>7 DEF IInv, TurnsInv

LEMMA TurnKeeps == IInv /\ Turn => IInv'
<1> SUFFICES ASSUME IInv, Turn PROVE IInv'
  OBVIOUS
<1>1. /\ phase = "turns" /\ UNCHANGED <<value, other, call, phase>>
      /\ i < Turns /\ i' = i + 1
      /\ UNCHANGED products
  BY DEF Turn
<1>2. Control' /\ Residues' /\ RowsInv' /\ EstimateInv'
  <2>1. i \in 0..Turns /\ call = "reciprocal"
    BY <1>1 DEF IInv, Control
  <2>2. i' \in 0..Turns
    BY <1>1, <2>1, SameTurns
  <2> QED BY <1>1, <2>1, <2>2
          DEF IInv, Control, Residues, RowsInv, RowsAddUp, EstimateInv
<1>3. gcd' \in [x : Uint, y : Uint, a : Uint, b : Uint] /\ Gcd!ReciprocalTurn
  BY TurnIsTurn
<1>4. Gcd!IInv /\ Gcd!GcdInv
  BY <1>1 DEF IInv, TurnsInv
<1>5. Gcd!IInv'
  BY <1>3, <1>4, GcdAssumption, Gcd!ReciprocalTurnKeeps
<1>6. Gcd!GcdInv'
  BY <1>3, <1>4, GcdAssumption, Gcd!GcdInductive DEF Gcd!Next
<1> QED BY <1>2, <1>3, <1>5, <1>6 DEF IInv, TurnsInv
-----------------------------------------------------------------------------
(* What the turns leave.                                                   *)

(* x divides the modulus, which is prime, and the number, which is less.   *)
LEMMA TurnsEnd ==
    ASSUME IInv, phase = "turns", i = Turns
    PROVE  /\ IsUnit
           /\ Value(value) # 0 => Value(gcd.x) = 1
<1>1. /\ gcd \in [x : Uint, y : Uint, a : Uint, b : Uint]
      /\ Gcd!IInv /\ Gcd!GcdInv /\ i = Gcd!Turns
  BY SameTurns DEF IInv, TurnsInv
<1>2. Gcd!Divides(Value(gcd.x), Prime) /\ Gcd!Divides(Value(gcd.x), Value(value))
  BY <1>1, GcdAssumption, Gcd!CommonDivisor
<1>3. PICK d \in Nat, m \in Nat, v \in Nat, p \in Nat, q \in Nat :
          /\ d = Value(gcd.x) /\ m = Prime /\ v = Value(value)
          /\ m = d * p /\ v = d * q /\ d \in 1..m /\ 1 < m /\ v < m
  <2>1. Value(gcd.x) \in 1..Prime /\ Prime \in Nat /\ 1 < Prime
    BY <1>1, PrimeFacts DEF Gcd!IInv, Gcd!TypeOK
  <2>2. Value(value) \in Nat /\ Value(value) < Prime
    BY FactorResidual, PrimeFacts DEF IInv
  <2>3. PICK d \in Nat, m \in Nat, v \in Nat :
            d = Value(gcd.x) /\ m = Prime /\ v = Value(value)
    BY <2>1, <2>2
  <2>4. d \in 1..m /\ 1 < m /\ v < m
    BY <2>1, <2>2, <2>3
  <2>5. (\E p \in Nat : m = d * p) /\ (\E q \in Nat : v = d * q)
    BY <1>2, <2>3 DEF Gcd!Divides
  <2> QED BY <2>3, <2>4, <2>5, Zenon
<1>4. d = 1 \/ d = m
  <2> SUFFICES ASSUME d # 1, d # m PROVE FALSE
    OBVIOUS
  <2>1. d \in 2..m - 1 /\ m % d # 0
    <3>1. d \in 2..m - 1
      BY <1>3
    <3> QED BY <1>3, <3>1, OffsetAssumption
  <2>2. d \in Nat \ {0} /\ 0 \in 0..d - 1 /\ m = p * d + 0
    BY <1>3
  <2> QED BY <2>1, <2>2, RemainderUnique
<1>5. IsUnit
  <2>1. gcd.x \in Uint
    BY <1>1
  <2> QED BY <1>3, <1>4, <2>1, LessIsLess, PrimeFacts DEF IsUnit
<1>6. v # 0 => d = 1
  <2> SUFFICES ASSUME d = m, v # 0 PROVE FALSE
    BY <1>4
  <2>1. 1 <= q
    BY <1>3
  <2>2. d <= d * q
    BY <1>3, <2>1
  <2> QED BY <1>3, <2>2
<1> QED BY <1>3, <1>5, <1>6

(* There is one inverse at most.                                           *)
LEMMA OneInverse ==
    ASSUME NEW m \in Nat, 1 < m, NEW n \in Nat, NEW a \in 0..m - 1, NEW k \in Int,
           a * n - 1 = k * m
    PROVE  a = CHOOSE r \in 0..m - 1 : (n * r) % m = 1
<1>1. (n * a) % m = 1
  <2>1. n * a = k * m + 1
    BY a \in Int
  <2>2. m \in Nat \ {0} /\ 1 \in 0..m - 1
    OBVIOUS
  <2> QED BY <2>1, <2>2, RemainderUnique
<1>2. ASSUME NEW r \in 0..m - 1, (n * r) % m = 1 PROVE r = a
  <2>1. PICK q \in Int : n * r = q * m + 1
    <3>1. PICK t \in Nat : t = n * r
      OBVIOUS
    <3>2. t = m * (t \div m) + (t % m) /\ t \div m \in Int
      OBVIOUS
    <3>3. t = (t \div m) * m + 1
      BY <1>2, <3>1, <3>2
    <3> QED BY <3>1, <3>2, <3>3
  <2>2. a * (n * r) - r * (a * n) = 0
    BY a \in Int, r \in Int
  <2>3. a * n = k * m + 1
    BY a \in Int
  <2>4. a * (n * r) = a * (q * m) + a /\ r * (a * n) = r * (k * m) + r
    BY <2>1, <2>3, a \in Int, r \in Int
  <2>5. PICK j \in Int : j = r * k - a * q
    BY a \in Int, r \in Int
  <2>6. r * (k * m) - a * (q * m) = j * m
    BY <2>5, a \in Int, r \in Int
  <2>7. a - r = j * m
    <3>1. r * (k * m) \in Int /\ a * (q * m) \in Int /\ j * m \in Int
      BY a \in Int, r \in Int
    <3> QED BY <2>2, <2>4, <2>6, <3>1
  <2>8. CASE j = 0
    BY <2>7, <2>8
  <2>9. CASE j >= 1
    <3>1. j * m >= m
      BY <2>9
    <3> QED BY <2>7, <3>1
  <2>10. CASE j <= -1
    <3>1. j * m <= -m
      BY <2>10
    <3> QED BY <2>7, <3>1
  <2> QED BY <2>8, <2>9, <2>10
<1> QED BY <1>1, <1>2

LEMMA ReciprocalCounts ==
    ASSUME IInv, phase = "turns", i = Turns
    PROVE  LET r == Replaced(value, gcd.a, Bit(value # ZERO))
           IN  Residual(r) /\ Value(r) = Field!Reciprocal(Value(value))
<1> DEFINE r == Replaced(value, gcd.a, Bit(value # ZERO))
<1>1. /\ Residual(value) /\ value \in Uint /\ gcd.a \in Uint
      /\ Value(gcd.a) \in 0..Prime - 1
      /\ Prime \in Nat /\ 1 < Prime /\ Value(value) \in Nat
      /\ Gcd!Multiple(Value(gcd.a) * Value(value) - Value(gcd.x))
  BY PrimeFacts, UintValue
     DEF IInv, Residues, Residual, TurnsInv, Gcd!IInv, Gcd!TypeOK, Gcd!XCongruence
<1>2. CASE value = ZERO
  <2>1. r = value /\ Value(value) = 0
    BY <1>2, PrimeFacts DEF Replaced, Bit
  <2> QED BY <1>1, <2>1 DEF Field!Reciprocal
<1>3. CASE value # ZERO
  <2>1. r = gcd.a /\ Value(value) # 0
    BY <1>1, <1>3, PrimeFacts, LessIsLess DEF Replaced, Bit
  <2>2. PICK k \in Int : Value(gcd.a) * Value(value) - 1 = k * Prime
    BY <1>1, <2>1, TurnsEnd DEF Gcd!Multiple
  <2>3. Value(gcd.a)
          = CHOOSE s \in 0..Prime - 1 : (Value(value) * s) % Prime = 1
    BY <1>1, <2>2, OneInverse
  <2>4. Residual(gcd.a)
    BY <1>1 DEF Residual
  <2> QED BY <2>1, <2>3, <2>4 DEF Field!Reciprocal, Field!Residue
<1> QED BY <1>2, <1>3
-----------------------------------------------------------------------------
(* Every step keeps the invariant, and is a step of the field or none.     *)

LEMMA ReturnsResult ==
    ASSUME IInv, NEW m \in Methods, NEW r, Returns(m, r),
           Residual(r), Value(r) = Field!Result[m]
    PROVE  IInv' /\ Field!Return
<1>1. /\ call = m /\ value' = r /\ call' = "none" /\ other' = other /\ NoLocals
  BY DEF Returns
<1>2. Residual(value') /\ Residual(other')
  BY <1>1 DEF IInv, Residues
<1>3. IInv'
  BY <1>1, <1>2, AfterCall
<1>4. m # "none"
  BY DEF Methods
<1>5. Field!Return
  BY <1>1, <1>4 DEF Field!Return
<1> QED BY <1>3, <1>5

LEMMA CallKeeps == IInv /\ Call => IInv' /\ Field!Call
<1> SUFFICES ASSUME IInv, Call PROVE IInv' /\ Field!Call
  OBVIOUS
<1>1. /\ call = "none" /\ call' \in Methods
      /\ value' = value /\ other' = other /\ phase' = phase /\ i' = i /\ gcd' = gcd
      /\ UNCHANGED <<product0, product1, product2>>
  BY DEF Call, products
<1>2. phase = "start" /\ i = 0
  BY <1>1 DEF IInv, Control, Methods
<1>3. IInv'
  BY <1>1, <1>2 DEF IInv, Residues, Residual, Control, RowsInv, RowsAddUp, EstimateInv, TurnsInv
<1>4. Field!Call
  BY <1>1 DEF Field!Call, Methods, Field!Methods
<1> QED BY <1>3, <1>4

LEMMA ShortMethodsReturn ==
    IInv /\ (Add \/ Subtract \/ Multiply2 \/ Replace) => IInv' /\ Field!Return
<1> SUFFICES ASSUME IInv PROVE Add \/ Subtract \/ Multiply2 \/ Replace => IInv' /\ Field!Return
  OBVIOUS
<1>1. Residual(value) /\ Residual(other)
  BY DEF IInv, Residues
<1>2. ASSUME Add PROVE IInv' /\ Field!Return
  BY <1>1, <1>2, MethodsCount, ReturnsResult DEF Add, Methods, Field!Result
<1>3. ASSUME Subtract PROVE IInv' /\ Field!Return
  BY <1>1, <1>3, MethodsCount, ReturnsResult DEF Subtract, Methods, Field!Result
<1>4. ASSUME Multiply2 PROVE IInv' /\ Field!Return
  BY <1>1, <1>4, MethodsCount, ReturnsResult DEF Multiply2, Methods, Field!Result
<1>5. ASSUME Replace PROVE IInv' /\ Field!Return
  BY <1>1, <1>5, ReturnsResult DEF Replace, Replaced, Methods, Field!Result
<1> QED BY <1>2, <1>3, <1>4, <1>5

LEMMA LongMethodsReturn == IInv /\ (Multiply \/ Reciprocal) => IInv' /\ Field!Return
<1> SUFFICES ASSUME IInv PROVE Multiply \/ Reciprocal => IInv' /\ Field!Return
  OBVIOUS
<1>1. ASSUME Multiply PROVE IInv' /\ Field!Return
  <2>1. PICK method \in {"square", "multiply"} :
            Returns(method, Reduced(Remainder[NUM_WORDS], Remainder))
    BY <1>1 DEF Multiply
  <2>2. /\ Residual(Reduced(Remainder[NUM_WORDS], Remainder))
        /\ Value(Reduced(Remainder[NUM_WORDS], Remainder)) = Product % Prime
    BY <1>1, MultiplyCounts DEF Multiply
  <2>3. Product % Prime = Field!Result[method] /\ method \in Methods
    BY <2>1 DEF Returns, Product, Factor, Field!Result, Methods
  <2> QED BY <2>1, <2>2, <2>3, ReturnsResult
<1>2. ASSUME Reciprocal PROVE IInv' /\ Field!Return
  <2>1. PICK r : /\ r = Replaced(value, gcd.a, Bit(value # ZERO))
                 /\ Returns("reciprocal", r) /\ phase = "turns" /\ i = Turns
    BY <1>2 DEF Reciprocal
  <2>2. Residual(r) /\ Value(r) = Field!Reciprocal(Value(value))
    BY <2>1, ReciprocalCounts
  <2>3. Field!Result["reciprocal"] = Field!Reciprocal(Value(value))
    BY DEF Field!Result
  <2> QED BY <2>1, <2>2, <2>3, ReturnsResult, "reciprocal" \in Methods DEF Methods
<1> QED BY <1>1, <1>2

LEMMA GcdUnchanged ==
    ASSUME Gcd!IInv, Gcd!GcdInv, UNCHANGED <<value, i, gcd>>
    PROVE  Gcd!IInv' /\ Gcd!GcdInv'
<1>1. UNCHANGED Gcd!vars
  BY DEF Gcd!vars
<1>2. Gcd!IInv'
  BY DEF Gcd!IInv, Gcd!TypeOK, Gcd!ProductCongruence, Gcd!XCongruence, Gcd!YCongruence,
         Gcd!Multiple
<1>3. Gcd!GcdInv'
  BY <1>1, GcdAssumption, Gcd!GcdInductive
<1> QED BY <1>2, <1>3

LEMMA StepIInv == IInv /\ [Next]_vars => IInv' /\ [Field!Next]_<<Value(value), Value(other), call>>
<1> SUFFICES ASSUME IInv, [Next]_vars
             PROVE  IInv' /\ [Field!Next]_<<Value(value), Value(other), call>>
  OBVIOUS
<1>1. CASE Call
  BY <1>1, CallKeeps DEF Field!Next
<1>2. CASE Add \/ Subtract \/ Multiply2 \/ Replace
  BY <1>2, ShortMethodsReturn DEF Field!Next
<1>3. CASE Multiply \/ Reciprocal
  BY <1>3, LongMethodsReturn DEF Field!Next
<1>4. CASE StartsToMultiply \/ AddsRow \/ Estimates \/ TakesMultiple \/ StartsToInvert \/ Turn
  <2>1. IInv'
    BY <1>4, RowsStart, RowKeeps, EstimateKeeps, MultipleKeeps, TurnsStart, TurnKeeps
  <2>2. UNCHANGED <<value, other, call>>
    BY <1>4 DEF StartsToMultiply, AddsRow, Estimates, TakesMultiple, StartsToInvert, Turn
  <2> QED BY <2>1, <2>2
<1>5. CASE UNCHANGED vars
  <2>1. UNCHANGED <<value, other, call, phase, i, product0, product1, product2, gcd>>
    BY <1>5 DEF vars, products
  <2>2. Residues' /\ Control' /\ RowsInv' /\ EstimateInv'
    BY <2>1 DEF IInv, Residues, Residual, Control, RowsInv, RowsAddUp, EstimateInv,
                Product, Factor
  <2>3. TurnsInv'
    BY <2>1, GcdUnchanged DEF IInv, TurnsInv
  <2> QED BY <2>1, <2>2, <2>3 DEF IInv
<1> QED BY <1>1, <1>2, <1>3, <1>4, <1>5 DEF Next

LEMMA Inductive == Spec => []IInv
<1>1. IInv /\ [Next]_vars => IInv'
  BY StepIInv
<1> QED BY <1>1, InitIInv, PTL DEF Spec

-----------------------------------------------------------------------------
(* The carries on the way.                                                 *)

(* A carry stays between bounds that the terms leave room for.             *)
LEMMA CarryStays ==
    ASSUME NEW b \in Nat \ {0}, NEW l \in Nat, NEW h \in Nat, NEW t \in Int, NEW c \in Int,
           -((b - 1) * l) <= t, t <= (b - 1) * (h + 1), -l <= c, c <= h
    PROVE  /\ -l <= (t + c) \div b /\ (t + c) \div b <= h
           /\ t + c < b * (h + 1)
<1>1. PICK q \in Int, r \in Nat : t + c = b * q + r /\ r < b /\ q = (t + c) \div b
  <2>1. PICK s \in Int : s = t + c
    OBVIOUS
  <2>2. s = b * (s \div b) + (s % b) /\ s \div b \in Int /\ s % b \in Nat /\ s % b < b
    OBVIOUS
  <2> QED BY <2>1, <2>2
<1>2. PICK bl \in Int, bh \in Int : bl = b * l /\ bh = b * h
  OBVIOUS
<1>3. (b - 1) * l = bl - l /\ (b - 1) * (h + 1) = bh + b - h - 1 /\ b * (h + 1) = bh + b
  BY <1>2
<1>4. -bl <= t + c /\ t + c < bh + b
  BY <1>3
<1>5. -l <= q
  <2> SUFFICES ASSUME q <= -l - 1 PROVE FALSE
    OBVIOUS
  <2>1. b * q <= b * (-l - 1)
    OBVIOUS
  <2>2. b * (-l - 1) = -bl - b /\ b * q \in Int
    BY <1>2
  <2> QED BY <1>1, <1>4, <2>1, <2>2
<1>6. q <= h
  <2> SUFFICES ASSUME h + 1 <= q PROVE FALSE
    OBVIOUS
  <2>1. b * (h + 1) <= b * q
    OBVIOUS
  <2>2. b * q \in Int
    OBVIOUS
  <2> QED BY <1>1, <1>3, <1>4, <2>1, <2>2
<1> QED BY <1>1, <1>3, <1>4, <1>5, <1>6

LEMMA CarriesBetween ==
    ASSUME NEW n \in Nat, NEW l \in Nat, NEW h \in Nat, NEW term,
           \A k \in 0..n - 1 : /\ term[k] \in Int
                               /\ -((Base - 1) * l) <= term[k]
                               /\ term[k] <= (Base - 1) * (h + 1)
    PROVE  /\ \A k \in 0..n : /\ CarryInto(k, term) \in Int
                              /\ -l <= CarryInto(k, term) /\ CarryInto(k, term) <= h
           /\ \A k \in 0..n - 1 : term[k] + CarryInto(k, term) < Base * (h + 1)
<1>1. PICK b \in Nat \ {0} : b = Base
  BY Places
<1>2. /\ CarryInto(0, term) = 0
      /\ \A k \in 0..n - 1 :
            CarryInto(k + 1, term) = (term[k] + CarryInto(k, term)) \div b
      /\ \A k \in 0..n : CarryInto(k, term) \in Int
  BY <1>1, Carries
<1> DEFINE T == {k \in 0..n : -l <= CarryInto(k, term) /\ CarryInto(k, term) <= h}
<1>3. 0 \in T
  BY <1>2
<1>4. ASSUME NEW k \in 0..n - 1, k \in T
      PROVE  k + 1 \in T /\ term[k] + CarryInto(k, term) < b * (h + 1)
  <2>1. PICK t \in Int, c \in Int :
            /\ t = term[k] /\ c = CarryInto(k, term)
            /\ -((b - 1) * l) <= t /\ t <= (b - 1) * (h + 1) /\ -l <= c /\ c <= h
    BY <1>1, <1>2, <1>4
  <2>2. /\ -l <= (t + c) \div b /\ (t + c) \div b <= h
        /\ t + c < b * (h + 1)
    BY <2>1, CarryStays
  <2>3. CarryInto(k + 1, term) = (t + c) \div b /\ k + 1 \in 0..n
    BY <1>2, <2>1
  <2> QED BY <2>1, <2>2, <2>3
<1>5. 0..n \subseteq T
  <2> HIDE DEF T
  <2> QED BY <1>3, <1>4, InductionUpTo
<1> QED BY <1>1, <1>2, <1>4, <1>5

LEMMA WordProduct ==
    ASSUME NEW b \in Nat \ {0}, NEW u \in Nat, u < b, NEW v \in Nat
    PROVE  u * v \in Nat /\ u * v <= (b - 1) * v
OBVIOUS

(* A row (FieldInt.cpp:62).                                                *)
LEMMA RowFits ==
    ASSUME IInv, phase = "rows", i < NUM_WORDS
    PROVE  LET row == RowTerm(product0, i)
           IN  \A k \in 0..NUM_WORDS - 1 : row[k] + CarryInto(k, row) \in 0..Base * Base - 1
<1> DEFINE row == RowTerm(product0, i)
<1>1. PICK n \in Nat, b \in Nat \ {0}, h \in Nat :
          n = NUM_WORDS /\ b = Base /\ h = b - 1
  BY Places, WordsAssumption
<1>2. /\ i \in 0..n - 1 /\ value \in Words(n) /\ Factor \in Words(n)
      /\ product0 \in Words(2 * n)
  <2>1. i \in 0..n - 1
    BY <1>1 DEF IInv, Control
  <2> QED BY <1>1, <2>1, FactorResidual DEF IInv, Residues, Residual, RowsInv, Uint
<1>3. ASSUME NEW k \in 0..n - 1
      PROVE  /\ row[k] \in Int /\ 0 <= row[k] /\ row[k] <= (b - 1) * (h + 1)
  <2>1. PICK u \in Nat, v \in Nat, p \in Nat :
            /\ u = value[i] /\ v = Factor[k] /\ p = product0[i + k]
            /\ u < b /\ v < b /\ p < b
    <3>1. i + k \in 0..2 * n - 1
      BY <1>2
    <3>2. /\ value[i] \in Int /\ 0 <= value[i] /\ value[i] < b
          /\ Factor[k] \in Int /\ 0 <= Factor[k] /\ Factor[k] < b
          /\ product0[i + k] \in Int /\ 0 <= product0[i + k] /\ product0[i + k] < b
      BY <1>1, <1>2, <3>1, WordsAreNumbers, 2 * n \in Nat
    <3> QED BY <3>2
  <2>2. row[k] = u * v + p
    BY <1>1, <2>1 DEF RowTerm
  <2>3. u * v \in Nat /\ u * v <= (b - 1) * v
    BY <2>1, WordProduct
  <2>4. (b - 1) * v <= (b - 1) * (b - 1)
    BY <2>1
  <2>5. (b - 1) * (b - 1) + (b - 1) = (b - 1) * (h + 1)
    BY <1>1
  <2>6. (b - 1) * v \in Int /\ (b - 1) * (b - 1) \in Int
    OBVIOUS
  <2>7. p <= b - 1
    BY <2>1
  <2> HIDE DEF row
  <2> QED BY <2>2, <2>3, <2>4, <2>5, <2>6, <2>7
<1>4. /\ \A k \in 0..n : CarryInto(k, row) \in Int /\ 0 <= CarryInto(k, row)
      /\ \A k \in 0..n - 1 : row[k] + CarryInto(k, row) < b * (h + 1)
  <2>1. PICK z \in Nat : z = 0
    OBVIOUS
  <2>2. \A k \in 0..n - 1 : /\ row[k] \in Int /\ -((Base - 1) * z) <= row[k]
                            /\ row[k] <= (Base - 1) * (h + 1)
    BY <1>1, <1>3, <2>1
  <2> HIDE DEF row
  <2>3. /\ \A k \in 0..n : CarryInto(k, row) \in Int /\ -z <= CarryInto(k, row)
        /\ \A k \in 0..n - 1 : row[k] + CarryInto(k, row) < Base * (h + 1)
    BY <2>2, CarriesBetween
  <2> QED BY <1>1, <2>1, <2>3
<1>5. b * (h + 1) = b * b /\ b * b \in Nat
  BY <1>1
<1>6. \A k \in 0..n - 1 : k \in 0..n
  OBVIOUS
<1> HIDE DEF row
<1>7. \A k \in 0..n - 1 : row[k] + CarryInto(k, row) \in 0..b * b - 1
  <2> SUFFICES ASSUME NEW k \in 0..n - 1 PROVE row[k] + CarryInto(k, row) \in 0..b * b - 1
    OBVIOUS
  <2>1. PICK t \in Int, c \in Int :
            t = row[k] /\ c = CarryInto(k, row) /\ 0 <= t /\ 0 <= c /\ t + c < b * b
    BY <1>3, <1>4, <1>5
  <2>2. t + c \in 0..b * b - 1
    BY <1>5, <2>1
  <2> QED BY <2>1, <2>2
<1> QED BY <1>1, <1>7 DEF row

(* The estimate (FieldInt.cpp:87).                                         *)
LEMMA EstimateFits ==
    ASSUME NEW p \in Words(2 * NUM_WORDS), NEW k \in 0..3 * NUM_WORDS
    PROVE  CarryInto(k, EstimateTerm(p)) \in 0..Offset + 2
<1> DEFINE t == EstimateTerm(p)
<1>1. PICK n \in Nat, l \in Nat, b \in Nat \ {0}, o \in Nat, h \in Nat, z \in Nat :
          /\ n = NUM_WORDS /\ l = 3 * NUM_WORDS /\ b = Base /\ o = Offset /\ h = o + 2
          /\ z = 0
  BY Places, WordsAssumption, OffsetAssumption
<1>2. \A j \in Int : At(p, 2 * n, j) \in Nat /\ At(p, 2 * n, j) < b
  <2>1. \A j \in 0..2 * n - 1 : p[j] \in Int /\ 0 <= p[j] /\ p[j] < b
    BY <1>1, WordsAreNumbers, 2 * n \in Nat
  <2> QED BY <1>1, <2>1 DEF At
<1>3. ASSUME NEW j \in 0..l - 1
      PROVE  /\ t[j] \in Int /\ -((b - 1) * z) <= t[j] /\ t[j] <= (b - 1) * (h + 1)
  <2>1. PICK u \in Nat, v \in Nat, w \in Nat :
            /\ u = At(p, 2 * n, j) /\ v = At(p, 2 * n, j - 1) /\ w = At(p, 2 * n, j - n)
            /\ u < b /\ v < b /\ w < b
    BY <1>2
  <2>2. t[j] = u * o + v + w
    BY <1>1, <2>1 DEF EstimateTerm
  <2>3. u * o \in Nat /\ u * o <= (b - 1) * o
    BY <2>1, WordProduct
  <2>4. (b - 1) * (h + 1) = (b - 1) * o + 3 * (b - 1) /\ (b - 1) * o \in Int
    BY <1>1
  <2>5. (b - 1) * z = 0 /\ v <= b - 1 /\ w <= b - 1 /\ 0 <= b - 1
    BY <1>1, <2>1
  <2> HIDE DEF t
  <2> QED BY <2>2, <2>3, <2>4, <2>5
<1> HIDE DEF t
<1>4. \A j \in 0..l : /\ CarryInto(j, t) \in Int
                      /\ -z <= CarryInto(j, t) /\ CarryInto(j, t) <= h
  BY <1>1, <1>3, CarriesBetween
<1> QED BY <1>1, <1>4 DEF t

(* The multiple (FieldInt.cpp:111).                                        *)
LEMMA MultipleFits ==
    ASSUME NEW q \in Uint, NEW k \in 0..2 * NUM_WORDS
    PROVE  -CarryInto(k, MultipleTerm(q)) \in 0..Offset + 2
<1> DEFINE t == MultipleTerm(q)
<1>1. PICK n \in Nat, m \in Nat, b \in Nat \ {0}, o \in Nat, l \in Nat, h \in Nat :
          /\ n = NUM_WORDS /\ m = 2 * NUM_WORDS /\ b = Base /\ o = Offset /\ l = o + 2
          /\ h = 0
  BY Places, WordsAssumption, OffsetAssumption
<1>2. \A j \in Int : At(q, n, j) \in Nat /\ At(q, n, j) < b
  <2>1. \A j \in 0..n - 1 : q[j] \in Int /\ 0 <= q[j] /\ q[j] < b
    BY <1>1, WordsAreNumbers DEF Uint
  <2> QED BY <1>1, <2>1 DEF At
<1>3. ASSUME NEW j \in 0..m - 1
      PROVE  /\ t[j] \in Int /\ -((b - 1) * l) <= t[j] /\ t[j] <= (b - 1) * (h + 1)
  <2>1. PICK u \in Nat, v \in Nat, w \in Nat :
            /\ u = At(q, n, j) /\ v = At(q, n, j - 1) /\ w = At(q, n, j - n)
            /\ u < b /\ v < b /\ w < b
    BY <1>2
  <2>2. t[j] = w - u * o - v
    BY <1>1, <2>1 DEF MultipleTerm
  <2>3. u * o \in Nat /\ u * o <= (b - 1) * o
    BY <2>1, WordProduct
  <2>4. (b - 1) * l = (b - 1) * o + 2 * (b - 1) /\ (b - 1) * o \in Int
    BY <1>1
  <2>5. (b - 1) * (h + 1) = b - 1 /\ v <= b - 1 /\ w <= b - 1 /\ 0 <= b - 1
    BY <1>1, <2>1
  <2> HIDE DEF t
  <2> QED BY <2>2, <2>3, <2>4, <2>5
<1> HIDE DEF t
<1>4. \A j \in 0..m : /\ CarryInto(j, t) \in Int
                      /\ -l <= CarryInto(j, t) /\ CarryInto(j, t) <= h
  BY <1>1, <1>3, CarriesBetween
<1> QED BY <1>1, <1>4 DEF t

(* The remainder (FieldInt.cpp:123).                                       *)
LEMMA RemainderFits ==
    ASSUME IInv, phase = "taken", NEW k \in 0..NUM_WORDS + 1
    PROVE  -CarryInto(k, RemainderTerm) \in {0, 1}
<1> DEFINE t == RemainderTerm
<1>1. PICK n \in Nat, b \in Nat \ {0}, l \in Nat, h \in Nat :
          n = NUM_WORDS /\ 1 <= n /\ b = Base /\ l = 1 /\ h = 0
  BY Places, WordsAssumption
<1>2. ASSUME NEW j \in 0..n
      PROVE  /\ t[j] \in Int /\ -((b - 1) * l) <= t[j] /\ t[j] <= (b - 1) * (h + 1)
  <2>1. product0 \in Words(2 * n) /\ product2 \in Words(2 * n) /\ j \in 0..2 * n - 1
    BY <1>1 DEF IInv, RowsInv, EstimateInv
  <2>2. PICK u \in Nat, v \in Nat :
            u = product0[j] /\ v = product2[j] /\ u <= b - 1 /\ v <= b - 1
    <3>1. /\ product0[j] \in Int /\ 0 <= product0[j] /\ product0[j] < b
          /\ product2[j] \in Int /\ 0 <= product2[j] /\ product2[j] < b
      BY <1>1, <2>1, WordsAreNumbers, 2 * n \in Nat
    <3> QED BY <3>1
  <2>3. t[j] = u - v
    BY <1>1, <2>2 DEF RemainderTerm
  <2>4. (b - 1) * l = b - 1 /\ (b - 1) * (h + 1) = b - 1
    BY <1>1
  <2> HIDE DEF t
  <2> QED BY <2>2, <2>3, <2>4
<1> HIDE DEF t
<1>3. PICK m \in Nat : m = n + 1 /\ m - 1 = n
  OBVIOUS
<1>4. \A j \in 0..m : /\ CarryInto(j, t) \in Int
                      /\ -l <= CarryInto(j, t) /\ CarryInto(j, t) <= h
  BY <1>1, <1>2, <1>3, CarriesBetween
<1> QED BY <1>1, <1>3, <1>4 DEF t

LEMMA CarriesFitAlways == IInv => CarriesFit
<1> SUFFICES ASSUME IInv PROVE CarriesFit
  OBVIOUS
<1> DEFINE row      == RowTerm(product0, i)
           estimate == EstimateTerm(product0)
           multiple == MultipleTerm(Shifted(product1))
<1>1. ASSUME phase = "rows", i < NUM_WORDS
      PROVE  \A k \in 0..NUM_WORDS - 1 : row[k] + CarryInto(k, row) \in 0..Base * Base - 1
  BY <1>1, RowFits
<1>2. ASSUME phase = "rows", i = NUM_WORDS
      PROVE  /\ \A k \in 0..3 * NUM_WORDS : CarryInto(k, estimate) \in 0..Offset + 2
             /\ CarryInto(3 * NUM_WORDS, estimate) = 0
  <2>1. /\ product0 \in Words(2 * NUM_WORDS)
        /\ ValueOf(2 * NUM_WORDS, product0) = Product
    BY <1>2 DEF IInv, RowsInv, RowsAddUp, Product, Value
  <2>2. Product * (Width + Base + Offset) < Width * Width * Width
    BY ProductEstimate DEF IInv
  <2> QED BY <2>1, <2>2, EstimateCounts, EstimateFits
<1>3. ASSUME phase = "estimated"
      PROVE  /\ \A k \in 0..2 * NUM_WORDS : -CarryInto(k, multiple) \in 0..Offset + 2
             /\ CarryInto(2 * NUM_WORDS, multiple) = 0
  <2>1. Shifted(product1) \in Uint
    BY <1>3, ShiftedCounts DEF IInv, EstimateInv
  <2> QED BY <2>1, MultipleCounts, MultipleFits
<1>4. ASSUME phase = "taken"
      PROVE  \A k \in 0..NUM_WORDS + 1 : -CarryInto(k, RemainderTerm) \in {0, 1}
  BY <1>4, RemainderFits
<1> QED BY <1>1, <1>2, <1>3, <1>4 DEF CarriesFit

-----------------------------------------------------------------------------
(* The texts and bytes of numbers and hashes.                               *)

(* The place of the next digit.                                            *)
LEMMA NextPlace ==
    ASSUME NEW bits \in Nat, NEW k \in Nat
    PROVE  /\ bits * k \in Nat /\ 2 ^ (bits * k) \in Nat \ {0}
           /\ 2 ^ bits \in Nat \ {0}
           /\ 2 ^ (bits * (k + 1)) = 2 ^ bits * 2 ^ (bits * k)
<1>1. bits * k \in Nat /\ bits * (k + 1) = bits + bits * k
  OBVIOUS
<1>2. 2 ^ (bits + bits * k) = 2 ^ bits * 2 ^ (bits * k)
  BY <1>1, PowersAdd
<1> QED BY <1>1, <1>2, PowersOfTwo

(* The digits of a number, the lowest first.                               *)
AreDigits(d, n, bits, x) ==
    \A k \in 0..n - 1 : d[k] = (x \div 2 ^ (bits * k)) % 2 ^ bits

(* A word put together has the digits it was made of.                      *)
LEMMA AssembledDigits ==
    ASSUME NEW n \in Nat, NEW bits \in Nat, NEW d,
           \A k \in 0..n - 1 : d[k] \in 0..2 ^ bits - 1
    PROVE  /\ Assembled(n, bits, d) \in 0..2 ^ (bits * n) - 1
           /\ AreDigits(d, n, bits, Assembled(n, bits, d))
<1> DEFINE A(k) == Assembled(k, bits, d)
           P(k) == 2 ^ (bits * k)
<1>1. PICK b \in Nat \ {0} : b = 2 ^ bits
  BY PowersOfTwo
<1>2. \A k \in Nat : P(k) \in Nat \ {0} /\ P(k + 1) = b * P(k)
  BY <1>1, NextPlace
<1>3. P(0) = 1
  BY PowersOfTwo, bits * 0 = 0
<1>4. \A k \in 0..n - 1 : d[k] \in Nat /\ d[k] <= b - 1
  BY <1>1
<1>5. /\ A(0) = 0 /\ \A k \in 0..n : A(k) \in Int
      /\ \A k \in 0..n - 1 : A(k + 1) = A(k) + d[k] * P(k)
  <2>1. \A k \in 0..n - 1 : d[k] \in Int
    BY <1>4
  <2>2. /\ Assembled(0, bits, d) = 0
        /\ \A k \in 0..n : Assembled(k, bits, d) \in Int
        /\ \A k \in 0..n - 1 :
              Assembled(k + 1, bits, d) = Assembled(k, bits, d) + d[k] * 2 ^ (bits * k)
    BY <2>1, AssembledTurns, SMTT(60)
  <2> QED BY <2>2
<1> HIDE DEF A, P
<1> DEFINE T == {k \in 0..n : A(k) \in Nat /\ A(k) < P(k)}
<1>6. 0 \in T
  BY <1>3, <1>5
<1>7. ASSUME NEW k \in 0..n - 1, k \in T PROVE k + 1 \in T
  <2>1. PICK p \in Nat, v \in Nat, e \in Nat :
            p = P(k) /\ v = A(k) /\ e = d[k] /\ v < p /\ e <= b - 1
    <3>1. P(k) \in Nat /\ A(k) \in Nat /\ d[k] \in Nat /\ d[k] <= b - 1
      BY <1>2, <1>4, <1>7
    <3> QED BY <1>7, <3>1
  <2>2. P(k + 1) = b * p /\ A(k + 1) = v + e * p
    BY <1>2, <1>5, <2>1
  <2>3. e * p <= (b - 1) * p /\ (b - 1) * p = b * p - p /\ e * p \in Nat
    BY <2>1
  <2>4. v + e * p \in Nat /\ v + e * p < b * p
    BY <2>1, <2>3
  <2> QED BY <2>2, <2>4
<1>8. 0..n \subseteq T
  <2> HIDE DEF T
  <2> QED BY <1>6, <1>7, InductionUpTo
<1> DEFINE U == {m \in 0..n : \E h \in Nat : A(n) = A(n - m) + h * P(n - m)}
<1>9. 0 \in U
  <2>1. A(n) = A(n) + 0 * P(n)
    BY <1>2, <1>5
  <2> QED BY <2>1
<1>10. ASSUME NEW m \in 0..n - 1, m \in U PROVE m + 1 \in U
  <2>1. PICK k \in 0..n - 1 : k = n - (m + 1) /\ k + 1 = n - m
    <3>1. n - (m + 1) \in 0..n - 1 /\ (n - (m + 1)) + 1 = n - m
      OBVIOUS
    <3> QED BY <3>1
  <2>2. PICK h \in Nat : A(n) = A(k + 1) + h * P(k + 1)
    BY <1>10, <2>1
  <2>3. PICK p \in Nat, v \in Nat, e \in Nat : p = P(k) /\ v = A(k) /\ e = d[k]
    <3>1. k \in Nat /\ k \in T
      BY <1>8
    <3> QED BY <1>2, <1>4, <3>1
  <2>4. P(k + 1) = b * p /\ A(k + 1) = v + e * p
    BY <1>2, <1>5, <2>3
  <2>5. (v + e * p) + h * (b * p) = v + (e + h * b) * p
    OBVIOUS
  <2>6. e + h * b \in Nat
    OBVIOUS
  <2>7. A(n) = A(n - (m + 1)) + (e + h * b) * P(n - (m + 1))
    BY <2>1, <2>2, <2>3, <2>4, <2>5
  <2> QED BY <2>6, <2>7
<1>11. 0..n \subseteq U
  <2> HIDE DEF U
  <2> QED BY <1>9, <1>10, InductionUpTo
<1>12. ASSUME NEW k \in 0..n - 1 PROVE (A(n) \div P(k)) % b = d[k]
  <2>1. PICK h \in Nat : A(n) = A(k + 1) + h * P(k + 1)
    <3>1. n - (k + 1) \in 0..n /\ n - (n - (k + 1)) = k + 1
      OBVIOUS
    <3>2. n - (k + 1) \in U
      BY <1>11, <3>1
    <3> QED BY <3>1, <3>2
  <2>2. PICK p \in Nat \ {0}, v \in Nat, e \in Nat :
            p = P(k) /\ v = A(k) /\ e = d[k] /\ v < p /\ e <= b - 1
    <3>1. k \in T
      BY <1>8
    <3>2. P(k) \in Nat \ {0} /\ A(k) \in Nat /\ d[k] \in Nat /\ d[k] <= b - 1
      BY <1>2, <1>4, <3>1
    <3> QED BY <3>1, <3>2
  <2>3. P(k + 1) = b * p /\ A(k + 1) = v + e * p
    BY <1>2, <1>5, <2>2
  <2>4. (v + e * p) + h * (b * p) = (h * b + e) * p + v
    OBVIOUS
  <2>5. A(n) = (h * b + e) * p + v
    BY <2>1, <2>3, <2>4
  <2>6. h * b + e \in Int /\ v \in 0..p - 1
    BY <2>2
  <2>7. A(n) \div p = h * b + e
    BY <2>5, <2>6, QuotientUnique
  <2>8. e \in 0..b - 1
    BY <2>2
  <2>9. (h * b + e) % b = e
    BY <2>8, RemainderUnique
  <2> QED BY <2>2, <2>7, <2>9
<1>13. A(n) \in 0..P(n) - 1
  <2>1. n \in T
    BY <1>8
  <2> QED BY <1>2, <1>5, <2>1
<1> QED BY <1>1, <1>12, <1>13 DEF A, P, AreDigits

(* A word is put together from its own digits.                             *)
LEMMA AssembledFromDigits ==
    ASSUME NEW n \in Nat, NEW bits \in Nat, NEW x \in 0..2 ^ (bits * n) - 1, NEW d,
           AreDigits(d, n, bits, x)
    PROVE  Assembled(n, bits, d) = x
<1> DEFINE A(k) == Assembled(k, bits, d)
           P(k) == 2 ^ (bits * k)
           q(k) == x \div P(k)
<1>1. PICK b \in Nat \ {0} : b = 2 ^ bits
  BY PowersOfTwo
<1>2. \A k \in Nat : P(k) \in Nat \ {0} /\ P(k + 1) = b * P(k)
  BY <1>1, NextPlace
<1>3. P(0) = 1
  BY PowersOfTwo, bits * 0 = 0
<1>4. x \in Nat /\ x < P(n)
  BY <1>2
<1>5. \A k \in 0..n - 1 : d[k] = q(k) % b
  BY <1>1 DEF AreDigits
<1>a. Assembled(n, bits, d) = A(n)
  OBVIOUS
<1> HIDE DEF P
<1>6. \A k \in Nat : q(k) \in Nat
  <2> SUFFICES ASSUME NEW k \in Nat PROVE q(k) \in Nat
    OBVIOUS
  <2>1. PICK m \in Nat \ {0} : m = P(k)
    BY <1>2
  <2> QED BY <1>4, <2>1, DividedTwice, 1 \in Nat \ {0}
<1>7. ASSUME NEW k \in Nat PROVE q(k) = b * q(k + 1) + (q(k) % b)
  <2>1. PICK p \in Nat \ {0} : p = P(k) /\ P(k + 1) = b * p
    BY <1>2
  <2>2. b * p = p * b
    BY <2>1
  <2>3. x \div (p * b) = (x \div p) \div b
    BY <1>4, DividedTwice
  <2>4. q(k) = x \div p /\ q(k + 1) = (x \div p) \div b
    BY <2>1, <2>2, <2>3
  <2>5. PICK m \in Nat : m = x \div p
    BY <1>6, <2>4
  <2>6. m = b * (m \div b) + (m % b)
    OBVIOUS
  <2> QED BY <2>4, <2>5, <2>6
<1>8. q(0) = x /\ q(n) = 0
  <2>1. PICK m \in Nat \ {0} : m = P(n)
    BY <1>2
  <2> QED BY <1>3, <1>4, <2>1, SmallQuotient
<1> HIDE DEF q
<1>9. \A k \in 0..n - 1 : d[k] \in Nat
  <2> SUFFICES ASSUME NEW k \in 0..n - 1 PROVE d[k] \in Nat
    OBVIOUS
  <2>1. PICK m \in Nat : m = q(k)
    BY <1>6
  <2>2. m % b \in Nat
    OBVIOUS
  <2> QED BY <1>5, <2>1, <2>2
<1>10. /\ A(0) = 0 /\ \A k \in 0..n : A(k) \in Int
       /\ \A k \in 0..n - 1 : A(k + 1) = A(k) + d[k] * P(k)
  <2>1. /\ Assembled(0, bits, d) = 0
        /\ \A k \in 0..n : Assembled(k, bits, d) \in Int
        /\ \A k \in 0..n - 1 :
              Assembled(k + 1, bits, d) = Assembled(k, bits, d) + d[k] * 2 ^ (bits * k)
    BY <1>9, AssembledTurns, SMTT(60)
  <2> QED BY <2>1 DEF P
<1> HIDE DEF A
<1> DEFINE T == {k \in 0..n : A(k) + q(k) * P(k) = x}
<1>11. 0 \in T
  BY <1>3, <1>4, <1>8, <1>10
<1>12. ASSUME NEW k \in 0..n - 1, k \in T PROVE k + 1 \in T
  <2>1. k \in Nat /\ k + 1 \in Nat /\ k + 1 \in 0..n /\ k \in 0..n
    OBVIOUS
  <2>2. PICK p \in Nat : p = P(k) /\ P(k + 1) = b * p
    BY <1>2, <2>1
  <2>3. PICK v \in Int, s \in Nat, t \in Nat, e \in Nat :
            v = A(k) /\ s = q(k) /\ t = q(k + 1) /\ e = d[k]
    BY <1>6, <1>9, <1>10, <2>1
  <2>4. s = b * t + e /\ v + s * p = x /\ A(k + 1) = v + e * p
    BY <1>5, <1>7, <1>10, <1>12, <2>1, <2>2, <2>3
  <2>5. v + e * p + t * (b * p) = v + (b * t + e) * p
    OBVIOUS
  <2> QED BY <2>1, <2>2, <2>3, <2>4, <2>5
<1>13. n \in T
  <2>1. 0..n \subseteq T
    <3> HIDE DEF T
    <3> QED BY <1>11, <1>12, InductionUpTo
  <2> QED BY <2>1
<1>14. A(n) + 0 * P(n) = x
  BY <1>8, <1>13
<1>15. A(n) = x
  BY <1>2, <1>10, <1>14
<1> QED BY <1>a, <1>15

LEMMA TextShape ==
    /\ NUM_WORDS \in Nat \ {0} /\ WORD_BYTES \in Nat \ {0} /\ DigitBits \in Nat \ {0}
    /\ HASH_LEN \in Nat /\ PerWord = 2 * WORD_BYTES /\ PerWord \in Nat \ {0}
    /\ HASH_LEN = NUM_WORDS * WORD_BYTES /\ 2 * HASH_LEN = NUM_WORDS * PerWord
    /\ ByteBits \in Nat /\ Digit \in Nat \ {0} /\ ByteValues = Digit * Digit
    /\ ByteValues \in Nat \ {0}
    /\ ByteBits * WORD_BYTES = DigitBits * PerWord
<1>1. /\ NUM_WORDS \in Nat \ {0} /\ WORD_BYTES \in Nat \ {0} /\ DigitBits \in Nat \ {0}
  BY WordsAssumption, TextAssumption
<1>2. PICK n \in Nat \ {0}, w \in Nat \ {0}, d \in Nat \ {0} :
          n = NUM_WORDS /\ w = WORD_BYTES /\ d = DigitBits
  BY <1>1
<1>3. n * w \in Nat /\ 2 * (n * w) = n * (2 * w) /\ (2 * d) * w = d * (2 * w)
  OBVIOUS
<1>4. /\ HASH_LEN = n * w /\ PerWord = 2 * w /\ ByteBits = 2 * d
  BY <1>2 DEF HASH_LEN, PerWord, ByteBits
<1>5. 2 ^ d \in Nat \ {0} /\ 2 ^ (2 * d) = 2 ^ d * 2 ^ d
  <2>1. 2 ^ (d + d) = 2 ^ d * 2 ^ d /\ 2 * d = d + d
    BY PowersAdd
  <2> QED BY <2>1, PowersOfTwo
<1>6. Digit = 2 ^ d /\ ByteValues = 2 ^ (2 * d)
  BY <1>2, <1>4 DEF Digit, ByteValues
<1>7. Digit \in Nat \ {0} /\ ByteValues = Digit * Digit /\ ByteValues \in Nat \ {0}
  <2>1. PICK b \in Nat \ {0} : b = Digit
    BY <1>5, <1>6
  <2>2. b * b \in Nat \ {0}
    OBVIOUS
  <2> QED BY <1>5, <1>6, <2>1, <2>2
<1> QED BY <1>2, <1>3, <1>4, <1>7

(* Where a part of a word stands: part j of word k, counted from the end.  *)
LEMMA PartPlace ==
    ASSUME NEW n \in Nat \ {0}, NEW w \in Nat \ {0},
           NEW k \in 0..n - 1, NEW j \in 0..w - 1, NEW m, m = n * w - 1 - (k * w + j)
    PROVE  /\ m \in 0..n * w - 1 /\ n * w \in Nat /\ k * w \in Nat
           /\ m \div w = n - 1 - k /\ m % w = w - 1 - j
<1> DEFINE h == n - 1 - k
           r == w - 1 - j
<1>1. h \in 0..n - 1 /\ r \in 0..w - 1 /\ k = n - 1 - h /\ j = w - 1 - r
  OBVIOUS
<1>2. m = h * w + r
  <2>1. (n - 1 - k) * w = n * w - w - k * w
    OBVIOUS
  <2>2. n * w \in Int /\ k * w \in Int /\ h * w = n * w - w - k * w
    BY <2>1
  <2> QED BY <2>2
<1>3. n * w \in Nat /\ k * w \in Nat
  OBVIOUS
<1> HIDE DEF h, r
<1>4. m \div w = h /\ m % w = r
  BY <1>1, <1>2, QuotientUnique, RemainderUnique
<1>5. m \in 0..n * w - 1
  <2>1. h * w \in Nat /\ h * w <= (n - 1) * w /\ (n - 1) * w = n * w - w
    BY <1>1
  <2> QED BY <1>1, <1>2, <1>3, <2>1
<1> QED BY <1>3, <1>4, <1>5 DEF h, r

(* Every place is that of a part.                                          *)
LEMMA PlaceOfPart ==
    ASSUME NEW n \in Nat \ {0}, NEW w \in Nat \ {0}, NEW m \in 0..n * w - 1
    PROVE  \E k \in 0..n - 1, j \in 0..w - 1 : m = n * w - 1 - (k * w + j)
<1> DEFINE c == n * w - 1 - m
           k == c \div w
           j == c % w
<1>1. n * w \in Nat /\ c \in Nat /\ c <= n * w - 1
  OBVIOUS
<1>2. k \in Int /\ j \in 0..w - 1 /\ c = k * w + j
  BY <1>1
<1>3. m = n * w - 1 - c
  BY <1>1
<1> HIDE DEF c, k, j
<1>4. k \in 0..n - 1
  <2>1. CASE k <= -1
    <3>1. k * w <= -w
      BY <1>2, <2>1
    <3> QED BY <1>1, <1>2, <3>1
  <2>2. CASE k >= n
    <3>1. k * w >= n * w
      BY <1>2, <2>2
    <3> QED BY <1>1, <1>2, <3>1
  <2> QED BY <1>2, <2>1, <2>2
<1> QED BY <1>2, <1>3, <1>4

(* The bytes of a word, the highest first.                                 *)
LEMMA ByteOfWord ==
    ASSUME NEW x, NEW k \in 0..WORD_BYTES - 1
    PROVE  storeBigUint32(x)[WORD_BYTES - 1 - k] = (x \div 2 ^ (ByteBits * k)) % ByteValues
<1>1. WORD_BYTES - 1 - k \in 0..WORD_BYTES - 1
      /\ WORD_BYTES - 1 - (WORD_BYTES - 1 - k) = k
  BY TextShape
<1> QED BY <1>1 DEF storeBigUint32

(* A byte's digits are digits of the word.                                 *)
LEMMA DigitOfByte ==
    ASSUME NEW x \in Nat, NEW j \in Nat
    PROVE  Nibble((x \div 2 ^ (ByteBits * (j \div 2))) % ByteValues, j % 2)
             = (x \div 2 ^ (DigitBits * j)) % Digit
<1>1. PICK g \in Nat, o \in {0, 1} : j = 2 * g + o /\ g = j \div 2 /\ o = j % 2
  <2>1. j \div 2 \in Nat /\ j % 2 \in {0, 1} /\ j = 2 * (j \div 2) + (j % 2)
    OBVIOUS
  <2> QED BY <2>1
<1>2. PICK d \in Nat : d = DigitBits /\ ByteBits = 2 * d
  BY TextShape DEF ByteBits
<1>3. PICK b \in Nat \ {0} : b = Digit /\ b = 2 ^ d /\ ByteValues = b * b
  BY <1>2, TextShape DEF Digit
<1>4. d * (2 * g) \in Nat /\ (2 * d) * g = d * (2 * g) /\ d * (2 * g + 1) = d * (2 * g) + d
      /\ d * (2 * g + 0) = d * (2 * g)
  OBVIOUS
<1>5. PICK p \in Nat \ {0} : p = 2 ^ (d * (2 * g))
  BY <1>4, PowersOfTwo
<1>6. 2 ^ (d * (2 * g) + d) = p * b
  BY <1>3, <1>4, <1>5, PowersAdd
<1>7. PICK y \in Nat : y = x \div p
  BY DividedTwice, 1 \in Nat \ {0}
<1>8. (x \div 2 ^ (ByteBits * (j \div 2))) % ByteValues = y % (b * b)
  BY <1>1, <1>2, <1>3, <1>4, <1>5, <1>7
<1> DEFINE u == y \div b
           r == y % b
           s == u \div b
           t == u % b
<1>9. /\ u \in Nat /\ r \in 0..b - 1 /\ y = u * b + r
      /\ s \in Nat /\ t \in 0..b - 1 /\ u = s * b + t
  <2>1. u \in Nat /\ r \in 0..b - 1 /\ y = u * b + r
    OBVIOUS
  <2> QED BY <2>1
<1> HIDE DEF u, r, s, t
<1>10. y % (b * b) = t * b + r
  <2>1. y = s * (b * b) + (t * b + r)
    BY <1>9
  <2>2. b * b \in Nat \ {0} /\ t * b + r \in 0..b * b - 1
    <3>1. t * b <= (b - 1) * b /\ (b - 1) * b = b * b - b /\ t * b \in Nat
      BY <1>9
    <3>2. b * b \in Nat \ {0}
      OBVIOUS
    <3> QED BY <1>9, <3>1, <3>2
  <2> DEFINE c == b * b
             e == t * b + r
  <2>3. c \in Nat \ {0} /\ e \in 0..c - 1 /\ y = s * c + e
    BY <2>1, <2>2
  <2> HIDE DEF c, e
  <2>4. y % c = e
    <3>1. (s * c + e) % c = e
      <4>1. s \in Int /\ c \in Nat \ {0} /\ e \in 0..c - 1
        BY <1>9, <2>3
      <4> QED BY <4>1, RemainderUnique
    <3> QED BY <2>3, <3>1
  <2> QED BY <2>4 DEF c, e
<1>11. (t * b + r) % b = r /\ (t * b + r) \div b = t
  BY <1>9, RemainderUnique, QuotientUnique
<1>12. CASE o = 0
  <2>1. (x \div 2 ^ (DigitBits * j)) % Digit = y % b
    BY <1>1, <1>2, <1>3, <1>4, <1>5, <1>7, <1>12
  <2>2. y % b = r
    BY DEF r
  <2>3. Nibble(t * b + r, o) = (t * b + r) % b
    BY <1>3, <1>12 DEF Nibble
  <2> QED BY <1>1, <1>8, <1>10, <1>11, <2>1, <2>2, <2>3
<1>13. CASE o = 1
  <2>1. x \div (p * b) = y \div b
    BY <1>7, DividedTwice
  <2>2. (x \div 2 ^ (DigitBits * j)) % Digit = (y \div b) % b
    BY <1>1, <1>2, <1>3, <1>4, <1>6, <2>1, <1>13
  <2>3. (y \div b) % b = t
    BY DEF t, u
  <2>4. Nibble(t * b + r, o) = (t * b + r) \div b
    BY <1>3, <1>13 DEF Nibble
  <2> QED BY <1>1, <1>8, <1>10, <1>11, <2>2, <2>3, <2>4
<1> QED BY <1>12, <1>13

(* The digit j of word k, counted from the end of the text.                *)
LEMMA DigitPlace ==
    ASSUME NEW k \in 0..NUM_WORDS - 1, NEW j \in 0..PerWord - 1,
           NEW p, p = 2 * HASH_LEN - (k * PerWord + j)
    PROVE  /\ p \in 1..2 * HASH_LEN /\ p % 2 = j % 2
           /\ (p - 1) \div PerWord = NUM_WORDS - 1 - k
           /\ ((p - 1) % PerWord) \div 2 = WORD_BYTES - 1 - j \div 2
           /\ j \div 2 \in 0..WORD_BYTES - 1
           /\ HASH_LEN - 1 - (p - 1) \div 2 = k * WORD_BYTES + j \div 2
<1>1. PICK n \in Nat \ {0}, w \in Nat \ {0}, q \in Nat \ {0} :
          /\ n = NUM_WORDS /\ w = WORD_BYTES /\ q = PerWord
          /\ q = 2 * w /\ HASH_LEN = n * w /\ 2 * HASH_LEN = n * q
  BY TextShape
<1>2. p - 1 = n * q - 1 - (k * q + j)
  <2>1. n * q \in Int /\ k * q \in Int
    BY <1>1
  <2> QED BY <1>1, <2>1
<1>3. /\ p - 1 \in 0..n * q - 1 /\ n * q \in Nat /\ k * q \in Nat
      /\ (p - 1) \div q = n - 1 - k /\ (p - 1) % q = q - 1 - j
  BY <1>1, <1>2, PartPlace
<1>4. p \in 1..2 * HASH_LEN
  BY <1>1, <1>2, <1>3
<1>5. j \div 2 \in 0..w - 1 /\ (q - 1 - j) \div 2 = w - 1 - j \div 2
  BY <1>1
<1>6. PICK a \in Nat, b \in Nat : a = n * w /\ b = k * w /\ n * q = 2 * a /\ k * q = 2 * b
  <2>1. n * w \in Nat /\ k * w \in Nat /\ n * (2 * w) = 2 * (n * w) /\ k * (2 * w) = 2 * (k * w)
    OBVIOUS
  <2> QED BY <1>1, <2>1
<1>7. p = 2 * a - (2 * b + j) /\ j \in Nat
  BY <1>1, <1>6
<1>8. p % 2 = j % 2 /\ a - 1 - (p - 1) \div 2 = b + j \div 2
  BY <1>7
<1> QED BY <1>1, <1>3, <1>4, <1>5, <1>6, <1>8

(* Every place of a text is that of a digit.                               *)
LEMMA PlaceOfDigit ==
    ASSUME NEW p \in 1..2 * HASH_LEN
    PROVE  \E k \in 0..NUM_WORDS - 1, j \in 0..PerWord - 1 :
              p = 2 * HASH_LEN - (k * PerWord + j)
<1>1. PICK n \in Nat \ {0}, q \in Nat \ {0} :
          n = NUM_WORDS /\ q = PerWord /\ 2 * HASH_LEN = n * q
  BY TextShape
<1>2. p - 1 \in 0..n * q - 1 /\ p \in Int /\ n * q \in Int
  BY <1>1
<1>3. PICK k \in 0..n - 1, j \in 0..q - 1 : p - 1 = n * q - 1 - (k * q + j)
  BY <1>2, PlaceOfPart
<1>4. p = n * q - (k * q + j)
  <2>1. k * q \in Int /\ j \in Int
    OBVIOUS
  <2> QED BY <1>2, <1>3, <2>1
<1> QED BY <1>1, <1>3, <1>4

(* What the printed number shows in a place.                               *)
LEMMA PrintedDigit ==
    ASSUME NEW u \in Numbers, NEW k \in 0..NUM_WORDS - 1, NEW j \in 0..PerWord - 1
    PROVE  /\ u[k] \in Nat
           /\ Uint256ToVec(u)[2 * HASH_LEN - (k * PerWord + j)]
                = Nibble((u[k] \div 2 ^ (ByteBits * (j \div 2))) % ByteValues, j % 2)
           /\ Uint256ToVec(u)[2 * HASH_LEN - (k * PerWord + j)]
                = (u[k] \div 2 ^ (DigitBits * j)) % 2 ^ DigitBits
<1> DEFINE p == 2 * HASH_LEN - (k * PerWord + j)
           b == j \div 2
<1>1. /\ p \in 1..2 * HASH_LEN /\ p % 2 = j % 2
      /\ (p - 1) \div PerWord = NUM_WORDS - 1 - k
      /\ ((p - 1) % PerWord) \div 2 = WORD_BYTES - 1 - b
      /\ b \in 0..WORD_BYTES - 1
  BY DigitPlace
<1>2. u[k] \in Nat
  <2>1. 2 ^ (ByteBits * WORD_BYTES) \in Nat
    BY TextShape, NextPlace
  <2> QED BY <2>1 DEF Numbers
<1>3. NUM_WORDS - 1 - (NUM_WORDS - 1 - k) = k
  BY TextShape
<1> HIDE DEF p, b
<1>4. Uint256ToVec(u)[p] = Nibble(storeBigUint32(u[k])[WORD_BYTES - 1 - b], j % 2)
  <2>1. Uint256ToVec(u)[p] =
          Nibble(storeBigUint32(u[NUM_WORDS - 1 - (p - 1) \div PerWord])
                   [((p - 1) % PerWord) \div 2], p % 2)
    BY <1>1 DEF Uint256ToVec
  <2> QED BY <1>1, <1>3, <2>1
<1>5. storeBigUint32(u[k])[WORD_BYTES - 1 - b] = (u[k] \div 2 ^ (ByteBits * b)) % ByteValues
  BY <1>1, ByteOfWord
<1>6. Nibble((u[k] \div 2 ^ (ByteBits * (j \div 2))) % ByteValues, j % 2)
        = (u[k] \div 2 ^ (DigitBits * j)) % Digit
  BY <1>2, j \in Nat, DigitOfByte
<1> QED BY <1>2, <1>4, <1>5, <1>6 DEF p, b, Digit

(* What is printed is read back.                                           *)
LEMMA TextReadsBack ==
    ASSUME NEW u \in Numbers
    PROVE  NumberOfText(Uint256ToVec(u)) = u
<1> DEFINE str == Uint256ToVec(u)
           d(k) == [j \in 0..PerWord - 1 |-> str[2 * HASH_LEN - (k * PerWord + j)]]
<1>1. ASSUME NEW k \in 0..NUM_WORDS - 1
      PROVE  Assembled(PerWord, DigitBits, d(k)) = u[k]
  <2>1. AreDigits(d(k), PerWord, DigitBits, u[k])
    <3> SUFFICES ASSUME NEW j \in 0..PerWord - 1
                 PROVE  d(k)[j] = (u[k] \div 2 ^ (DigitBits * j)) % 2 ^ DigitBits
      BY DEF AreDigits
    <3>1. d(k)[j] = str[2 * HASH_LEN - (k * PerWord + j)]
      OBVIOUS
    <3> QED BY <3>1, PrintedDigit
  <2>2. u[k] \in 0..2 ^ (DigitBits * PerWord) - 1
    BY TextShape DEF Numbers
  <2>3. PerWord \in Nat /\ DigitBits \in Nat
    BY TextShape
  <2> HIDE DEF d
  <2> QED BY <2>1, <2>2, <2>3, AssembledFromDigits
<1>2. NumberOfText(str) = [k \in 0..NUM_WORDS - 1 |-> Assembled(PerWord, DigitBits, d(k))]
  BY DEF NumberOfText
<1>3. u = [k \in 0..NUM_WORDS - 1 |-> u[k]]
  BY DEF Numbers
<1> HIDE DEF d
<1> QED BY <1>1, <1>2, <1>3

(* What is stored in bytes is read back.                                   *)
LEMMA BytesReadBack ==
    ASSUME NEW u \in Numbers
    PROVE  NumberOfBytes(getBigEndianBytes(u)) = u
<1> DEFINE b == getBigEndianBytes(u)
           d(k) == [j \in 0..WORD_BYTES - 1 |-> b[HASH_LEN - 1 - (k * WORD_BYTES + j)]]
<1>1. ASSUME NEW k \in 0..NUM_WORDS - 1
      PROVE  Assembled(WORD_BYTES, ByteBits, d(k)) = u[k]
  <2>1. AreDigits(d(k), WORD_BYTES, ByteBits, u[k])
    <3> SUFFICES ASSUME NEW j \in 0..WORD_BYTES - 1
                 PROVE  d(k)[j] = (u[k] \div 2 ^ (ByteBits * j)) % 2 ^ ByteBits
      BY DEF AreDigits
    <3> DEFINE m == HASH_LEN - 1 - (k * WORD_BYTES + j)
    <3>1. d(k)[j] = b[m]
      OBVIOUS
    <3>2. /\ m \in 0..HASH_LEN - 1
          /\ m \div WORD_BYTES = NUM_WORDS - 1 - k
          /\ m % WORD_BYTES = WORD_BYTES - 1 - j
      <4>1. m = NUM_WORDS * WORD_BYTES - 1 - (k * WORD_BYTES + j)
        BY TextShape
      <4>2. HASH_LEN - 1 = NUM_WORDS * WORD_BYTES - 1
        BY TextShape
      <4> HIDE DEF m
      <4> QED BY <4>1, <4>2, TextShape, PartPlace
    <3> HIDE DEF m
    <3>3. b[m] = storeBigUint32(u[NUM_WORDS - 1 - m \div WORD_BYTES])[m % WORD_BYTES]
      BY <3>2 DEF getBigEndianBytes
    <3>4. NUM_WORDS - 1 - (NUM_WORDS - 1 - k) = k
      BY TextShape
    <3>5. b[m] = storeBigUint32(u[k])[WORD_BYTES - 1 - j]
      BY <3>2, <3>3, <3>4
    <3> QED BY <3>1, <3>5, ByteOfWord DEF ByteValues
  <2>2. u[k] \in 0..2 ^ (ByteBits * WORD_BYTES) - 1
    BY DEF Numbers
  <2>3. WORD_BYTES \in Nat /\ ByteBits \in Nat
    BY TextShape
  <2> HIDE DEF d
  <2> QED BY <2>1, <2>2, <2>3, AssembledFromDigits
<1>2. NumberOfBytes(b) = [k \in 0..NUM_WORDS - 1 |-> Assembled(WORD_BYTES, ByteBits, d(k))]
  BY DEF NumberOfBytes
<1>3. u = [k \in 0..NUM_WORDS - 1 |-> u[k]]
  BY DEF Numbers
<1> HIDE DEF d
<1> QED BY <1>1, <1>2, <1>3

(* A text is that of the number it is read as.                             *)
LEMMA TextOfItsNumber ==
    ASSUME NEW str \in Texts
    PROVE  Uint256ToVec(NumberOfText(str)) = str
<1> DEFINE u == NumberOfText(str)
           d(k) == [j \in 0..PerWord - 1 |-> str[2 * HASH_LEN - (k * PerWord + j)]]
<1>1. u = [k \in 0..NUM_WORDS - 1 |-> Assembled(PerWord, DigitBits, d(k))]
  BY DEF NumberOfText
<1>2. ASSUME NEW k \in 0..NUM_WORDS - 1
      PROVE  /\ u[k] \in 0..2 ^ (ByteBits * WORD_BYTES) - 1
             /\ AreDigits(d(k), PerWord, DigitBits, u[k])
  <2>1. \A j \in 0..PerWord - 1 : d(k)[j] \in 0..2 ^ DigitBits - 1
    <3> SUFFICES ASSUME NEW j \in 0..PerWord - 1
                 PROVE  str[2 * HASH_LEN - (k * PerWord + j)] \in 0..2 ^ DigitBits - 1
      OBVIOUS
    <3>1. 2 * HASH_LEN - (k * PerWord + j) \in 1..2 * HASH_LEN
      BY DigitPlace
    <3> QED BY <3>1 DEF Texts, Digit
  <2>2. u[k] = Assembled(PerWord, DigitBits, d(k))
    BY <1>1
  <2>3. PerWord \in Nat /\ DigitBits \in Nat /\ ByteBits * WORD_BYTES = DigitBits * PerWord
    BY TextShape
  <2> HIDE DEF d, u
  <2> QED BY <2>1, <2>2, <2>3, AssembledDigits
<1>3. u \in Numbers
  <2> HIDE DEF u, d
  <2>1. \A k \in 0..NUM_WORDS - 1 : u[k] \in 0..2 ^ (ByteBits * WORD_BYTES) - 1
    BY <1>2
  <2>2. u = [k \in 0..NUM_WORDS - 1 |-> u[k]]
    BY <1>1
  <2> QED BY <2>1, <2>2 DEF Numbers
<1>4. ASSUME NEW p \in 1..2 * HASH_LEN PROVE Uint256ToVec(u)[p] = str[p]
  <2>1. PICK k \in 0..NUM_WORDS - 1, j \in 0..PerWord - 1 :
            p = 2 * HASH_LEN - (k * PerWord + j)
    BY PlaceOfDigit
  <2>2. d(k)[j] = str[p]
    BY <2>1
  <2> HIDE DEF u, d
  <2>3. Uint256ToVec(u)[p] = (u[k] \div 2 ^ (DigitBits * j)) % 2 ^ DigitBits
    BY <1>3, <2>1, PrintedDigit
  <2>4. d(k)[j] = (u[k] \div 2 ^ (DigitBits * j)) % 2 ^ DigitBits
    BY <1>2 DEF AreDigits
  <2> QED BY <2>2, <2>3, <2>4
<1> HIDE DEF u
<1>5. Uint256ToVec(u) = [p \in 1..2 * HASH_LEN |-> Uint256ToVec(u)[p]]
  BY DEF Uint256ToVec
<1>6. str = [p \in 1..2 * HASH_LEN |-> str[p]]
  BY DEF Texts
<1>7. Uint256ToVec(u) = str
  BY <1>4, <1>5, <1>6
<1> QED BY <1>7 DEF u

(* The two digits of a byte.                                               *)
LEMMA TwoDigits ==
    /\ \A x \in 0..ByteValues - 1 :
          /\ Nibble(x, 0) + Digit * Nibble(x, 1) = x
          /\ Nibble(x, 0) \in 0..Digit - 1 /\ Nibble(x, 1) \in 0..Digit - 1
    /\ \A low \in 0..Digit - 1, high \in 0..Digit - 1 :
          /\ low + Digit * high \in 0..ByteValues - 1
          /\ Nibble(low + Digit * high, 0) = low
          /\ Nibble(low + Digit * high, 1) = high
<1>1. PICK b \in Nat \ {0} : b = Digit /\ ByteValues = b * b
  BY TextShape
<1>2. ASSUME NEW x \in 0..ByteValues - 1
      PROVE  /\ Nibble(x, 0) + Digit * Nibble(x, 1) = x
             /\ Nibble(x, 0) \in 0..Digit - 1 /\ Nibble(x, 1) \in 0..Digit - 1
  <2>1. b * b \in Nat /\ x \in Nat /\ x < b * b
    BY <1>1
  <2>2. PICK q \in Nat, r \in 0..b - 1 : q = x \div b /\ r = x % b /\ x = b * q + r
    BY <2>1
  <2>3. q < b
    <3>1. CASE q >= b
      <4>1. b * q >= b * b /\ b * q \in Nat
        BY <3>1
      <4> QED BY <2>1, <2>2, <4>1
    <3> QED BY <3>1
  <2>4. Nibble(x, 0) = r /\ Nibble(x, 1) = q
    BY <1>1, <2>2 DEF Nibble
  <2>5. r + b * q = x /\ q \in 0..b - 1
    BY <2>2, <2>3
  <2> QED BY <1>1, <2>4, <2>5
<1>3. ASSUME NEW low \in 0..Digit - 1, NEW high \in 0..Digit - 1
      PROVE  /\ low + Digit * high \in 0..ByteValues - 1
             /\ Nibble(low + Digit * high, 0) = low
             /\ Nibble(low + Digit * high, 1) = high
  <2>1. low \in 0..b - 1 /\ high \in 0..b - 1 /\ high \in Int
    BY <1>1
  <2>2. high * b <= (b - 1) * b /\ (b - 1) * b = b * b - b /\ high * b \in Nat
        /\ low + b * high = high * b + low
    BY <2>1
  <2>3. (high * b + low) % b = low /\ (high * b + low) \div b = high
    BY <2>1, RemainderUnique, QuotientUnique
  <2>4. high * b + low \in 0..b * b - 1
    BY <2>1, <2>2
  <2>5. Nibble(high * b + low, 0) = low /\ Nibble(high * b + low, 1) = high
    BY <1>1, <2>3 DEF Nibble
  <2> QED BY <1>1, <2>2, <2>4, <2>5
<1> QED BY <1>2, <1>3

(* A hash is read back from its text, and a text from its hash.            *)
LEMMA HashReadsBack ==
    ASSUME NEW h \in Hashes
    PROVE  HashOfText(Sha256HashToVec(h)) = h
<1> DEFINE s == Sha256HashToVec(h)
<1>1. HASH_LEN \in Nat
  BY TextShape
<1>2. ASSUME NEW k \in 0..HASH_LEN - 1
      PROVE  s[2 * HASH_LEN - 2 * k] + Digit * s[2 * HASH_LEN - (2 * k + 1)] = h[k]
  <2>1. /\ 2 * HASH_LEN - 2 * k \in 1..2 * HASH_LEN
        /\ 2 * HASH_LEN - (2 * k + 1) \in 1..2 * HASH_LEN
        /\ (2 * HASH_LEN - 2 * k) % 2 = 0 /\ (2 * HASH_LEN - (2 * k + 1)) % 2 = 1
        /\ HASH_LEN - 1 - (2 * HASH_LEN - 2 * k - 1) \div 2 = k
        /\ HASH_LEN - 1 - (2 * HASH_LEN - (2 * k + 1) - 1) \div 2 = k
    BY <1>1
  <2>2. s[2 * HASH_LEN - 2 * k] = Nibble(h[k], 0)
    BY <2>1 DEF Sha256HashToVec
  <2>3. s[2 * HASH_LEN - (2 * k + 1)] = Nibble(h[k], 1)
    BY <2>1 DEF Sha256HashToVec
  <2>4. h[k] \in 0..ByteValues - 1
    BY DEF Hashes
  <2>5. Nibble(h[k], 0) + Digit * Nibble(h[k], 1) = h[k]
    BY <2>4, TwoDigits
  <2> QED BY <2>2, <2>3, <2>5
<1> HIDE DEF s
<1>3. HashOfText(s) = [k \in 0..HASH_LEN - 1 |->
          s[2 * HASH_LEN - 2 * k] + Digit * s[2 * HASH_LEN - (2 * k + 1)]]
  BY DEF HashOfText
<1>4. h = [k \in 0..HASH_LEN - 1 |-> h[k]]
  BY DEF Hashes
<1>5. HashOfText(s) = h
  BY <1>2, <1>3, <1>4
<1> QED BY <1>5 DEF s

LEMMA TextOfItsHash ==
    ASSUME NEW str \in Texts
    PROVE  Sha256HashToVec(HashOfText(str)) = str
<1> DEFINE h == HashOfText(str)
<1>1. HASH_LEN \in Nat
  BY TextShape
<1>2. ASSUME NEW p \in 1..2 * HASH_LEN PROVE Sha256HashToVec(h)[p] = str[p]
  <2>1. PICK k \in 0..HASH_LEN - 1 :
            /\ k = HASH_LEN - 1 - (p - 1) \div 2
            /\ \/ p % 2 = 0 /\ p = 2 * HASH_LEN - 2 * k
               \/ p % 2 = 1 /\ p = 2 * HASH_LEN - (2 * k + 1)
    <3>1. /\ HASH_LEN - 1 - (p - 1) \div 2 \in 0..HASH_LEN - 1
          /\ \/ p % 2 = 0 /\ p = 2 * HASH_LEN - 2 * (HASH_LEN - 1 - (p - 1) \div 2)
             \/ p % 2 = 1 /\ p = 2 * HASH_LEN - (2 * (HASH_LEN - 1 - (p - 1) \div 2) + 1)
      BY <1>1
    <3> QED BY <3>1
  <2> DEFINE low == str[2 * HASH_LEN - 2 * k]
             high == str[2 * HASH_LEN - (2 * k + 1)]
  <2>2. h[k] = low + Digit * high
    BY DEF HashOfText
  <2>3. low \in 0..Digit - 1 /\ high \in 0..Digit - 1
    <3>1. /\ 2 * HASH_LEN - 2 * k \in 1..2 * HASH_LEN
          /\ 2 * HASH_LEN - (2 * k + 1) \in 1..2 * HASH_LEN
      BY <1>1
    <3> QED BY <3>1 DEF Texts
  <2>4. Sha256HashToVec(h)[p] = Nibble(h[k], p % 2)
    BY <2>1 DEF Sha256HashToVec
  <2> HIDE DEF h, low, high
  <2>5. Nibble(h[k], 0) = low /\ Nibble(h[k], 1) = high
    BY <2>2, <2>3, TwoDigits
  <2>6. p % 2 = 0 => str[p] = low
    BY <2>1 DEF low
  <2>7. p % 2 = 1 => str[p] = high
    BY <2>1 DEF high
  <2> QED BY <2>1, <2>4, <2>5, <2>6, <2>7
<1> HIDE DEF h
<1>3. Sha256HashToVec(h) = [p \in 1..2 * HASH_LEN |-> Sha256HashToVec(h)[p]]
  BY DEF Sha256HashToVec
<1>4. str = [p \in 1..2 * HASH_LEN |-> str[p]]
  BY DEF Texts
<1>5. Sha256HashToVec(h) = str
  BY <1>2, <1>3, <1>4
<1> QED BY <1>5 DEF h

(* The text of a hash is that of the number its bytes make, the last byte  *)
(* of the hash being the highest of the number.                            *)
LEMMA HashAsNumber ==
    ASSUME NEW h \in Hashes, NEW b,
           b = [k \in 0..HASH_LEN - 1 |-> h[HASH_LEN - 1 - k]]
    PROVE  Sha256HashToVec(h) = Uint256ToVec(NumberOfBytes(b))
<1> DEFINE u == NumberOfBytes(b)
           d(k) == [j \in 0..WORD_BYTES - 1 |-> b[HASH_LEN - 1 - (k * WORD_BYTES + j)]]
<1>1. u = [k \in 0..NUM_WORDS - 1 |-> Assembled(WORD_BYTES, ByteBits, d(k))]
  BY DEF NumberOfBytes
<1>2. ASSUME NEW k \in 0..NUM_WORDS - 1, NEW j \in 0..WORD_BYTES - 1
      PROVE  /\ k * WORD_BYTES + j \in 0..HASH_LEN - 1
             /\ d(k)[j] = h[k * WORD_BYTES + j]
             /\ d(k)[j] \in 0..2 ^ ByteBits - 1
  <2> DEFINE m == HASH_LEN - 1 - (k * WORD_BYTES + j)
  <2>1. m \in 0..HASH_LEN - 1 /\ k * WORD_BYTES \in Nat /\ HASH_LEN \in Nat
    <3>1. m = NUM_WORDS * WORD_BYTES - 1 - (k * WORD_BYTES + j)
          /\ HASH_LEN = NUM_WORDS * WORD_BYTES
      BY TextShape
    <3> HIDE DEF m
    <3> QED BY <3>1, TextShape, PartPlace
  <2>2. HASH_LEN - 1 - m = k * WORD_BYTES + j /\ HASH_LEN - 1 - m \in 0..HASH_LEN - 1
    BY <2>1
  <2>3. d(k)[j] = b[m]
    OBVIOUS
  <2> HIDE DEF m
  <2>4. b[m] = h[HASH_LEN - 1 - m]
    BY <2>1
  <2>5. h[HASH_LEN - 1 - m] \in 0..2 ^ ByteBits - 1
    BY <2>2 DEF Hashes, ByteValues
  <2> QED BY <2>2, <2>3, <2>4, <2>5
<1> HIDE DEF d
<1>3. ASSUME NEW k \in 0..NUM_WORDS - 1
      PROVE  /\ u[k] \in 0..2 ^ (ByteBits * WORD_BYTES) - 1
             /\ AreDigits(d(k), WORD_BYTES, ByteBits, u[k])
  <2>1. u[k] = Assembled(WORD_BYTES, ByteBits, d(k))
    BY <1>1
  <2>2. WORD_BYTES \in Nat /\ ByteBits \in Nat
    BY TextShape
  <2>3. \A j \in 0..WORD_BYTES - 1 : d(k)[j] \in 0..2 ^ ByteBits - 1
    BY <1>2
  <2> HIDE DEF u
  <2> QED BY <2>1, <2>2, <2>3, AssembledDigits
<1> HIDE DEF u
<1>4. u \in Numbers
  <2>1. \A k \in 0..NUM_WORDS - 1 : u[k] \in 0..2 ^ (ByteBits * WORD_BYTES) - 1
    BY <1>3
  <2>2. u = [k \in 0..NUM_WORDS - 1 |-> u[k]]
    BY <1>1
  <2> QED BY <2>1, <2>2 DEF Numbers
<1>5. ASSUME NEW p \in 1..2 * HASH_LEN PROVE Uint256ToVec(u)[p] = Sha256HashToVec(h)[p]
  <2>1. PICK k \in 0..NUM_WORDS - 1, j \in 0..PerWord - 1 :
            p = 2 * HASH_LEN - (k * PerWord + j)
    BY PlaceOfDigit
  <2>2. PICK g \in 0..WORD_BYTES - 1 : g = j \div 2
    BY DigitPlace
  <2>3. p % 2 = j % 2 /\ HASH_LEN - 1 - (p - 1) \div 2 = k * WORD_BYTES + g
    BY <2>1, <2>2, DigitPlace
  <2>4. Uint256ToVec(u)[p] = Nibble((u[k] \div 2 ^ (ByteBits * g)) % ByteValues, j % 2)
    BY <1>4, <2>1, <2>2, PrintedDigit
  <2>5. (u[k] \div 2 ^ (ByteBits * g)) % ByteValues = d(k)[g]
    BY <1>3 DEF AreDigits, ByteValues
  <2>6. d(k)[g] = h[k * WORD_BYTES + g]
    BY <1>2
  <2>7. Sha256HashToVec(h)[p] = Nibble(h[HASH_LEN - 1 - (p - 1) \div 2], p % 2)
    BY DEF Sha256HashToVec
  <2> QED BY <2>3, <2>4, <2>5, <2>6, <2>7
<1>6. /\ Uint256ToVec(u) = [p \in 1..2 * HASH_LEN |-> Uint256ToVec(u)[p]]
      /\ Sha256HashToVec(h) = [p \in 1..2 * HASH_LEN |-> Sha256HashToVec(h)[p]]
  BY DEF Uint256ToVec, Sha256HashToVec
<1>7. Sha256HashToVec(h) = Uint256ToVec(u)
  BY <1>5, <1>6
<1> QED BY <1>7 DEF u

LEMMA AllConversionsAgree == ConversionsAgree
<1>1. \A u \in Numbers : ReadsBack(u)
  BY TextReadsBack, BytesReadBack DEF ReadsBack
<1>2. ASSUME NEW h \in Hashes, NEW b, b = [k \in 0..HASH_LEN - 1 |-> h[HASH_LEN - 1 - k]]
      PROVE  /\ HashOfText(Sha256HashToVec(h)) = h
             /\ Sha256HashToVec(h) = Uint256ToVec(NumberOfBytes(b))
  BY <1>2, HashReadsBack, HashAsNumber
<1>3. \A str \in Texts :
        /\ Uint256ToVec(NumberOfText(str)) = str
        /\ Sha256HashToVec(HashOfText(str)) = str
  BY TextOfItsNumber, TextOfItsHash
<1> QED BY <1>1, <1>2, <1>3 DEF ConversionsAgree

(* The bytes of a word hold every word.                                    *)
LEMMA WordsFit == Uint \subseteq Numbers
<1>1. PICK w \in Nat, t \in Nat : w = WordBits /\ t = ByteBits * WORD_BYTES /\ w <= t
  BY WordsAssumption, TextAssumption, TextShape, NextPlace
<1>2. PICK a \in Nat \ {0}, c \in Nat \ {0} : a = 2 ^ w /\ c = 2 ^ (t - w)
  BY <1>1, PowersOfTwo, t - w \in Nat
<1>3. 2 ^ t = a * c
  <2>1. t - w \in Nat /\ w + (t - w) = t
    BY <1>1
  <2> QED BY <1>2, <2>1, PowersAdd
<1>4. a <= a * c /\ a * c \in Nat
  OBVIOUS
<1>5. 0..Base - 1 \subseteq 0..2 ^ (ByteBits * WORD_BYTES) - 1
  BY <1>1, <1>2, <1>3, <1>4 DEF Base
<1> QED BY <1>5 DEF Uint, Words, Word, Numbers

-----------------------------------------------------------------------------
(* FieldInts stay below the modulus between any two calls, and the locals  *)
(* of the loops are words, for every number and width of words and every   *)
(* offset that OffsetAssumption admits.                                    *)
THEOREM FieldTypes == Spec => []TypeOK
<1>1. IInv => TypeOK
  <2> SUFFICES ASSUME IInv PROVE TypeOK
    OBVIOUS
  <2>1. /\ value \in Uint /\ Less(value, MODULUS)
        /\ other \in Uint /\ Less(other, MODULUS)
    BY ResidualIsLess DEF IInv, Residues
  <2>2. i \in 0..Turns
    <3>1. PICK n \in Nat \ {0}, w \in Nat \ {0} : n = NUM_WORDS /\ w = WordBits
      BY WordsAssumption
    <3>2. n <= n * w * 2 /\ n * w * 2 \in Nat
      <4>1. n <= n * w /\ n * w \in Nat
        BY <3>1
      <4> QED BY <4>1
    <3>3. Turns = n * w * 2
      BY <3>1 DEF Turns
    <3> QED BY <3>1, <3>2, <3>3 DEF IInv, Control
  <2> QED BY <2>1, <2>2 DEF IInv, Control, RowsInv, EstimateInv, TurnsInv, TypeOK
<1> QED BY <1>1, Inductive, PTL

(* Each row of multiply adds one word of the number times the factor.      *)
THEOREM RowsAdd == Spec => []RowsAddUp
<1>1. IInv => RowsAddUp
  BY DEF IInv, RowsInv
<1> QED BY <1>1, Inductive, PTL

(* The estimate of the quotient is good enough: what it leaves is below    *)
(* twice the modulus, for every product of two residues.                   *)
THEOREM EstimateHolds == Spec => []BarrettEstimate
<1>1. IInv => BarrettEstimate
  <2> SUFFICES ASSUME IInv PROVE BarrettEstimate
    OBVIOUS
  <2>1. ASSUME phase = "estimated"
        PROVE  ValueOf(3 * NUM_WORDS, product1)
                 = ValueOf(2 * NUM_WORDS, product0) * (Width + Base + Offset)
    BY <2>1 DEF IInv, RowsInv, EstimateInv
  <2>2. ASSUME phase = "taken"
        PROVE  LET p0 == ValueOf(2 * NUM_WORDS, product0)
                   p1 == ValueOf(3 * NUM_WORDS, product1)
                   p2 == ValueOf(2 * NUM_WORDS, product2)
               IN  /\ p2 = (p1 \div (Width * Width)) * Prime
                   /\ p0 - p2 \in 0..2 * Prime - 1
                   /\ Value(Remainder) + Remainder[NUM_WORDS] * Width = p0 - p2
    BY <2>2, RemainderIsSmall
  <2> QED BY <2>1, <2>2 DEF BarrettEstimate
<1> QED BY <1>1, Inductive, PTL

(* The carries of multiply fit, and Uint256::reciprocal does not run into  *)
(* its assertions with a prime for the modulus: x stays odd, and the turns *)
(* are enough to leave one or the modulus.                                 *)
THEOREM NothingAsserts == Spec => []AssertionsHold
<1>1. IInv => AssertionsHold
  <2> SUFFICES ASSUME IInv, phase = "turns"
               PROVE  gcd.x[0] % 2 = 1 /\ (i = Turns => IsUnit)
    BY CarriesFitAlways DEF AssertionsHold
  <2>1. gcd.x \in Uint /\ Value(gcd.x) % 2 = 1
    BY DEF IInv, TurnsInv, Gcd!IInv, Gcd!TypeOK
  <2> QED BY <2>1, HalvedCounts, TurnsEnd
<1> QED BY <1>1, Inductive, PTL

(* Numbers and hashes of every length are what their texts and bytes say,  *)
(* those in a FieldInt among them, and a hash is printed in the reverse of *)
(* the order in which it counts as a number.                               *)
THEOREM TextsAgree == Spec => []TextAgrees
<1>1. IInv => TextAgrees
  <2> SUFFICES ASSUME IInv PROVE TextAgrees
    OBVIOUS
  <2>1. value \in Numbers
    BY ResidualIsLess, WordsFit DEF IInv, Residues
  <2> QED BY <2>1, AllConversionsAgree DEF TextAgrees, ConversionsAgree
<1> QED BY <1>1, Inductive, PTL

(* The methods of FieldInt, word by word with their carries, the Barrett   *)
(* reduction and the binary GCD, compute what PrimeField says.             *)
THEOREM ImplementsPrimeField == Spec => ImplementsField
<1>1. Init => Field!Init
  <2> SUFFICES ASSUME Init PROVE Field!Init
    OBVIOUS
  <2>1. Value(value) \in 0..Prime - 1 /\ Value(other) \in 0..Prime - 1
    BY InitIInv, FactorResidual DEF IInv
  <2> QED BY <2>1 DEF Init, Field!Init, Field!Residue
<1>2. IInv /\ [Next]_vars => [Field!Next]_<<Value(value), Value(other), call>>
  BY StepIInv
<1> QED BY <1>1, <1>2, Inductive, PTL DEF Spec, ImplementsField, Field!Spec

=============================================================================
