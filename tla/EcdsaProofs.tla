---------------------------- MODULE EcdsaProofs ----------------------------
(***************************************************************************)
(* Proofs about points and signatures, for every curve, every base point   *)
(* of prime order, every size of the numbers and every window of multiply. *)
(***************************************************************************)
EXTENDS Ecdsa, Facts

---------------------------------------------------------------------------
(* Residues.                                                               *)

LEMMA Primes ==
    /\ Prime \in Nat /\ 3 < Prime /\ ORDER \in Nat /\ 2 < ORDER
    /\ ORDER < Prime /\ Prime < 2 * ORDER /\ Width \in Nat /\ Prime < Width
    /\ \A d \in 2..Prime - 1 : Prime % d # 0
    /\ \A d \in 2..ORDER - 1 : ORDER % d # 0
<1>1. Width \in Nat
  BY TableAssumption, PowersOfTwo DEF Width
<1> QED BY <1>1, CurveAssumption, OrderAssumption DEF Curve!IsCurve

LEMMA Division ==
    ASSUME NEW n \in Int, NEW m \in Nat \ {0}
    PROVE  /\ n % m \in 0..m - 1
           /\ \E k \in Int : n = k * m + (n % m)
<1>1. n \div m \in Int /\ n % m \in 0..m - 1 /\ n = (n \div m) * m + (n % m)
  OBVIOUS
<1> QED BY <1>1

(* Every number but zero has an inverse: the least number that n and the   *)
(* prime can be combined to divides the prime.                             *)
LEMMA InverseExists ==
    ASSUME NEW m \in Nat, 1 < m, \A d \in 2..m - 1 : m % d # 0,
           NEW n \in 1..m - 1
    PROVE  \E i \in 0..m - 1 : (n * i) % m = 1
<1> DEFINE Combines(t) == t # 0 /\ \E i \in Int, k \in Int : n * i - k * m = t
           T == {t \in Nat : Combines(t)}
<1>1. n \in T
  <2>1. n * 1 - 0 * m = n
    OBVIOUS
  <2>2. \E i \in Int, k \in Int : n * i - k * m = n
    BY <2>1, 1 \in Int, 0 \in Int
  <2> HIDE DEF T
  <2>3. Combines(n)
    BY <2>2, n # 0
  <2> HIDE DEF Combines
  <2> QED BY <2>3, n \in Nat DEF T
<1>2. PICK t \in T : \A k \in T : t <= k
  <2>1. T \in SUBSET Nat
    OBVIOUS
  <2> HIDE DEF T
  <2> QED BY <1>1, <2>1, LeastNumber
<1>3. t \in Nat \ {0} /\ t <= n
  BY <1>1, <1>2
<1>4. PICK i \in Int, k \in Int : n * i - k * m = t
  BY <1>2
<1>5. PICK q \in Int : m = q * t + (m % t)
  <2>1. m \in Int /\ t \in Nat \ {0}
    BY <1>3
  <2> QED BY ONLY <2>1, Division
<1>6. m % t = 0
  <2> SUFFICES ASSUME m % t # 0 PROVE FALSE
    OBVIOUS
  <2>0. PICK e \in Nat : e = m % t /\ e < t
    BY <1>3
  <2>1. n * (-(q * i)) - (-(1 + q * k)) * m = e
    <3>1. q * t = q * (n * i) - q * (k * m)
      BY <1>4
    <3>2. q * (n * i) = n * (q * i) /\ q * (k * m) = (q * k) * m
      OBVIOUS
    <3> DEFINE u == q * i
               v == q * k
    <3>3. u \in Int /\ v \in Int /\ m = n * u - v * m + e
      BY <1>5, <2>0, <3>1, <3>2
    <3> HIDE DEF u, v
    <3>4. n * (-u) = -(n * u) /\ (-(1 + v)) * m = -m - v * m
      BY <3>3
    <3>5. n * (-u) - (-(1 + v)) * m = e
      BY <3>3, <3>4
    <3> QED BY <3>5 DEF u, v
  <2>2. -(q * i) \in Int /\ -(1 + q * k) \in Int
    OBVIOUS
  <2>3. Combines(e)
    BY <2>0, <2>1, <2>2
  <2> HIDE DEF Combines
  <2> QED BY <1>2, <1>3, <2>0, <2>3
<1> HIDE DEF T
<1>7. t = 1
  BY <1>3, <1>6
<1>8. PICK j \in Int : i = j * m + (i % m)
  <2>1. i \in Int /\ m \in Nat \ {0}
    OBVIOUS
  <2> QED BY ONLY <2>1, Division
<1>r. PICK e \in 0..m - 1 : e = i % m
  OBVIOUS
<1>9. n * e = (k - n * j) * m + 1
  <2>1. n * i = n * (j * m) + n * e
    BY <1>8, <1>r
  <2>2. n * (j * m) = (n * j) * m
    OBVIOUS
  <2>3. (k - n * j) * m = k * m - (n * j) * m
    OBVIOUS
  <2> QED BY <1>4, <1>7, <2>1, <2>2, <2>3
<1>10. (n * e) % m = 1
  <2>1. k - n * j \in Int /\ 1 \in 0..m - 1 /\ m \in Nat \ {0}
    OBVIOUS
  <2>2. ((k - n * j) * m + 1) % m = 1
    BY ONLY <2>1, RemainderUnique
  <2> QED BY <1>9, <2>2
<1> QED BY <1>10

LEMMA InversesDefined ==
    ASSUME NEW m \in Nat, 1 < m, \A d \in 2..m - 1 : m % d # 0
    PROVE  /\ Curve!Inverses(m) \in [0..m - 1 -> 0..m - 1]
           /\ \A n \in 1..m - 1 : (n * Curve!Inverses(m)[n]) % m = 1
<1> DEFINE inv(n) == CHOOSE e \in 0..m - 1 : (n * e) % m = 1
<1>1. ASSUME NEW n \in 1..m - 1 PROVE inv(n) \in 0..m - 1 /\ (n * inv(n)) % m = 1
  BY InverseExists
<1>2. Curve!Inverses(m) = [n \in 0..m - 1 |-> IF n = 0 THEN 0 ELSE inv(n)]
  BY DEF Curve!Inverses
<1> HIDE DEF inv
<1>3. \A n \in 0..m - 1 : n = 0 \/ n \in 1..m - 1
  OBVIOUS
<1>4. \A n \in 0..m - 1 : (IF n = 0 THEN 0 ELSE inv(n)) \in 0..m - 1
  BY <1>1, <1>3
<1>5. \A n \in 1..m - 1 : n \in 0..m - 1 /\ Curve!Inverses(m)[n] = inv(n)
  BY <1>2
<1>6. Curve!Inverses(m) \in [0..m - 1 -> 0..m - 1]
  BY <1>2, <1>4
<1> QED BY <1>1, <1>5, <1>6

(* For the two primes there are.                                           *)
LEMMA InFieldDefined ==
    /\ Curve!InverseInField \in [Residue -> Residue]
    /\ \A n \in 1..Prime - 1 : (n * Curve!InverseInField[n]) % Prime = 1
<1>1. PICK m \in Nat : m = Prime /\ 1 < m /\ \A d \in 2..m - 1 : m % d # 0
  BY Primes
<1>2. /\ Curve!Inverses(m) \in [0..m - 1 -> 0..m - 1]
      /\ \A n \in 1..m - 1 : (n * Curve!Inverses(m)[n]) % m = 1
  BY ONLY <1>1, InversesDefined
<1> QED BY <1>1, <1>2 DEF Curve!InverseInField, Residue

LEMMA OfOrderDefined ==
    /\ InverseOfOrder \in [0..ORDER - 1 -> 0..ORDER - 1]
    /\ \A n \in 1..ORDER - 1 : (n * InverseOfOrder[n]) % ORDER = 1
<1>1. PICK m \in Nat : m = ORDER /\ 1 < m /\ \A d \in 2..m - 1 : m % d # 0
  BY Primes
<1>2. /\ Curve!Inverses(m) \in [0..m - 1 -> 0..m - 1]
      /\ \A n \in 1..m - 1 : (n * Curve!Inverses(m)[n]) % m = 1
  BY ONLY <1>1, InversesDefined
<1> QED BY <1>1, <1>2 DEF InverseOfOrder

LEMMA ModIsResidue ==
    \A n \in Int : Mod(n) \in Residue /\ Mod(n) \in Int
BY Primes DEF Mod, Residue

---------------------------------------------------------------------------
(* Points.                                                                 *)

LEMMA OverIsResidue ==
    ASSUME NEW n \in Int, NEW d \in Int
    PROVE  Curve!Over(n, d) \in Residue
<1>1. Prime \in Nat \ {0} /\ 1 < Prime /\ d % Prime \in 0..Prime - 1
  BY Primes
<1>2. Curve!InverseInField[d % Prime] \in Int
  BY <1>1, InFieldDefined DEF Residue
<1>3. PICK i \in Int : i = Curve!InverseInField[d % Prime]
  BY <1>2
<1>4. n * i \in Int
  OBVIOUS
<1>5. (n * i) % Prime \in Residue
  BY <1>1, <1>4 DEF Residue
<1> QED BY <1>3, <1>5 DEF Curve!Over

LEMMA TwiceIsPoint == \A p \in Point : Twice(p) \in Point
<1> SUFFICES ASSUME NEW p \in Point PROVE Twice(p) \in Point
  OBVIOUS
<1>1. /\ p.x \in Int /\ p.y \in Int /\ p.z \in Int
      /\ 0 \in Residue /\ 1 \in Residue
  BY Primes DEF Point, Residue
<1> DEFINE u == Mod(2 * p.y * p.z)
           v == Mod(2 * Mod(u * p.x) * p.y)
           t == Mod(3 * p.x * p.x)
           w == Mod(t * t - 2 * v)
           uy == Mod(u * p.y)
<1>2. u \in Int /\ t \in Int
  BY <1>1, ModIsResidue
<1> HIDE DEF u, t
<1>3. v \in Int /\ uy \in Int
  <2>1. Mod(u * p.x) \in Int
    BY <1>1, <1>2, ModIsResidue
  <2> QED BY <1>1, <1>2, <2>1, ModIsResidue
<1> HIDE DEF v, uy
<1>4. w \in Int
  BY <1>2, <1>3, ModIsResidue
<1> HIDE DEF w
<1>5. /\ Mod(u * w) \in Residue
      /\ Mod(t * (v - w) - 2 * uy * uy) \in Residue
      /\ Mod(Mod(u * u) * u) \in Residue
  <2>1. Mod(u * u) \in Int
    BY <1>2, ModIsResidue
  <2>2. /\ u * w \in Int /\ t * (v - w) - 2 * uy * uy \in Int
        /\ Mod(u * u) * u \in Int
    BY <1>2, <1>3, <1>4, <2>1
  <2> QED BY <2>2, ModIsResidue
<1>6. Twice(p) = IF IsZero(p) \/ p.y = 0 THEN ZERO
                 ELSE [ x |-> Mod(u * w),
                        y |-> Mod(t * (v - w) - 2 * uy * uy),
                        z |-> Mod(Mod(u * u) * u) ]
  BY DEF Twice, u, v, t, w, uy
<1>7. ZERO \in Point
  BY <1>1 DEF ZERO, Point
<1> QED BY <1>5, <1>6, <1>7 DEF Point

LEMMA ChordIsPoint ==
    ASSUME NEW u0 \in Int, NEW u1 \in Int, NEW t0 \in Int, NEW t1 \in Int, NEW z \in Int
    PROVE  Chord(u0, u1, t0, t1, z) \in Point
<1> DEFINE t  == Mod(t0 - t1)
           u  == Mod(u0 - u1)
           u2 == Mod(u * u)
           u3 == Mod(u2 * u)
           w  == Mod(Mod(t * t) * z - u2 * (u0 + u1))
<1>1. t \in Int /\ u \in Int
  BY ModIsResidue
<1> HIDE DEF t, u
<1>2. u2 \in Int /\ Mod(t * t) \in Int
  BY <1>1, ModIsResidue
<1> HIDE DEF u2
<1>3. u3 \in Int /\ w \in Int
  BY <1>1, <1>2, ModIsResidue
<1> HIDE DEF u3, w
<1>4. Mod(u0 * u2 - w) \in Int
  BY <1>2, <1>3, ModIsResidue
<1>5. /\ u * w \in Int /\ t * Mod(u0 * u2 - w) - t0 * u3 \in Int /\ u3 * z \in Int
  BY <1>1, <1>2, <1>3, <1>4
<1>6. /\ Mod(u * w) \in Residue
      /\ Mod(t * Mod(u0 * u2 - w) - t0 * u3) \in Residue
      /\ Mod(u3 * z) \in Residue
  BY <1>5, ModIsResidue
<1>7. Chord(u0, u1, t0, t1, z) =
        [x |-> Mod(u * w), y |-> Mod(t * Mod(u0 * u2 - w) - t0 * u3), z |-> Mod(u3 * z)]
  BY DEF Chord, t, u, u2, u3, w
<1> QED BY <1>6, <1>7 DEF Point

LEMMA AddIsPoint == \A p, q \in Point : Add(p, q) \in Point
<1> SUFFICES ASSUME NEW p \in Point, NEW q \in Point PROVE Add(p, q) \in Point
  OBVIOUS
<1>1. /\ p.x \in Int /\ p.y \in Int /\ p.z \in Int
      /\ q.x \in Int /\ q.y \in Int /\ q.z \in Int
      /\ 0 \in Residue /\ 1 \in Residue
  BY Primes DEF Point, Residue
<1> DEFINE u0 == Mod(p.x * q.z)
           u1 == Mod(q.x * p.z)
           t0 == Mod(p.y * q.z)
           t1 == Mod(q.y * p.z)
           z  == Mod(p.z * q.z)
<1>2. u0 \in Int /\ u1 \in Int /\ t0 \in Int /\ t1 \in Int /\ z \in Int
  BY <1>1, ModIsResidue
<1>3. Chord(u0, u1, t0, t1, z) \in Point
  <2> HIDE DEF u0, u1, t0, t1, z
  <2> QED BY <1>2, ChordIsPoint
<1>4. Twice(p) \in Point /\ ZERO \in Point
  BY <1>1, TwiceIsPoint DEF ZERO, Point
<1>5. Add(p, q) \in {p, q, Chord(u0, u1, t0, t1, z), Twice(p), ZERO}
  <2> HIDE DEF u0, u1, t0, t1, z
  <2>1. Add(p, q) = IF IsZero(p) THEN q
                    ELSE IF IsZero(q) THEN p
                    ELSE IF u0 # u1 THEN Chord(u0, u1, t0, t1, z)
                    ELSE IF t0 = t1 THEN Twice(p) ELSE ZERO
    BY DEF Add, u0, u1, t0, t1, z
  <2> QED BY <2>1
<1> QED BY <1>3, <1>4, <1>5

LEMMA NormalizeIsPoint == \A p \in Point : Normalize(p) \in Point
<1> SUFFICES ASSUME NEW p \in Point PROVE Normalize(p) \in Point
  OBVIOUS
<1>1. /\ p.x \in Int /\ p.y \in Int /\ p.z \in Int
      /\ 0 \in Residue /\ 1 \in Residue
  BY Primes DEF Point, Residue
<1>2. Curve!Over(p.x, p.z) \in Residue /\ Curve!Over(p.y, p.z) \in Residue
  BY <1>1, OverIsResidue
<1> QED BY <1>1, <1>2 DEF Normalize, Point

(* The doublings between two windows.                                      *)
LEMMA TwiceRepeatedSteps ==
    ASSUME NEW p \in Point, NEW n \in Nat
    PROVE  \E v \in [0..n -> Point] :
             /\ v[0] = p /\ \A k \in 0..n - 1 : v[k + 1] = Twice(v[k])
             /\ TwiceRepeated(p, n) = v[n]
<1> DEFINE Is(v) == v = [k \in 0..n |-> IF k = 0 THEN p ELSE Twice(v[k - 1])]
           v     == CHOOSE v : Is(v)
           step  == [k \in 1..n |-> [q \in Point |-> Twice(q)]]
<1>1. step \in [1..n -> [Point -> Point]]
  BY TwiceIsPoint
<1>2. \A k \in 1..n, q \in Point : step[k][q] = Twice(q)
  OBVIOUS
<1> HIDE DEF step
<1>3. PICK f : Iterates(f, 0..n, Point, p, step)
  BY <1>1, FiniteRecursion
<1>4. f \in [0..n -> Point] /\ f[0] = p /\ \A k \in 1..n : f[k] = Twice(f[k - 1])
  <2>1. f \in [0..n -> Point] /\ f[0] = p
    BY <1>3 DEF Iterates
  <2>2. ASSUME NEW k \in 1..n PROVE f[k] = Twice(f[k - 1])
    BY <1>2, <1>3, <2>1, k - 1 \in 0..n, k \in 0..n, k # 0 DEF Iterates
  <2> QED BY <2>1, <2>2
<1>5. Is(f)
  <2>1. ASSUME NEW k \in 0..n PROVE f[k] = IF k = 0 THEN p ELSE Twice(f[k - 1])
    BY <1>4
  <2> QED BY <1>4, <2>1
<1>6. Is(v)
  <2> HIDE DEF Is
  <2> QED BY <1>5
<1>7. TwiceRepeated(p, n) = v[n]
  BY DEF TwiceRepeated
<1> HIDE DEF v
<1>8. v[0] = p
  BY <1>6
<1>9. ASSUME NEW k \in 0..n - 1 PROVE v[k + 1] = Twice(v[k])
  <2>1. k + 1 \in 0..n /\ k + 1 # 0 /\ (k + 1) - 1 = k
    OBVIOUS
  <2> QED BY <1>6, <2>1
<1> DEFINE T == {k \in 0..n : v[k] \in Point}
<1>10. 0..n \subseteq T
  <2>1. 0 \in T
    BY <1>8
  <2>2. \A k \in 0..n - 1 : k \in T => k + 1 \in T
    BY <1>9, TwiceIsPoint
  <2> HIDE DEF T
  <2> QED BY <2>1, <2>2, InductionUpTo
<1>11. v \in [0..n -> Point]
  BY <1>6, <1>10
<1> QED BY <1>7, <1>8, <1>9, <1>11

LEMMA TwiceRepeatedIsPoint ==
    ASSUME NEW p \in Point, NEW n \in Nat
    PROVE  TwiceRepeated(p, n) \in Point
BY TwiceRepeatedSteps

(* The multiples of a point that multiply looks up.                        *)
LEMMA TableOfPoints ==
    ASSUME NEW p \in Point
    PROVE  /\ Table(p) \in [0..2 ^ tableBits - 1 -> Point]
           /\ Table(p)[0] = ZERO /\ Table(p)[1] = p
           /\ \A k \in 2..2 ^ tableBits - 1 :
                 Table(p)[k] = IF k = 2 THEN Twice(p) ELSE Add(Table(p)[k - 1], p)
<1>1. PICK n \in Nat : n = 2 ^ tableBits - 1 /\ 1 <= n
  <2>1. tableBits - 1 \in Nat /\ (tableBits - 1) + 1 = tableBits
    BY TableAssumption
  <2>2. 2 ^ ((tableBits - 1) + 1) = 2 * 2 ^ (tableBits - 1) /\ 2 ^ (tableBits - 1) \in Nat \ {0}
    BY <2>1, PowersOfTwo
  <2> QED BY <2>1, <2>2
<1> DEFINE Body(k, q) == IF k = 1 THEN p ELSE IF k = 2 THEN Twice(p) ELSE Add(q, p)
           Is(v) == v = [k \in 0..n |->
                           IF k = 0 THEN ZERO ELSE IF k = 1 THEN p
                           ELSE IF k = 2 THEN Twice(p) ELSE Add(v[k - 1], p)]
           v     == CHOOSE v : Is(v)
           step  == [k \in 1..n |-> [q \in Point |-> Body(k, q)]]
<1>z. ZERO \in Point
  BY Primes DEF ZERO, Point, Residue
<1>2. \A k \in 1..n, q \in Point : Body(k, q) \in Point
  BY TwiceIsPoint, AddIsPoint
<1>3. /\ step \in [1..n -> [Point -> Point]]
      /\ \A k \in 1..n, q \in Point : step[k][q] = Body(k, q)
  <2> HIDE DEF Body
  <2> QED BY <1>2
<1> HIDE DEF step
<1>4. PICK f : Iterates(f, 0..n, Point, ZERO, step)
  BY <1>3, <1>z, FiniteRecursion
<1>5. f \in [0..n -> Point] /\ f[0] = ZERO /\ \A k \in 1..n : f[k] = Body(k, f[k - 1])
  <2>1. f \in [0..n -> Point] /\ f[0] = ZERO
    BY <1>4 DEF Iterates
  <2>2. ASSUME NEW k \in 1..n PROVE f[k] = Body(k, f[k - 1])
    <3>1. f[k] = step[k][f[k - 1]] /\ f[k - 1] \in Point
      BY <1>4, <2>1, k - 1 \in 0..n, k \in 0..n, k # 0 DEF Iterates
    <3> HIDE DEF Body
    <3> QED BY <1>3, <3>1
  <2> QED BY <2>1, <2>2
<1>6. Is(f)
  <2>1. ASSUME NEW k \in 0..n
        PROVE  f[k] = IF k = 0 THEN ZERO ELSE IF k = 1 THEN p
                      ELSE IF k = 2 THEN Twice(p) ELSE Add(f[k - 1], p)
    BY <1>5
  <2> QED BY <1>5, <2>1
<1>7. Is(v)
  <2> HIDE DEF Is
  <2> QED BY <1>6
<1>8. Table(p) = v
  BY <1>1 DEF Table
<1> HIDE DEF v
<1>9. /\ v[0] = ZERO /\ v[1] = p
      /\ \A k \in 2..n : v[k] = IF k = 2 THEN Twice(p) ELSE Add(v[k - 1], p)
  BY <1>1, <1>7
<1> DEFINE T == {k \in 0..n : v[k] \in Point}
<1>10. 0 \in T
  BY <1>9, <1>z
<1>11. ASSUME NEW k \in 0..n - 1, k \in T PROVE k + 1 \in T
  <2>1. CASE k = 0
    BY <2>1, <1>1, <1>9
  <2>2. CASE k # 0
    <3>1. k + 1 \in 2..n /\ (k + 1) - 1 = k /\ k + 1 \in 0..n
      BY <2>2
    <3>2. v[k + 1] \in {Twice(p), Add(v[k], p)}
      BY <1>9, <3>1
    <3> QED BY <1>11, <3>1, <3>2, TwiceIsPoint, AddIsPoint
  <2> QED BY <2>1, <2>2
<1>12. \A k \in 0..n : v[k] \in Point
  <2>1. 0..n \subseteq T
    <3> HIDE DEF T
    <3> QED BY <1>10, <1>11, InductionUpTo
  <2> QED BY <2>1
<1>13. v \in [0..n -> Point]
  BY <1>7, <1>12
<1> QED BY <1>1, <1>8, <1>9, <1>13

(* A window of a number is an index of that table.                         *)
Window(n, k) == (n \div 2 ^ (Bits - k * tableBits)) % 2 ^ tableBits

Windows == Bits \div tableBits

LEMMA WindowInTable ==
    ASSUME NEW n \in Nat
    PROVE  /\ Windows \in Nat
           /\ \A k \in 1..Windows : Window(n, k) \in 0..2 ^ tableBits - 1
<1>1. /\ Bits \in Nat /\ tableBits \in Nat \ {0} /\ Bits % tableBits = 0
      /\ 2 ^ tableBits \in Nat \ {0}
  BY TableAssumption, PowersOfTwo
<1>2. Windows \in Nat /\ Bits = Windows * tableBits
  BY <1>1 DEF Windows
<1>3. ASSUME NEW k \in 1..Windows PROVE Window(n, k) \in 0..2 ^ tableBits - 1
  <2>1. Bits - k * tableBits \in Nat
    <3>1. PICK j \in Nat, w \in Nat, t \in Nat :
              j = Windows - k /\ w = Windows /\ t = tableBits /\ k = w - j
      BY <1>1, <1>2
    <3>2. (w - j) * t = w * t - j * t /\ j * t \in Nat
      OBVIOUS
    <3>3. Bits - k * tableBits = j * t
      BY <1>2, <3>1, <3>2
    <3> QED BY <3>2, <3>3
  <2>2. PICK d \in Nat \ {0} : d = 2 ^ (Bits - k * tableBits)
    BY <2>1, PowersOfTwo
  <2>3. n \div d \in Int
    OBVIOUS
  <2>4. PICK m \in Int : m = n \div d
    BY <2>3
  <2>5. m % 2 ^ tableBits \in 0..2 ^ tableBits - 1
    BY <1>1
  <2> QED BY <2>2, <2>4, <2>5 DEF Window
<1> QED BY <1>2, <1>3

LEMMA MultiplySums ==
    ASSUME NEW p \in Point, NEW n \in Nat
    PROVE  \E after \in [0..Windows -> Point] :
             /\ after[0] = ZERO
             /\ \A k \in 1..Windows :
                   after[k] = Add(IF k = 1 THEN ZERO ELSE TwiceRepeated(after[k - 1], tableBits),
                                Table(p)[Window(n, k)])
             /\ Multiply(p, n) = after[Windows]
<1> DEFINE Body(k, q) == Add(IF k = 1 THEN ZERO ELSE TwiceRepeated(q, tableBits),
                             Table(p)[Window(n, k)])
           Is(w) == w = [k \in 0..Windows |->
                           IF k = 0 THEN ZERO
                           ELSE Add(IF k = 1 THEN w[0] ELSE TwiceRepeated(w[k - 1], tableBits),
                                    Table(p)[Window(n, k)])]
           v     == CHOOSE w : Is(w)
           step  == [k \in 1..Windows |-> [q \in Point |-> Body(k, q)]]
<1>z. ZERO \in Point /\ tableBits \in Nat /\ Windows \in Nat
  BY Primes, WindowInTable, TableAssumption DEF ZERO, Point, Residue
<1>2. ASSUME NEW k \in 1..Windows, NEW q \in Point PROVE Body(k, q) \in Point
  <2>1. TwiceRepeated(q, tableBits) \in Point
    BY <1>z, TwiceRepeatedIsPoint
  <2>2. Table(p)[Window(n, k)] \in Point
    <3>1. Window(n, k) \in 0..2 ^ tableBits - 1
      BY WindowInTable
    <3> QED BY <3>1, TableOfPoints
  <2> QED BY <1>z, <2>1, <2>2, AddIsPoint
<1>3. /\ step \in [1..Windows -> [Point -> Point]]
      /\ \A k \in 1..Windows, q \in Point : step[k][q] = Body(k, q)
  <2> HIDE DEF Body
  <2> QED BY <1>2
<1> HIDE DEF step
<1>4. PICK f : Iterates(f, 0..Windows, Point, ZERO, step)
  BY <1>3, <1>z, FiniteRecursion
<1>5. /\ f \in [0..Windows -> Point] /\ f[0] = ZERO
      /\ \A k \in 1..Windows : f[k] = Body(k, f[k - 1])
  <2>1. f \in [0..Windows -> Point] /\ f[0] = ZERO
    BY <1>4, <1>z DEF Iterates
  <2>2. ASSUME NEW k \in 1..Windows PROVE f[k] = Body(k, f[k - 1])
    <3>1. f[k] = step[k][f[k - 1]] /\ f[k - 1] \in Point
      BY <1>4, <1>z, <2>1, k - 1 \in 0..Windows, k \in 0..Windows, k # 0 DEF Iterates
    <3> HIDE DEF Body
    <3> QED BY <1>3, <3>1
  <2> QED BY <2>1, <2>2
<1>6. Is(f)
  <2>1. ASSUME NEW k \in 0..Windows
        PROVE  f[k] = IF k = 0 THEN ZERO
                      ELSE Add(IF k = 1 THEN f[0] ELSE TwiceRepeated(f[k - 1], tableBits),
                               Table(p)[Window(n, k)])
    <3>1. CASE k = 0
      BY <1>5, <3>1
    <3>2. CASE k # 0
      BY <1>5, <1>z, <3>2, k \in 1..Windows
    <3> QED BY <3>1, <3>2
  <2> QED BY <1>5, <2>1
<1>7. Is(v)
  <2> HIDE DEF Is
  <2> QED BY <1>6
<1>8. Multiply(p, n) = v[Windows]
  BY DEF Multiply, Windows, Window
<1> HIDE DEF v
<1>9. v[0] = ZERO /\ \A k \in 1..Windows : v[k] = Body(k, v[k - 1])
  BY <1>7, <1>z
<1> HIDE DEF Body
<1> DEFINE T == {k \in 0..Windows : v[k] \in Point}
<1>10. 0 \in T
  BY <1>9, <1>z
<1>11. ASSUME NEW k \in 0..Windows - 1, k \in T PROVE k + 1 \in T
  <2>1. k + 1 \in 1..Windows /\ (k + 1) - 1 = k /\ k + 1 \in 0..Windows
    BY <1>z
  <2>2. v[k + 1] = Body(k + 1, v[k])
    BY <1>9, <2>1
  <2> QED BY <1>2, <1>11, <2>1, <2>2
<1>12. \A k \in 0..Windows : v[k] \in Point
  <2>1. 0..Windows \subseteq T
    <3> HIDE DEF T
    <3> QED BY <1>10, <1>11, <1>z, InductionUpTo
  <2> QED BY <2>1
<1>13. v \in [0..Windows -> Point]
  BY <1>7, <1>12
<1> QED BY <1>8, <1>9, <1>13 DEF Body

LEMMA MultiplyIsPoint ==
    ASSUME NEW p \in Point, NEW n \in Nat
    PROVE  Multiply(p, n) \in Point
BY MultiplySums, WindowInTable

---------------------------------------------------------------------------
(* The field: what vanishes in it is a multiple of the prime.              *)

Vanishes(n) == \E k \in Int : n = k * Prime

LEMMA Combine2 ==
    ASSUME NEW a \in Int, Vanishes(a), NEW b \in Int, Vanishes(b),
           NEW i \in Int, NEW j \in Int
    PROVE  Vanishes(i * a + j * b)
<1>1. PICK k \in Int, l \in Int, m \in Int : a = k * m /\ b = l * m /\ m = Prime
  <2>1. PICK k \in Int : a = k * Prime
    BY DEF Vanishes
  <2>2. PICK l \in Int : b = l * Prime
    BY DEF Vanishes
  <2> QED BY <2>1, <2>2, Primes
<1>2. i * (k * m) + j * (l * m) = (i * k + j * l) * m
  OBVIOUS
<1>3. i * k + j * l \in Int /\ i * a + j * b = (i * k + j * l) * Prime
  BY <1>1, <1>2
<1> QED BY <1>3 DEF Vanishes

LEMMA Combine3 ==
    ASSUME NEW a \in Int, Vanishes(a), NEW b \in Int, Vanishes(b),
           NEW c \in Int, Vanishes(c),
           NEW i \in Int, NEW j \in Int, NEW k \in Int
    PROVE  Vanishes(i * a + j * b + k * c)
<1>1. PICK d \in Int : d = i * a + j * b
  OBVIOUS
<1>2. Vanishes(d)
  <2>1. Vanishes(i * a + j * b)
    BY Combine2
  <2> QED BY <1>1, <2>1
<1>3. Vanishes(1 * d + k * c)
  BY ONLY <1>2, Vanishes(c), d \in Int, c \in Int, k \in Int, 1 \in Int, Combine2
<1>4. 1 * d + k * c = i * a + j * b + k * c
  BY <1>1
<1> QED BY <1>3, <1>4

LEMMA Combine4 ==
    ASSUME NEW a \in Int, Vanishes(a), NEW b \in Int, Vanishes(b),
           NEW c \in Int, Vanishes(c), NEW d \in Int, Vanishes(d),
           NEW i \in Int, NEW j \in Int, NEW k \in Int, NEW l \in Int
    PROVE  Vanishes(i * a + j * b + k * c + l * d)
<1>1. PICK e \in Int : e = i * a + j * b
  OBVIOUS
<1>2. Vanishes(e)
  <2>1. Vanishes(i * a + j * b)
    BY Combine2
  <2> QED BY <1>1, <2>1
<1>3. Vanishes(1 * e + k * c + l * d)
  BY ONLY <1>2, Vanishes(c), Vanishes(d), e \in Int, c \in Int, d \in Int,
          k \in Int, l \in Int, 1 \in Int, Combine3
<1>4. 1 * e + k * c + l * d = i * a + j * b + k * c + l * d
  BY <1>1
<1> QED BY <1>3, <1>4

LEMMA ModVanishes ==
    \A n \in Int : Mod(n) \in Int /\ Mod(n) - n \in Int /\ Vanishes(Mod(n) - n)
<1> SUFFICES ASSUME NEW n \in Int
             PROVE  Mod(n) \in Int /\ Mod(n) - n \in Int /\ Vanishes(Mod(n) - n)
  OBVIOUS
<1>1. PICK m \in Nat \ {0} : m = Prime
  BY Primes
<1>2. n % m \in 0..m - 1 /\ \E k \in Int : n = k * m + (n % m)
  BY ONLY n \in Int, m \in Nat \ {0}, Division
<1>3. PICK k \in Int, e \in Int : n = k * m + e /\ e = Mod(n)
  BY <1>1, <1>2 DEF Mod
<1>4. e - n = (-k) * m /\ -k \in Int
  BY <1>3
<1>5. Vanishes(e - n)
  BY <1>1, <1>4 DEF Vanishes
<1> QED BY <1>3, <1>5

(* Two residues that differ by a multiple are one.                         *)
LEMMA SameResidue ==
    ASSUME NEW a \in Residue, NEW b \in Residue, Vanishes(a - b)
    PROVE  a = b
<1>1. PICK m \in Nat, c \in Int, d \in Int, k \in Int :
          /\ m = Prime /\ c = a /\ d = b /\ c - d = k * m
          /\ 0 <= c /\ c < m /\ 0 <= d /\ d < m
  BY Primes DEF Vanishes, Residue
<1>2. ~(k >= 1)
  <2> SUFFICES ASSUME k >= 1 PROVE FALSE
    OBVIOUS
  <2>1. k * m >= m
    BY <1>1
  <2> QED BY <1>1, <2>1
<1>3. ~(k <= -1)
  <2> SUFFICES ASSUME k <= -1 PROVE FALSE
    OBVIOUS
  <2>1. k * m <= -m
    BY <1>1
  <2> QED BY <1>1, <2>1
<1>4. k = 0
  BY <1>2, <1>3
<1> QED BY <1>1, <1>4

LEMMA VanishingMod ==
    ASSUME NEW n \in Int
    PROVE  Vanishes(n) <=> n % Prime = 0
<1>1. PICK m \in Nat \ {0} : m = Prime
  BY Primes
<1>2. n % m \in 0..m - 1 /\ \E k \in Int : n = k * m + (n % m)
  BY ONLY n \in Int, m \in Nat \ {0}, Division
<1>3. n % m = 0 => Vanishes(n)
  BY <1>1, <1>2 DEF Vanishes
<1>4. ASSUME Vanishes(n) PROVE n % m = 0
  <2>1. PICK k \in Int : n = k * m + 0
    BY <1>1, <1>4 DEF Vanishes
  <2>2. (k * m + 0) % m = 0
    BY ONLY k \in Int, m \in Nat \ {0}, 0 \in 0..m - 1, RemainderUnique
  <2> QED BY <2>1, <2>2
<1> QED BY <1>1, <1>3, <1>4

(* Only zero vanishes among the residues.                                  *)
LEMMA NonzeroResidue ==
    ASSUME NEW a \in Residue
    PROVE  Vanishes(a) <=> a = 0
<1>1. 0 \in Residue /\ a \in Int
  BY Primes DEF Residue
<1>2. Vanishes(a) => a = 0
  <2>1. a = a - 0
    BY <1>1
  <2> QED BY <1>1, <2>1, SameResidue
<1>3. Vanishes(0)
  <2>1. 0 = 0 * Prime
    BY Primes
  <2> QED BY <2>1, 0 \in Int DEF Vanishes
<1> QED BY <1>2, <1>3

(* Over is division.                                                       *)
LEMMA OverDivides ==
    ASSUME NEW n \in Int, NEW d \in Int, ~Vanishes(d)
    PROVE  /\ Curve!Over(n, d) \in Residue /\ Curve!Over(n, d) \in Int
           /\ Vanishes(Curve!Over(n, d) * d - n)
<1>1. Curve!Over(n, d) \in Residue /\ Curve!Over(n, d) \in Int
  <2>1. Curve!Over(n, d) \in Residue
    BY OverIsResidue
  <2>2. Residue \subseteq Int
    BY Primes DEF Residue
  <2> QED BY <2>1, <2>2
<1>2. PICK e \in Int : e = Mod(d) /\ e \in 1..Prime - 1 /\ Vanishes(e - d)
  <2>1. Mod(d) # 0
    BY VanishingMod DEF Mod
  <2> QED BY <2>1, ModVanishes, ModIsResidue, Primes DEF Residue
<1>3. PICK i \in Int : i = Curve!InverseInField[e] /\ Mod(e * i) = 1
  BY <1>2, InFieldDefined DEF Residue, Mod
<1>4. PICK o \in Int : o = Curve!Over(n, d) /\ o = Mod(n * i)
  BY <1>1, <1>2, <1>3 DEF Curve!Over, Mod
<1>5. PICK a \in Int : a = o - n * i /\ Vanishes(a)
  BY <1>4, ModVanishes, n * i \in Int
<1>6. PICK b \in Int : b = 1 - e * i /\ Vanishes(b)
  BY <1>3, ModVanishes, e * i \in Int
<1>7. PICK c \in Int : c = e - d /\ Vanishes(c)
  BY <1>2
<1>8. Vanishes(d * a + (-n) * b + (-(n * i)) * c)
  BY ONLY <1>5, <1>6, <1>7, d \in Int, -n \in Int, -(n * i) \in Int, Combine3
<1>9. d * a + (-n) * b + (-(n * i)) * c = o * d - n
  BY <1>5, <1>6, <1>7
<1> QED BY <1>1, <1>4, <1>8, <1>9

LEMMA NoZeroDivisors ==
    ASSUME NEW a \in Int, NEW b \in Int, Vanishes(a * b)
    PROVE  Vanishes(a) \/ Vanishes(b)
<1> SUFFICES ASSUME ~Vanishes(a) PROVE Vanishes(b)
  OBVIOUS
<1>1. PICK i \in Int : i = Curve!Over(1, a) /\ Vanishes(i * a - 1)
  BY OverDivides, 1 \in Int
<1>2. PICK e \in Int, f \in Int : /\ e = i * a - 1 /\ Vanishes(e)
                                  /\ f = a * b /\ Vanishes(f)
  BY <1>1
<1>3. Vanishes((-b) * e + i * f)
  BY ONLY <1>2, -b \in Int, i \in Int, Combine2
<1>4. (-b) * e + i * f = b
  BY <1>2
<1> QED BY <1>3, <1>4

---------------------------------------------------------------------------
(* Projective points stand for affine ones.                                *)

LEMMA ResiduesAreInts == \A n \in Residue : n \in Int
BY Primes DEF Residue

(* x and y over z are the affine X and Y.                                  *)
Stands(p, X, Y) ==
    /\ p \in Point /\ ~Vanishes(p.z)
    /\ Vanishes(p.x - X * p.z) /\ Vanishes(p.y - Y * p.z)

(* The point on the line with that slope, in coordinates whose z is the    *)
(* third power of some u.                                                  *)
ThirdX(X1, X2, slope) == Mod(slope * slope - X1 - X2)

ThirdY(X1, Y1, X2, slope) == Mod(slope * (X1 - ThirdX(X1, X2, slope)) - Y1)

LEMMA ThirdDefined ==
    ASSUME NEW X1 \in Int, NEW Y1 \in Int, NEW X2 \in Int, NEW L \in Int
    PROVE  /\ ThirdX(X1, X2, L) \in Residue /\ ThirdX(X1, X2, L) \in Int
           /\ ThirdY(X1, Y1, X2, L) \in Residue /\ ThirdY(X1, Y1, X2, L) \in Int
           /\ Vanishes(ThirdX(X1, X2, L) - (L * L - X1 - X2))
           /\ Vanishes(ThirdY(X1, Y1, X2, L) - (L * (X1 - ThirdX(X1, X2, L)) - Y1))
<1>1. PICK n \in Int : n = L * L - X1 - X2
  OBVIOUS
<1>2. PICK x \in Int : x = Mod(n) /\ x \in Residue /\ Vanishes(x - n)
  BY ModIsResidue, ModVanishes
<1>3. PICK k \in Int : k = L * (X1 - x) - Y1
  OBVIOUS
<1>4. PICK y \in Int : y = Mod(k) /\ y \in Residue /\ Vanishes(y - k)
  BY ModIsResidue, ModVanishes
<1>5. x = ThirdX(X1, X2, L)
  BY <1>1, <1>2 DEF ThirdX
<1>6. y = ThirdY(X1, Y1, X2, L)
  BY <1>3, <1>4, <1>5 DEF ThirdY
<1> QED BY <1>1, <1>2, <1>3, <1>4, <1>5, <1>6

(* The chord is computed without division, by multiples of the affine      *)
(* coordinates and the affine slope.                                       *)
LEMMA ChordStands ==
    ASSUME NEW X1 \in Int, NEW Y1 \in Int, NEW X2 \in Int, NEW Y2 \in Int,
           NEW L \in Int, Vanishes(L * (X2 - X1) - (Y2 - Y1)), ~Vanishes(X1 - X2),
           NEW u0 \in Int, NEW u1 \in Int, NEW t0 \in Int, NEW t1 \in Int, NEW z \in Int,
           ~Vanishes(z),
           Vanishes(u0 - X1 * z), Vanishes(u1 - X2 * z),
           Vanishes(t0 - Y1 * z), Vanishes(t1 - Y2 * z)
    PROVE  Stands(Chord(u0, u1, t0, t1, z), ThirdX(X1, X2, L), ThirdY(X1, Y1, X2, L))
<1> DEFINE t  == Mod(t0 - t1)
           u  == Mod(u0 - u1)
           u2 == Mod(u * u)
           u3 == Mod(u2 * u)
           tt == Mod(t * t)
           w  == Mod(tt * z - u2 * (u0 + u1))
           d  == Mod(u0 * u2 - w)
           x  == Mod(u * w)
           y  == Mod(t * d - t0 * u3)
           zz == Mod(u3 * z)
           X3 == ThirdX(X1, X2, L)
           Y3 == ThirdY(X1, Y1, X2, L)
<1>0. Chord(u0, u1, t0, t1, z) = [x |-> x, y |-> y, z |-> zz]
  BY DEF Chord
<1>1. t \in Int /\ Vanishes(t - (t0 - t1)) /\ u \in Int /\ Vanishes(u - (u0 - u1))
  BY ModVanishes
<1> HIDE DEF t, u
<1>2. u2 \in Int /\ Vanishes(u2 - u * u) /\ tt \in Int /\ Vanishes(tt - t * t)
  BY <1>1, ModVanishes
<1> HIDE DEF u2, tt
<1>3. u3 \in Int /\ Vanishes(u3 - u2 * u) /\ w \in Int
      /\ Vanishes(w - (tt * z - u2 * (u0 + u1)))
  BY <1>1, <1>2, ModVanishes
<1> HIDE DEF u3, w
<1>4. d \in Int /\ Vanishes(d - (u0 * u2 - w))
  BY <1>2, <1>3, ModVanishes
<1> HIDE DEF d
<1>5. /\ x \in Int /\ Vanishes(x - u * w)
      /\ y \in Int /\ Vanishes(y - (t * d - t0 * u3))
      /\ zz \in Int /\ Vanishes(zz - u3 * z)
  BY <1>1, <1>3, <1>4, ModVanishes
<1>6. x \in Residue /\ y \in Residue /\ zz \in Residue
  BY <1>1, <1>3, <1>4, ModIsResidue
<1> HIDE DEF x, y, zz
<1>7. /\ X3 \in Int /\ Y3 \in Int
      /\ Vanishes(X3 - (L * L - X1 - X2)) /\ Vanishes(Y3 - (L * (X1 - X3) - Y1))
  BY ThirdDefined
<1> HIDE DEF X3, Y3
(* All differences by their names.                                         *)
<1>8. PICK a1 \in Int, a2 \in Int, a3 \in Int, a4 \in Int, a5 \in Int :
          /\ a1 = u0 - X1 * z /\ Vanishes(a1)
          /\ a2 = u1 - X2 * z /\ Vanishes(a2)
          /\ a3 = t0 - Y1 * z /\ Vanishes(a3)
          /\ a4 = t1 - Y2 * z /\ Vanishes(a4)
          /\ a5 = L * (X2 - X1) - (Y2 - Y1) /\ Vanishes(a5)
  OBVIOUS
<1>9. PICK b1 \in Int : b1 = u - (X1 - X2) * z /\ Vanishes(b1)
  <2>1. PICK e \in Int : e = u - (u0 - u1) /\ Vanishes(e)
    BY <1>1
  <2>2. Vanishes(1 * e + 1 * a1 + (-1) * a2)
    BY ONLY <1>8, <2>1, 1 \in Int, -1 \in Int, Combine3
  <2>3. 1 * e + 1 * a1 + (-1) * a2 = u - (X1 - X2) * z
    BY <1>1, <1>8, <2>1
  <2> QED BY <1>1, <2>2, <2>3
<1>10. PICK b2 \in Int : b2 = t - L * u /\ Vanishes(b2)
  <2>1. PICK e \in Int : e = t - (t0 - t1) /\ Vanishes(e)
    BY <1>1
  <2>2. PICK f \in Int : f = 1 * e + 1 * a3 + (-1) * a4 /\ Vanishes(f)
    <3>1. Vanishes(1 * e + 1 * a3 + (-1) * a4)
      BY ONLY <1>8, <2>1, 1 \in Int, -1 \in Int, Combine3
    <3> QED BY <3>1
  <2>3. Vanishes(1 * f + (-L) * b1 + z * a5)
    BY ONLY <1>8, <1>9, <2>2, 1 \in Int, -L \in Int, L \in Int, z \in Int, Combine3
  <2>4. 1 * f + (-L) * b1 + z * a5 = t - L * u
    BY <1>1, <1>8, <1>9, <2>1, <2>2
  <2> QED BY <1>1, <2>3, <2>4
<1>11. PICK b3 \in Int : b3 = u2 - u * u /\ Vanishes(b3)
  BY <1>1, <1>2
<1>12. PICK b4 \in Int : b4 = u3 - u * u * u /\ Vanishes(b4)
  <2>1. PICK e \in Int : e = u3 - u2 * u /\ Vanishes(e)
    BY <1>1, <1>2, <1>3
  <2>2. Vanishes(1 * e + u * b3)
    BY ONLY <1>1, <1>11, <2>1, 1 \in Int, Combine2
  <2>3. 1 * e + u * b3 = u3 - u * u * u
    BY <1>1, <1>2, <1>3, <1>11, <2>1
  <2> QED BY <1>1, <1>3, <2>2, <2>3
<1>13. PICK b5 \in Int : b5 = w - u * u * z * X3 /\ Vanishes(b5)
  <2>1. PICK e \in Int : e = w - (tt * z - u2 * (u0 + u1)) /\ Vanishes(e)
    BY <1>2, <1>3
  <2>2. PICK f \in Int : f = tt - t * t /\ Vanishes(f)
    BY <1>1, <1>2
  <2>3. PICK g \in Int : g = X3 - (L * L - X1 - X2) /\ Vanishes(g)
    BY <1>7
  <2>4. PICK h \in Int : /\ h = 1 * e + z * f + (z * (t + L * u)) * b2 + (-(u0 + u1)) * b3
                         /\ Vanishes(h)
    <3>1. PICK i \in Int, j \in Int : i = z * (t + L * u) /\ j = -(u0 + u1)
      BY <1>1
    <3>2. Vanishes(1 * e + z * f + i * b2 + j * b3)
      BY ONLY <1>10, <1>11, <2>1, <2>2, 1 \in Int, z \in Int, Combine4
    <3> QED BY <3>1, <3>2
  <2>5. Vanishes(1 * h + (-(u * u)) * a1 + (-(u * u)) * a2 + (-(u * u * z)) * g)
    <3>1. PICK i \in Int, j \in Int : i = -(u * u) /\ j = -(u * u * z)
      BY <1>1
    <3>2. Vanishes(1 * h + i * a1 + i * a2 + j * g)
      BY ONLY <1>8, <2>3, <2>4, 1 \in Int, Combine4
    <3> QED BY <3>1, <3>2
  <2>6. 1 * h + (-(u * u)) * a1 + (-(u * u)) * a2 + (-(u * u * z)) * g = w - u * u * z * X3
    BY <1>1, <1>2, <1>3, <1>7, <1>8, <1>10, <1>11, <2>1, <2>2, <2>3, <2>4
  <2> QED BY <1>1, <1>3, <1>7, <2>5, <2>6
<1>14. PICK b6 \in Int : b6 = zz - u * u * u * z /\ Vanishes(b6)
  <2>1. PICK e \in Int : e = zz - u3 * z /\ Vanishes(e)
    BY <1>3, <1>5
  <2>2. Vanishes(1 * e + z * b4)
    BY ONLY <1>12, <2>1, 1 \in Int, z \in Int, Combine2
  <2>3. 1 * e + z * b4 = zz - u * u * u * z
    BY <1>1, <1>3, <1>5, <1>12, <2>1
  <2> QED BY <1>1, <1>5, <2>2, <2>3
<1>15. ~Vanishes(zz)
  <2>1. ~Vanishes(u)
    <3> SUFFICES ASSUME Vanishes(u) PROVE FALSE
      OBVIOUS
    <3>1. Vanishes(1 * u + (-1) * b1)
      BY ONLY <1>1, <1>9, Vanishes(u), 1 \in Int, -1 \in Int, Combine2
    <3>2. 1 * u + (-1) * b1 = (X1 - X2) * z
      BY <1>1, <1>9
    <3>3. X1 - X2 \in Int
      OBVIOUS
    <3> QED BY <3>1, <3>2, <3>3, NoZeroDivisors
  <2>2. PICK c \in Int : c = u * u /\ ~Vanishes(c)
    BY <1>1, <2>1, NoZeroDivisors
  <2>3. PICK e \in Int : e = c * u /\ ~Vanishes(e)
    BY <1>1, <2>1, <2>2, NoZeroDivisors
  <2>4. ~Vanishes(e * z)
    BY <2>3, NoZeroDivisors
  <2> SUFFICES ASSUME Vanishes(zz) PROVE FALSE
    OBVIOUS
  <2>5. Vanishes(1 * zz + (-1) * b6)
    BY ONLY <1>5, <1>14, Vanishes(zz), 1 \in Int, -1 \in Int, Combine2
  <2>6. 1 * zz + (-1) * b6 = e * z
    BY <1>1, <1>5, <1>14, <2>2, <2>3
  <2> QED BY <2>4, <2>5, <2>6
<1>16. Vanishes(x - X3 * zz)
  <2>1. PICK e \in Int : e = x - u * w /\ Vanishes(e)
    BY <1>1, <1>3, <1>5
  <2>2. Vanishes(1 * e + u * b5 + (-X3) * b6)
    BY ONLY <1>1, <1>7, <1>13, <1>14, <2>1, 1 \in Int, -X3 \in Int, Combine3
  <2>3. 1 * e + u * b5 + (-X3) * b6 = x - X3 * zz
    BY <1>1, <1>3, <1>5, <1>7, <1>13, <1>14, <2>1
  <2> QED BY <2>2, <2>3
<1>17. PICK b7 \in Int : b7 = d - u * u * z * (X1 - X3) /\ Vanishes(b7)
  <2>1. PICK e \in Int : e = d - (u0 * u2 - w) /\ Vanishes(e)
    BY <1>2, <1>3, <1>4
  <2>2. Vanishes(1 * e + u0 * b3 + (u * u) * a1 + (-1) * b5)
    <3>1. u * u \in Int
      BY <1>1
    <3> QED BY ONLY <1>8, <1>11, <1>13, <2>1, <3>1, 1 \in Int, -1 \in Int, u0 \in Int, Combine4
  <2>3. 1 * e + u0 * b3 + (u * u) * a1 + (-1) * b5 = d - u * u * z * (X1 - X3)
    BY <1>1, <1>2, <1>3, <1>4, <1>7, <1>8, <1>11, <1>13, <2>1
  <2> QED BY <1>1, <1>4, <1>7, <2>2, <2>3
<1>18. Vanishes(y - Y3 * zz)
  <2>1. PICK e \in Int : e = y - (t * d - t0 * u3) /\ Vanishes(e)
    BY <1>1, <1>3, <1>4, <1>5
  <2>2. PICK f \in Int : f = Y3 - (L * (X1 - X3) - Y1) /\ Vanishes(f)
    BY <1>7
  <2>3. PICK g \in Int : /\ g = 1 * e + d * b2 + (L * u) * b7 + (-u3) * a3
                         /\ Vanishes(g)
    <3>1. PICK i \in Int, j \in Int : i = L * u /\ j = -u3
      BY <1>1, <1>3
    <3>2. Vanishes(1 * e + d * b2 + i * b7 + j * a3)
      BY ONLY <1>4, <1>8, <1>10, <1>17, <2>1, 1 \in Int, Combine4
    <3>3. PICK g \in Int : g = 1 * e + d * b2 + i * b7 + j * a3
      BY <1>4
    <3>4. Vanishes(g) /\ g = 1 * e + d * b2 + (L * u) * b7 + (-u3) * a3
      BY <3>1, <3>2, <3>3
    <3> QED BY <3>4
  <2>4. Vanishes(1 * g + (-(Y1 * z)) * b4 + (-Y3) * b6 + (-(u * u * u * z)) * f)
    <3>1. -(Y1 * z) \in Int /\ -Y3 \in Int /\ -(u * u * u * z) \in Int
      BY <1>1, <1>7
    <3> QED BY ONLY <1>12, <1>14, <2>2, <2>3, <3>1, 1 \in Int, Combine4
  <2>5. 1 * g + (-(Y1 * z)) * b4 + (-Y3) * b6 + (-(u * u * u * z)) * f = y - Y3 * zz
    BY <1>1, <1>3, <1>4, <1>5, <1>7, <1>8, <1>10, <1>12, <1>14, <1>17, <2>1, <2>2, <2>3
  <2> QED BY <2>4, <2>5
<1> QED BY <1>0, <1>6, <1>15, <1>16, <1>18 DEF Stands, Point, X3, Y3

LEMMA TwoStays == ~Vanishes(2)
<1>1. 2 \in Residue
  BY Primes DEF Residue
<1> QED BY <1>1, NonzeroResidue

(* Doubling a point, with the slope of the tangent.                        *)
LEMMA TwiceStands ==
    ASSUME NEW p, NEW X \in Int, NEW Y \in Int, Stands(p, X, Y), ~Vanishes(Y),
           NEW L \in Int, Vanishes(L * (2 * Y) - 3 * X * X)
    PROVE  Stands(Twice(p), ThirdX(X, X, L), ThirdY(X, Y, X, L))
<1>1. PICK x0 \in Int, y0 \in Int, z0 \in Int :
          /\ x0 = p.x /\ y0 = p.y /\ z0 = p.z
          /\ ~Vanishes(z0) /\ Vanishes(x0 - X * z0) /\ Vanishes(y0 - Y * z0)
  BY ResiduesAreInts DEF Stands, Point
<1> DEFINE u  == Mod(2 * y0 * z0)
           ux == Mod(u * x0)
           v  == Mod(2 * ux * y0)
           t  == Mod(3 * x0 * x0)
           w  == Mod(t * t - 2 * v)
           uy == Mod(u * y0)
           x  == Mod(u * w)
           y  == Mod(t * (v - w) - 2 * uy * uy)
           uu == Mod(u * u)
           zz == Mod(uu * u)
           X3 == ThirdX(X, X, L)
           Y3 == ThirdY(X, Y, X, L)
<1>2. ~IsZero(p) /\ p.y # 0
  <2>1. p.z # 0
    <3>1. p.z \in Residue
      BY DEF Stands, Point
    <3> QED BY <1>1, <3>1, NonzeroResidue
  <2>2. p.y # 0
    <3> SUFFICES ASSUME y0 = 0 PROVE FALSE
      BY <1>1
    <3>1. PICK a \in Int : a = y0 - Y * z0 /\ Vanishes(a)
      BY <1>1
    <3>2. Vanishes((-1) * a + 0 * a)
      BY ONLY <3>1, -1 \in Int, 0 \in Int, Combine2
    <3>3. (-1) * a + 0 * a = Y * z0
      BY <3>1
    <3> QED BY <1>1, <3>2, <3>3, NoZeroDivisors
  <2> QED BY <2>1, <2>2 DEF IsZero
<1>3. Twice(p) = [x |-> x, y |-> y, z |-> zz]
  BY <1>1, <1>2 DEF Twice
<1>4. u \in Int /\ Vanishes(u - 2 * y0 * z0) /\ t \in Int /\ Vanishes(t - 3 * x0 * x0)
  BY ModVanishes
<1> HIDE DEF u, t
<1>5. /\ ux \in Int /\ Vanishes(ux - u * x0) /\ uy \in Int /\ Vanishes(uy - u * y0)
      /\ uu \in Int /\ Vanishes(uu - u * u)
  BY <1>4, ModVanishes
<1> HIDE DEF ux, uy, uu
<1>6. v \in Int /\ Vanishes(v - 2 * ux * y0)
  BY <1>5, ModVanishes
<1> HIDE DEF v
<1>7. w \in Int /\ Vanishes(w - (t * t - 2 * v))
  BY <1>4, <1>6, ModVanishes
<1> HIDE DEF w
<1>8. /\ x \in Int /\ Vanishes(x - u * w)
      /\ y \in Int /\ Vanishes(y - (t * (v - w) - 2 * uy * uy))
      /\ zz \in Int /\ Vanishes(zz - uu * u)
  BY <1>4, <1>5, <1>6, <1>7, ModVanishes
<1>9. x \in Residue /\ y \in Residue /\ zz \in Residue
  BY <1>4, <1>5, <1>6, <1>7, ModIsResidue
<1> HIDE DEF x, y, zz
<1>10. /\ X3 \in Int /\ Y3 \in Int
       /\ Vanishes(X3 - (L * L - X - X)) /\ Vanishes(Y3 - (L * (X - X3) - Y))
  BY ThirdDefined
<1> HIDE DEF X3, Y3
<1>11. PICK a1 \in Int, a2 \in Int, a3 \in Int, e1 \in Int :
          /\ a1 = x0 - X * z0 /\ Vanishes(a1)
          /\ a2 = y0 - Y * z0 /\ Vanishes(a2)
          /\ a3 = L * (2 * Y) - 3 * X * X /\ Vanishes(a3)
          /\ e1 = u - 2 * y0 * z0 /\ Vanishes(e1)
  <2>1. PICK e1 \in Int : e1 = u - 2 * y0 * z0 /\ Vanishes(e1)
    BY <1>4
  <2>2. PICK a1 \in Int, a2 \in Int : /\ a1 = x0 - X * z0 /\ Vanishes(a1)
                                      /\ a2 = y0 - Y * z0 /\ Vanishes(a2)
    BY <1>1
  <2>3. PICK a3 \in Int : a3 = L * (2 * Y) - 3 * X * X /\ Vanishes(a3)
    OBVIOUS
  <2> QED BY <2>1, <2>2, <2>3
<1>12. PICK b1 \in Int : b1 = u - 2 * Y * z0 * z0 /\ Vanishes(b1)
  <2>1. PICK i \in Int : i = 2 * z0
    OBVIOUS
  <2>2. Vanishes(1 * e1 + i * a2)
    BY ONLY <1>11, <2>1, 1 \in Int, Combine2
  <2>3. 1 * e1 + i * a2 = u - 2 * Y * z0 * z0
    BY <1>4, <1>11, <2>1
  <2> QED BY <1>4, <2>2, <2>3
<1>13. PICK b2 \in Int : b2 = t - L * u /\ Vanishes(b2)
  <2>1. PICK e \in Int : e = t - 3 * x0 * x0 /\ Vanishes(e)
    BY <1>4
  <2>2. PICK i \in Int, j \in Int : i = 3 * (x0 + X * z0) /\ j = -(z0 * z0)
    OBVIOUS
  <2>3. Vanishes(1 * e + i * a1 + j * a3 + (-L) * b1)
    BY ONLY <1>11, <1>12, <2>1, <2>2, 1 \in Int, L \in Int, -L \in Int, Combine4
  <2>4. 1 * e + i * a1 + j * a3 + (-L) * b1 = t - L * u
    BY <1>4, <1>11, <1>12, <2>1, <2>2
  <2> QED BY <1>4, <2>3, <2>4
<1>14. PICK b3 \in Int : b3 = v - u * u * X /\ Vanishes(b3)
  <2>1. PICK e \in Int, f \in Int : /\ e = v - 2 * ux * y0 /\ Vanishes(e)
                                    /\ f = ux - u * x0 /\ Vanishes(f)
    BY <1>4, <1>5, <1>6
  <2>2. PICK i \in Int, j \in Int, k \in Int : i = 2 * y0 /\ j = 2 * u * y0 /\ k = -(u * X)
    BY <1>4
  <2>3. Vanishes(1 * e + i * f + j * a1 + k * e1)
    BY ONLY <1>11, <2>1, <2>2, 1 \in Int, Combine4
  <2>4. 1 * e + i * f + j * a1 + k * e1 = v - u * u * X
    BY <1>4, <1>5, <1>6, <1>11, <2>1, <2>2
  <2> QED BY <1>4, <1>6, <2>3, <2>4
<1>15. PICK b4 \in Int : b4 = w - u * u * X3 /\ Vanishes(b4)
  <2>1. PICK e \in Int, g \in Int : /\ e = w - (t * t - 2 * v) /\ Vanishes(e)
                                    /\ g = X3 - (L * L - X - X) /\ Vanishes(g)
    BY <1>4, <1>6, <1>7, <1>10
  <2>2. PICK i \in Int, j \in Int : i = t + L * u /\ j = -(u * u)
    BY <1>4
  <2>3. Vanishes(1 * e + i * b2 + (-2) * b3 + j * g)
    BY ONLY <1>13, <1>14, <2>1, <2>2, 1 \in Int, -2 \in Int, Combine4
  <2>4. 1 * e + i * b2 + (-2) * b3 + j * g = w - u * u * X3
    BY <1>4, <1>6, <1>7, <1>10, <1>13, <1>14, <2>1, <2>2
  <2> QED BY <1>4, <1>7, <1>10, <2>3, <2>4
<1>16. PICK b5 \in Int : b5 = zz - u * u * u /\ Vanishes(b5)
  <2>1. PICK e \in Int, f \in Int : /\ e = zz - uu * u /\ Vanishes(e)
                                    /\ f = uu - u * u /\ Vanishes(f)
    BY <1>4, <1>5, <1>8
  <2>2. Vanishes(1 * e + u * f)
    BY ONLY <1>4, <2>1, 1 \in Int, Combine2
  <2>3. 1 * e + u * f = zz - u * u * u
    BY <1>4, <1>5, <1>8, <2>1
  <2> QED BY <1>4, <1>8, <2>2, <2>3
<1>17. ~Vanishes(zz)
  <2>1. ~Vanishes(u)
    <3> SUFFICES ASSUME Vanishes(u) PROVE FALSE
      OBVIOUS
    <3>1. Vanishes(1 * u + (-1) * b1)
      BY ONLY <1>4, <1>12, Vanishes(u), 1 \in Int, -1 \in Int, Combine2
    <3>2. PICK i \in Int : i = 2 * Y /\ ~Vanishes(i)
      BY TwoStays, NoZeroDivisors
    <3>3. PICK j \in Int : j = i * z0 /\ ~Vanishes(j)
      <4>1. ~Vanishes(i * z0)
        BY ONLY <1>1, <3>2, NoZeroDivisors
      <4> QED BY <4>1
    <3>4. ~Vanishes(j * z0)
      BY <1>1, <3>3, NoZeroDivisors
    <3>5. 1 * u + (-1) * b1 = j * z0
      BY <1>4, <1>12, <3>2, <3>3
    <3> QED BY <3>1, <3>4, <3>5
  <2>2. PICK c \in Int : c = u * u /\ ~Vanishes(c)
    BY <1>4, <2>1, NoZeroDivisors
  <2>3. ~Vanishes(c * u)
    BY <1>4, <2>1, <2>2, NoZeroDivisors
  <2> SUFFICES ASSUME Vanishes(zz) PROVE FALSE
    OBVIOUS
  <2>4. Vanishes(1 * zz + (-1) * b5)
    BY ONLY <1>8, <1>16, Vanishes(zz), 1 \in Int, -1 \in Int, Combine2
  <2>5. 1 * zz + (-1) * b5 = c * u
    BY <1>4, <1>8, <1>16, <2>2
  <2> QED BY <2>3, <2>4, <2>5
<1>18. Vanishes(x - X3 * zz)
  <2>1. PICK e \in Int : e = x - u * w /\ Vanishes(e)
    BY <1>4, <1>7, <1>8
  <2>2. Vanishes(1 * e + u * b4 + (-X3) * b5)
    BY ONLY <1>4, <1>10, <1>15, <1>16, <2>1, 1 \in Int, -X3 \in Int, Combine3
  <2>3. 1 * e + u * b4 + (-X3) * b5 = x - X3 * zz
    BY <1>4, <1>7, <1>8, <1>10, <1>15, <1>16, <2>1
  <2> QED BY <2>2, <2>3
<1>19. PICK b6 \in Int : b6 = 2 * uy * uy - u * u * u * Y /\ Vanishes(b6)
  <2>1. PICK e \in Int : e = uy - u * y0 /\ Vanishes(e)
    BY <1>4, <1>5
  <2>2. PICK i \in Int, j \in Int, k \in Int :
            i = 2 * (uy + u * y0) /\ j = 2 * u * u * y0 /\ k = -(u * u * Y)
    BY <1>4, <1>5
  <2>3. Vanishes(i * e + j * a2 + k * e1)
    BY ONLY <1>11, <2>1, <2>2, Combine3
  <2>4. i * e + j * a2 + k * e1 = 2 * uy * uy - u * u * u * Y
    BY <1>4, <1>5, <1>11, <2>1, <2>2
  <2> QED BY <1>4, <1>5, <2>3, <2>4
<1>20. Vanishes(y - Y3 * zz)
  <2>1. PICK e \in Int, f \in Int : /\ e = y - (t * (v - w) - 2 * uy * uy) /\ Vanishes(e)
                                    /\ f = Y3 - (L * (X - X3) - Y) /\ Vanishes(f)
    BY <1>4, <1>5, <1>6, <1>7, <1>8, <1>10
  <2>2. PICK i \in Int, j \in Int, k \in Int, l \in Int :
            i = v - w /\ j = L * u /\ k = -(L * u) /\ l = -(u * u * u)
    BY <1>4, <1>6, <1>7
  <2>3. PICK g \in Int : g = 1 * e + i * b2 + j * b3 + k * b4
    OBVIOUS
  <2>4. Vanishes(g)
    <3>1. Vanishes(1 * e + i * b2 + j * b3 + k * b4)
      BY ONLY <1>13, <1>14, <1>15, <2>1, <2>2, 1 \in Int, Combine4
    <3> QED BY <2>3, <3>1
  <2>5. Vanishes(1 * g + (-1) * b6 + (-Y3) * b5 + l * f)
    BY ONLY <1>10, <1>16, <1>19, <2>1, <2>2, <2>3, <2>4, 1 \in Int, -1 \in Int, -Y3 \in Int,
            Combine4
  <2>6. 1 * g + (-1) * b6 + (-Y3) * b5 + l * f = y - Y3 * zz
    BY <1>4, <1>5, <1>6, <1>7, <1>8, <1>10, <1>13, <1>14, <1>15, <1>16, <1>19, <2>1, <2>2, <2>3
  <2> QED BY <2>5, <2>6
<1> QED BY <1>3, <1>9, <1>17, <1>18, <1>20 DEF Stands, Point, X3, Y3

OnCurve(X, Y) == Vanishes(Y * Y - X * X * X - B)

LEMMA BIsInt == B \in Int /\ 0 \in Residue /\ 1 \in Residue
BY Primes, CurveAssumption DEF Curve!IsCurve, Residue

(* The third intersection of a line with the curve is on the curve, if the *)
(* line meets the curve in X1 and in X2 (or in X1 twice).                  *)
LEMMA ThirdOnCurve ==
    ASSUME NEW X1 \in Int, NEW Y1 \in Int, NEW X2 \in Int, NEW L \in Int,
           OnCurve(X1, Y1),
           Vanishes(X2 * X2 + X2 * X1 + X1 * X1 - L * L * (X2 - X1) - 2 * L * Y1)
    PROVE  OnCurve(ThirdX(X1, X2, L), ThirdY(X1, Y1, X2, L))
<1>1. PICK b \in Int : b = B
  BY BIsInt
<1>2. PICK X3 \in Int, Y3 \in Int :
          /\ X3 = ThirdX(X1, X2, L) /\ Y3 = ThirdY(X1, Y1, X2, L)
          /\ Vanishes(X3 - (L * L - X1 - X2)) /\ Vanishes(Y3 - (L * (X1 - X3) - Y1))
  BY ThirdDefined
<1>3. PICK c \in Int : c = Y1 * Y1 - X1 * X1 * X1 - b /\ Vanishes(c)
  BY <1>1 DEF OnCurve
<1>4. PICK d \in Int : /\ d = X2 * X2 + X2 * X1 + X1 * X1 - L * L * (X2 - X1) - 2 * L * Y1
                       /\ Vanishes(d)
  OBVIOUS
<1>5. PICK e \in Int, f \in Int : /\ e = X3 - (L * L - X1 - X2) /\ Vanishes(e)
                                  /\ f = Y3 - (L * (X1 - X3) - Y1) /\ Vanishes(f)
  BY <1>2
<1>6. PICK i \in Int, j \in Int, k \in Int :
          /\ i = Y3 + (L * (X1 - X3) - Y1)
          /\ j = -(X3 - X1) /\ k = -((X3 - X1) * (X3 - X2))
  OBVIOUS
<1>7. Vanishes(1 * c + i * f + j * d + k * e)
  BY ONLY <1>3, <1>4, <1>5, <1>6, 1 \in Int, Combine4
<1>8. 1 * c + i * f + j * d + k * e = Y3 * Y3 - X3 * X3 * X3 - b
  BY <1>3, <1>4, <1>5, <1>6
<1> QED BY <1>1, <1>2, <1>7, <1>8 DEF OnCurve

(* The chord does, and the tangent.                                        *)
LEMMA ChordMeets ==
    ASSUME NEW X1 \in Int, NEW Y1 \in Int, NEW X2 \in Int, NEW Y2 \in Int, NEW L \in Int,
           OnCurve(X1, Y1), OnCurve(X2, Y2), ~Vanishes(X2 - X1),
           Vanishes(L * (X2 - X1) - (Y2 - Y1))
    PROVE  Vanishes(X2 * X2 + X2 * X1 + X1 * X1 - L * L * (X2 - X1) - 2 * L * Y1)
<1>1. PICK b \in Int : b = B
  BY BIsInt
<1>2. PICK c \in Int, d \in Int : /\ c = Y1 * Y1 - X1 * X1 * X1 - b /\ Vanishes(c)
                                  /\ d = Y2 * Y2 - X2 * X2 * X2 - b /\ Vanishes(d)
  BY <1>1 DEF OnCurve
<1>3. PICK a \in Int : a = L * (X2 - X1) - (Y2 - Y1) /\ Vanishes(a)
  OBVIOUS
<1>4. PICK i \in Int : i = -(2 * Y2 + a)
  OBVIOUS
<1>5. Vanishes(1 * c + (-1) * d + i * a)
  BY ONLY <1>2, <1>3, <1>4, 1 \in Int, -1 \in Int, Combine3
<1>6. PICK g \in Int : g = X2 * X2 + X2 * X1 + X1 * X1 - L * L * (X2 - X1) - 2 * L * Y1
  OBVIOUS
<1>7. 1 * c + (-1) * d + i * a = (X2 - X1) * g
  BY <1>2, <1>3, <1>4, <1>6
<1>8. Vanishes(g)
  <2>1. PICK h \in Int : h = X2 - X1 /\ ~Vanishes(h)
    OBVIOUS
  <2>2. Vanishes(h * g)
    BY <1>5, <1>7, <2>1
  <2> QED BY ONLY <1>6, <2>1, <2>2, NoZeroDivisors
<1> QED BY <1>6, <1>8

LEMMA ChordOnCurve ==
    ASSUME NEW X1 \in Int, NEW Y1 \in Int, NEW X2 \in Int, NEW Y2 \in Int, NEW L \in Int,
           OnCurve(X1, Y1), OnCurve(X2, Y2), ~Vanishes(X2 - X1),
           Vanishes(L * (X2 - X1) - (Y2 - Y1))
    PROVE  OnCurve(ThirdX(X1, X2, L), ThirdY(X1, Y1, X2, L))
<1>1. Vanishes(X2 * X2 + X2 * X1 + X1 * X1 - L * L * (X2 - X1) - 2 * L * Y1)
  BY ChordMeets
<1> QED BY <1>1, ThirdOnCurve

LEMMA TangentMeets ==
    ASSUME NEW X \in Int, NEW Y \in Int, NEW L \in Int, Vanishes(L * (2 * Y) - 3 * X * X)
    PROVE  Vanishes(X * X + X * X + X * X - L * L * (X - X) - 2 * L * Y)
<1>1. PICK a \in Int : a = L * (2 * Y) - 3 * X * X /\ Vanishes(a)
  OBVIOUS
<1>2. Vanishes((-1) * a + 0 * a)
  BY ONLY <1>1, -1 \in Int, 0 \in Int, Combine2
<1>3. (-1) * a + 0 * a = X * X + X * X + X * X - L * L * (X - X) - 2 * L * Y
  BY <1>1
<1> QED BY <1>2, <1>3

LEMMA TangentOnCurve ==
    ASSUME NEW X \in Int, NEW Y \in Int, NEW L \in Int,
           OnCurve(X, Y), Vanishes(L * (2 * Y) - 3 * X * X)
    PROVE  OnCurve(ThirdX(X, X, L), ThirdY(X, Y, X, L))
<1>1. Vanishes(X * X + X * X + X * X - L * L * (X - X) - 2 * L * Y)
  BY TangentMeets
<1> QED BY <1>1, ThirdOnCurve

---------------------------------------------------------------------------
(* The affine law, case by case.                                           *)

LEMMA Negated ==
    ASSUME NEW Y \in Residue
    PROVE  (-Y) % Prime = IF Y = 0 THEN 0 ELSE Prime - Y
<1>1. PICK m \in Nat \ {0}, y \in Int : m = Prime /\ y = Y /\ 0 <= y /\ y < m
  BY Primes DEF Residue
<1>2. CASE y = 0
  <2>1. (0 * m + 0) % m = 0
    BY ONLY m \in Nat \ {0}, 0 \in Int, 0 \in 0..m - 1, RemainderUnique
  <2>2. -y = 0 * m + 0
    BY <1>2
  <2> QED BY <1>1, <1>2, <2>1, <2>2
<1>3. CASE y # 0
  <2>1. PICK e \in 0..m - 1 : e = m - y
    BY <1>1, <1>3
  <2>2. ((-1) * m + e) % m = e
    BY ONLY m \in Nat \ {0}, -1 \in Int, e \in 0..m - 1, RemainderUnique
  <2>3. -y = (-1) * m + e
    BY <2>1
  <2> QED BY <1>1, <1>3, <2>1, <2>2, <2>3
<1> QED BY <1>2, <1>3

LEMMA NegatedVanishes ==
    ASSUME NEW Y1 \in Residue, NEW Y2 \in Residue
    PROVE  Y1 = (-Y2) % Prime <=> Vanishes(Y1 + Y2)
<1>1. PICK y \in Residue : y = (-Y2) % Prime /\ Vanishes(y + Y2)
  <2>1. PICK y \in Int : y = Mod(-Y2) /\ y \in Residue /\ Vanishes(y - (-Y2))
    BY ModVanishes, ModIsResidue, ResiduesAreInts
  <2>2. y - (-Y2) = y + Y2
    BY ResiduesAreInts
  <2> QED BY <2>1, <2>2 DEF Mod
<1>2. Y1 \in Int /\ Y2 \in Int /\ y \in Int
  BY ResiduesAreInts
<1>3. ASSUME Vanishes(Y1 + Y2) PROVE Y1 = y
  <2>1. PICK a \in Int, b \in Int : a = Y1 + Y2 /\ Vanishes(a) /\ b = y + Y2 /\ Vanishes(b)
    BY <1>1, <1>2, <1>3
  <2>2. Vanishes(1 * a + (-1) * b)
    BY ONLY <2>1, 1 \in Int, -1 \in Int, Combine2
  <2>3. 1 * a + (-1) * b = Y1 - y
    BY <1>2, <2>1
  <2> QED BY <2>2, <2>3, SameResidue
<1> QED BY <1>1, <1>3

Slope(X1, Y1, X2, Y2) == Curve!Over(Y2 - Y1, X2 - X1)
Tangent(X, Y) == Curve!Over(3 * X * X + 0, 2 * Y)

LEMMA PlusCases ==
    ASSUME NEW X1 \in Residue, NEW Y1 \in Residue, NEW X2 \in Residue, NEW Y2 \in Residue
    PROVE  /\ X1 # X2 => Curve!Plus(<<X1, Y1>>, <<X2, Y2>>) =
                           << ThirdX(X1, X2, Slope(X1, Y1, X2, Y2)),
                              ThirdY(X1, Y1, X2, Slope(X1, Y1, X2, Y2)) >>
           /\ X1 = X2 /\ Vanishes(Y1 + Y2) =>
                 Curve!Plus(<<X1, Y1>>, <<X2, Y2>>) = Curve!Identity
           /\ X1 = X2 /\ Y1 = Y2 /\ ~Vanishes(Y1 + Y2) =>
                 Curve!Plus(<<X1, Y1>>, <<X2, Y2>>) =
                   << ThirdX(X1, X1, Tangent(X1, Y1)), ThirdY(X1, Y1, X1, Tangent(X1, Y1)) >>
<1> DEFINE P == <<X1, Y1>>
           Q == <<X2, Y2>>
<1>1. /\ P # Curve!Identity /\ Q # Curve!Identity
      /\ Curve!Inverted(Q) = <<X2, (-Y2) % Prime>>
      /\ P = Curve!Inverted(Q) <=> X1 = X2 /\ Vanishes(Y1 + Y2)
  <2>1. P # Curve!Identity /\ Q # Curve!Identity
    BY DEF Curve!Identity
  <2>2. Curve!Inverted(Q) = <<X2, (-Y2) % Prime>>
    BY <2>1 DEF Curve!Inverted
  <2> QED BY <2>1, <2>2, NegatedVanishes
<1>2. P = Q <=> X1 = X2 /\ Y1 = Y2
  OBVIOUS
<1>3. ASSUME X1 # X2
      PROVE  Curve!Plus(P, Q) = Curve!OnLine(P, Q, Slope(X1, Y1, X2, Y2))
  <2>1. P # Q /\ P # Curve!Inverted(Q)
    BY <1>1, <1>2, <1>3
  <2>2. Curve!Plus(P, Q) = Curve!OnLine(P, Q, Curve!Over(Q[2] - P[2], Q[1] - P[1]))
    <3> HIDE DEF P, Q
    <3> QED BY <1>1, <2>1 DEF Curve!Plus
  <2> QED BY <2>2 DEF Slope
<1>4. ASSUME X1 = X2, Vanishes(Y1 + Y2) PROVE Curve!Plus(P, Q) = Curve!Identity
  <2>1. P = Curve!Inverted(Q)
    BY <1>1, <1>4
  <2> HIDE DEF P, Q
  <2> QED BY <1>1, <2>1 DEF Curve!Plus
<1>5. ASSUME X1 = X2, Y1 = Y2, ~Vanishes(Y1 + Y2)
      PROVE  Curve!Plus(P, Q) = Curve!OnLine(P, P, Tangent(X1, Y1))
  <2>1. P = Q /\ P # Curve!Inverted(Q) /\ P # Curve!Inverted(P)
    BY <1>1, <1>2, <1>5
  <2>2. Curve!Plus(P, Q) = Curve!Double(P)
    <3> HIDE DEF P, Q
    <3> QED BY <1>1, <2>1 DEF Curve!Plus
  <2>3. Curve!Double(P) = Curve!OnLine(P, P, Curve!Over(3 * P[1] * P[1] + 0, 2 * P[2]))
    <3> HIDE DEF P, Q
    <3> QED BY <2>1 DEF Curve!Double
  <2> QED BY <2>2, <2>3 DEF Tangent
<1>6. ASSUME NEW L
      PROVE  /\ Curve!OnLine(P, Q, L) = <<ThirdX(X1, X2, L), ThirdY(X1, Y1, X2, L)>>
             /\ Curve!OnLine(P, P, L) = <<ThirdX(X1, X1, L), ThirdY(X1, Y1, X1, L)>>
  BY DEF Curve!OnLine, ThirdX, ThirdY, Mod
<1> QED BY <1>3, <1>4, <1>5, <1>6

(* The points of the curve, and what stands for them.                      *)
CurvePoints ==
    {Curve!Identity} \cup {P \in Residue \X Residue : OnCurve(P[1], P[2])}

Represents(p, P) ==
    \/ p \in Point /\ IsZero(p) /\ P = Curve!Identity
    \/ \E X, Y \in Residue : P = <<X, Y>> /\ OnCurve(X, Y) /\ Stands(p, X, Y)

LEMMA RepresentsPoint ==
    ASSUME NEW p, NEW P, Represents(p, P)
    PROVE  p \in Point /\ P \in CurvePoints
BY DEF Represents, Stands, CurvePoints

LEMMA ZeroStands == Represents(ZERO, Curve!Identity)
<1>1. ZERO \in Point
  BY BIsInt DEF ZERO, Point
<1> QED BY <1>1 DEF Represents, IsZero, ZERO

LEMMA DoubledY ==
    ASSUME NEW Y \in Residue
    PROVE  Vanishes(Y + Y) <=> Y = 0
<1>1. Y \in Int /\ Y + Y = 2 * Y
  BY ResiduesAreInts
<1>2. Y = 0 => Vanishes(Y + Y)
  <2>1. 0 = 0 * Prime /\ 0 \in Int
    BY Primes
  <2> QED BY <2>1 DEF Vanishes
<1>3. Vanishes(2 * Y) => Y = 0
  BY <1>1, TwoStays, NoZeroDivisors, NonzeroResidue
<1> QED BY <1>1, <1>2, <1>3

(* Doubling a representative doubles the point.                            *)
LEMMA TwiceRepresents ==
    ASSUME NEW p, NEW P, Represents(p, P)
    PROVE  Represents(Twice(p), Curve!Plus(P, P))
<1>1. CASE IsZero(p) /\ P = Curve!Identity
  <2>1. Twice(p) = ZERO
    BY <1>1 DEF Twice
  <2>2. Curve!Plus(P, P) = Curve!Identity
    BY <1>1 DEF Curve!Plus, Curve!Inverted
  <2> QED BY <2>1, <2>2, ZeroStands
<1>2. ASSUME NEW X \in Residue, NEW Y \in Residue, P = <<X, Y>>, OnCurve(X, Y), Stands(p, X, Y)
      PROVE  Represents(Twice(p), Curve!Plus(P, P))
  <2>1. X \in Int /\ Y \in Int
    BY ResiduesAreInts
  <2>2. CASE Y = 0
    <3>1. Curve!Plus(P, P) = Curve!Identity
      BY <1>2, <2>2, DoubledY, PlusCases
    <3>2. p.y = 0
      <4>1. PICK y \in Int, z \in Int : y = p.y /\ z = p.z /\ Vanishes(y - Y * z) /\ y \in Residue
        BY <1>2, ResiduesAreInts DEF Stands, Point
      <4>2. y - Y * z = y
        BY <2>2, <4>1
      <4> QED BY <4>1, <4>2, NonzeroResidue
    <3>3. Twice(p) = ZERO
      BY <3>2 DEF Twice
    <3> QED BY <3>1, <3>3, ZeroStands
  <2>3. CASE Y # 0
    <3>1. ~Vanishes(Y + Y) /\ ~Vanishes(Y) /\ ~Vanishes(2 * Y)
      <4>1. Y + Y = 2 * Y
        BY <2>1
      <4> QED BY <2>3, <4>1, DoubledY, NonzeroResidue
    <3>2. PICK L \in Int : L = Tangent(X, Y) /\ Vanishes(L * (2 * Y) - 3 * X * X)
      <4>1. PICK n \in Int, d \in Int : n = 3 * X * X + 0 /\ d = 2 * Y /\ ~Vanishes(d)
        BY <2>1, <3>1
      <4>2. Curve!Over(n, d) \in Int /\ Vanishes(Curve!Over(n, d) * d - n)
        BY <4>1, OverDivides
      <4>3. n = 3 * X * X
        BY <2>1, <4>1
      <4> QED BY <4>1, <4>2, <4>3 DEF Tangent
    <3>3. Curve!Plus(P, P) = <<ThirdX(X, X, L), ThirdY(X, Y, X, L)>>
      BY <1>2, <3>1, <3>2, PlusCases
    <3>4. Stands(Twice(p), ThirdX(X, X, L), ThirdY(X, Y, X, L))
      BY <1>2, <2>1, <3>1, <3>2, TwiceStands
    <3>5. OnCurve(ThirdX(X, X, L), ThirdY(X, Y, X, L))
      BY <1>2, <2>1, <3>2, TangentOnCurve
    <3>6. ThirdX(X, X, L) \in Residue /\ ThirdY(X, Y, X, L) \in Residue
      BY <2>1, ThirdDefined
    <3> QED BY <3>3, <3>4, <3>5, <3>6 DEF Represents
  <2> QED BY <2>2, <2>3
<1> QED BY <1>1, <1>2 DEF Represents

(* Cross products are equal when the coordinates are.                      *)
LEMMA CrossProducts ==
    ASSUME NEW X \in Residue, NEW x \in Int, NEW z \in Int,
           NEW U \in Residue, NEW u \in Int, NEW w \in Int,
           Vanishes(x - X * z), Vanishes(u - U * w), ~Vanishes(z), ~Vanishes(w)
    PROVE  /\ Vanishes(Mod(x * w) - X * Mod(z * w))
           /\ Vanishes(Mod(u * z) - U * Mod(z * w))
           /\ Mod(x * w) = Mod(u * z) <=> X = U
           /\ X # U => ~Vanishes(X - U)
<1>0. X \in Int /\ U \in Int
  BY ResiduesAreInts
<1>1. PICK a \in Int, b \in Int : /\ a = x - X * z /\ Vanishes(a)
                                  /\ b = u - U * w /\ Vanishes(b)
  BY <1>0
<1>2. PICK m \in Int, n \in Int, k \in Int :
          /\ m = Mod(x * w) /\ m \in Residue /\ Vanishes(m - x * w)
          /\ n = Mod(u * z) /\ n \in Residue /\ Vanishes(n - u * z)
          /\ k = Mod(z * w) /\ Vanishes(k - z * w)
  <2>1. \A f \in Int : \E g \in Int : g = Mod(f) /\ g \in Residue /\ Vanishes(g - f)
    BY ModVanishes, ModIsResidue
  <2>2. PICK e \in Int, f \in Int, g \in Int : e = x * w /\ f = u * z /\ g = z * w
    OBVIOUS
  <2>3. PICK m \in Int : m = Mod(e) /\ m \in Residue /\ Vanishes(m - e)
    BY <2>1
  <2>4. PICK n \in Int : n = Mod(f) /\ n \in Residue /\ Vanishes(n - f)
    BY <2>1
  <2>5. PICK k \in Int : k = Mod(g) /\ Vanishes(k - g)
    BY <2>1
  <2> QED BY <2>2, <2>3, <2>4, <2>5
<1>3. PICK c \in Int, d \in Int, e \in Int : /\ c = m - x * w /\ Vanishes(c)
                                             /\ d = n - u * z /\ Vanishes(d)
                                             /\ e = k - z * w /\ Vanishes(e)
  BY <1>2
<1>4. Vanishes(m - X * k)
  <2>1. Vanishes(1 * c + w * a + (-X) * e)
    BY ONLY <1>0, <1>1, <1>3, 1 \in Int, w \in Int, -X \in Int, Combine3
  <2>2. 1 * c + w * a + (-X) * e = m - X * k
    BY <1>0, <1>1, <1>3
  <2> QED BY <2>1, <2>2
<1>5. Vanishes(n - U * k)
  <2>1. Vanishes(1 * d + z * b + (-U) * e)
    BY ONLY <1>0, <1>1, <1>3, 1 \in Int, z \in Int, -U \in Int, Combine3
  <2>2. 1 * d + z * b + (-U) * e = n - U * k
    BY <1>0, <1>1, <1>3
  <2> QED BY <2>1, <2>2
<1>6. ASSUME X # U PROVE ~Vanishes(X - U) /\ m # n
  <2>1. ~Vanishes(X - U)
    BY <1>6, SameResidue
  <2>2. m # n
    <3> SUFFICES ASSUME m = n PROVE FALSE
      OBVIOUS
    <3>1. PICK f \in Int, g \in Int : /\ f = m - X * k /\ Vanishes(f)
                                      /\ g = n - U * k /\ Vanishes(g)
      BY <1>0, <1>4, <1>5
    <3>2. Vanishes((-1) * f + 1 * g)
      BY ONLY <3>1, -1 \in Int, 1 \in Int, Combine2
    <3>3. PICK h \in Int : h = X - U /\ ~Vanishes(h)
      BY <1>0, <2>1
    <3>4. (-1) * f + 1 * g = h * k
      BY <1>0, <3>1, <3>3
    <3>5. Vanishes(k)
      BY ONLY <3>2, <3>3, <3>4, k \in Int, NoZeroDivisors
    <3>6. Vanishes(1 * k + (-1) * e)
      BY ONLY <1>3, <3>5, k \in Int, 1 \in Int, -1 \in Int, Combine2
    <3>7. 1 * k + (-1) * e = z * w
      BY <1>3
    <3> QED BY <3>6, <3>7, NoZeroDivisors
  <2> QED BY <2>1, <2>2
<1>7. ASSUME X = U PROVE m = n
  <2>1. PICK f \in Int, g \in Int : /\ f = m - X * k /\ Vanishes(f)
                                    /\ g = n - U * k /\ Vanishes(g)
    BY <1>0, <1>4, <1>5
  <2>2. Vanishes(1 * f + (-1) * g)
    BY ONLY <2>1, -1 \in Int, 1 \in Int, Combine2
  <2>3. 1 * f + (-1) * g = m - n
    BY <1>0, <1>7, <2>1
  <2> QED BY <1>2, <2>2, <2>3, SameResidue
<1> QED BY <1>2, <1>4, <1>5, <1>6, <1>7

(* The projective sum is the affine one, in every case of add.             *)
THEOREM AddRepresents ==
    ASSUME NEW p, NEW P, Represents(p, P), NEW q, NEW Q, Represents(q, Q)
    PROVE  Represents(Add(p, q), Curve!Plus(P, Q))
<1>i. \A X, Y : <<X, Y>> # Curve!Identity /\ <<X, Y>> # Curve!Inverted(Curve!Identity)
                /\ Curve!Inverted(<<X, Y>>) # Curve!Identity
  BY DEF Curve!Identity, Curve!Inverted
<1>s. ASSUME NEW f, NEW X, NEW Y, Stands(f, X, Y) PROVE ~IsZero(f)
  <2>1. f.z # 0
    BY <1>s, NonzeroResidue DEF Stands, Point
  <2> QED BY <2>1 DEF IsZero
<1>1. CASE IsZero(p) /\ P = Curve!Identity
  <2>1. Add(p, q) = q
    BY <1>1 DEF Add
  <2>2. Curve!Plus(P, Q) = Q
    <3>1. CASE Q = Curve!Identity
      BY <1>1, <3>1 DEF Curve!Plus, Curve!Inverted
    <3>2. CASE Q # Curve!Identity
      <4>1. P # Curve!Inverted(Q)
        BY <1>1, <1>i, <3>2 DEF Represents
      <4> QED BY <1>1, <3>2, <4>1 DEF Curve!Plus
    <3> QED BY <3>1, <3>2
  <2> QED BY <2>1, <2>2
<1>2. ASSUME NEW X1 \in Residue, NEW Y1 \in Residue, P = <<X1, Y1>>, OnCurve(X1, Y1),
             Stands(p, X1, Y1)
      PROVE  Represents(Add(p, q), Curve!Plus(P, Q))
  <2>1. CASE IsZero(q) /\ Q = Curve!Identity
    <3>1. Add(p, q) = p
      BY <1>2, <1>s, <2>1 DEF Add
    <3>2. Curve!Plus(P, Q) = P
      <4>1. P # Curve!Inverted(Q) /\ P # Curve!Identity
        BY <1>2, <1>i, <2>1
      <4> QED BY <2>1, <4>1 DEF Curve!Plus
    <3> QED BY <3>1, <3>2
  <2>2. ASSUME NEW X2 \in Residue, NEW Y2 \in Residue, Q = <<X2, Y2>>, OnCurve(X2, Y2),
               Stands(q, X2, Y2)
        PROVE  Represents(Add(p, q), Curve!Plus(P, Q))
    <3> DEFINE u0 == Mod(p.x * q.z)
               u1 == Mod(q.x * p.z)
               t0 == Mod(p.y * q.z)
               t1 == Mod(q.y * p.z)
               z  == Mod(p.z * q.z)
    <3>1. /\ X1 \in Int /\ Y1 \in Int /\ X2 \in Int /\ Y2 \in Int
          /\ p.x \in Int /\ p.y \in Int /\ p.z \in Int
          /\ q.x \in Int /\ q.y \in Int /\ q.z \in Int
          /\ ~Vanishes(p.z) /\ Vanishes(p.x - X1 * p.z) /\ Vanishes(p.y - Y1 * p.z)
          /\ ~Vanishes(q.z) /\ Vanishes(q.x - X2 * q.z) /\ Vanishes(q.y - Y2 * q.z)
      BY <1>2, <2>2, ResiduesAreInts DEF Stands, Point
    <3>c. PICK x1 \in Int, y1 \in Int, z1 \in Int, x2 \in Int, y2 \in Int, z2 \in Int :
              /\ x1 = p.x /\ y1 = p.y /\ z1 = p.z /\ x2 = q.x /\ y2 = q.y /\ z2 = q.z
              /\ ~Vanishes(z1) /\ Vanishes(x1 - X1 * z1) /\ Vanishes(y1 - Y1 * z1)
              /\ ~Vanishes(z2) /\ Vanishes(x2 - X2 * z2) /\ Vanishes(y2 - Y2 * z2)
      BY <3>1
    <3>2. /\ Vanishes(u0 - X1 * z) /\ Vanishes(u1 - X2 * z)
          /\ u0 = u1 <=> X1 = X2
          /\ X1 # X2 => ~Vanishes(X1 - X2)
      <4>1. /\ Vanishes(Mod(x1 * z2) - X1 * Mod(z1 * z2))
            /\ Vanishes(Mod(x2 * z1) - X2 * Mod(z1 * z2))
            /\ Mod(x1 * z2) = Mod(x2 * z1) <=> X1 = X2
            /\ X1 # X2 => ~Vanishes(X1 - X2)
        BY ONLY <3>c, X1 \in Residue, X2 \in Residue, CrossProducts
      <4> QED BY <3>c, <4>1
    <3>3. /\ Vanishes(t0 - Y1 * z) /\ Vanishes(t1 - Y2 * z)
          /\ t0 = t1 <=> Y1 = Y2
      <4>1. /\ Vanishes(Mod(y1 * z2) - Y1 * Mod(z1 * z2))
            /\ Vanishes(Mod(y2 * z1) - Y2 * Mod(z1 * z2))
            /\ Mod(y1 * z2) = Mod(y2 * z1) <=> Y1 = Y2
        BY ONLY <3>c, Y1 \in Residue, Y2 \in Residue, CrossProducts
      <4> QED BY <3>c, <4>1
    <3>4. /\ u0 \in Int /\ u1 \in Int /\ t0 \in Int /\ t1 \in Int /\ z \in Int
          /\ ~Vanishes(z)
      <4>1. p.x * q.z \in Int /\ q.x * p.z \in Int /\ p.y * q.z \in Int /\ q.y * p.z \in Int
        BY <3>1
      <4>2. PICK n \in Int : n = p.z * q.z /\ ~Vanishes(n)
        <5>1. ~Vanishes(z1 * z2)
          BY ONLY <3>c, NoZeroDivisors
        <5> QED BY <3>c, <5>1
      <4>3. PICK k \in Int, d \in Int : k = Mod(n) /\ d = k - n /\ Vanishes(d)
        BY ModVanishes
      <4>4. ~Vanishes(k)
        <5> SUFFICES ASSUME Vanishes(k) PROVE FALSE
          OBVIOUS
        <5>1. Vanishes(1 * k + (-1) * d)
          BY ONLY <4>3, Vanishes(k), 1 \in Int, -1 \in Int, Combine2
        <5>2. 1 * k + (-1) * d = n
          BY <4>3
        <5> QED BY <4>2, <5>1, <5>2
      <4> QED BY <4>1, <4>2, <4>3, <4>4, ModVanishes
    <3>5. Add(p, q) = IF u0 # u1 THEN Chord(u0, u1, t0, t1, z)
                      ELSE IF t0 = t1 THEN Twice(p) ELSE ZERO
      <4>1. ~IsZero(p) /\ ~IsZero(q)
        BY <1>2, <1>s, <2>2
      <4> QED BY <4>1 DEF Add
    <3> HIDE DEF u0, u1, t0, t1, z
    <3>6. CASE X1 # X2
      <4>1. PICK L \in Int : /\ L = Slope(X1, Y1, X2, Y2)
                             /\ Vanishes(L * (X2 - X1) - (Y2 - Y1)) /\ ~Vanishes(X2 - X1)
        <5>1. PICK n \in Int, d \in Int : n = Y2 - Y1 /\ d = X2 - X1
          BY <3>1
        <5>2. ~Vanishes(d)
          BY <3>6, <5>1, SameResidue
        <5>3. Curve!Over(n, d) \in Int /\ Vanishes(Curve!Over(n, d) * d - n)
          BY <5>1, <5>2, OverDivides
        <5> QED BY <5>1, <5>2, <5>3 DEF Slope
      <4>2. Curve!Plus(P, Q) = <<ThirdX(X1, X2, L), ThirdY(X1, Y1, X2, L)>>
        BY <1>2, <2>2, <3>6, <4>1, PlusCases
      <4>3. Stands(Add(p, q), ThirdX(X1, X2, L), ThirdY(X1, Y1, X2, L))
        <5>1. Stands(Chord(u0, u1, t0, t1, z), ThirdX(X1, X2, L), ThirdY(X1, Y1, X2, L))
          BY <3>1, <3>2, <3>3, <3>4, <3>6, <4>1, ChordStands
        <5> QED BY <3>2, <3>5, <3>6, <5>1
      <4>4. OnCurve(ThirdX(X1, X2, L), ThirdY(X1, Y1, X2, L))
        BY <1>2, <2>2, <3>1, <4>1, ChordOnCurve
      <4>5. ThirdX(X1, X2, L) \in Residue /\ ThirdY(X1, Y1, X2, L) \in Residue
        BY <3>1, ThirdDefined
      <4> QED BY <4>2, <4>3, <4>4, <4>5 DEF Represents
    <3>7. CASE X1 = X2 /\ Y1 = Y2
      <4>1. Add(p, q) = Twice(p) /\ Q = P
        BY <1>2, <2>2, <3>2, <3>3, <3>5, <3>7
      <4> QED BY <4>1, TwiceRepresents
    <3>8. CASE X1 = X2 /\ Y1 # Y2
      <4>1. Add(p, q) = ZERO
        BY <3>2, <3>3, <3>5, <3>8
      <4>2. Vanishes(Y1 + Y2)
        <5>1. PICK b \in Int : b = B
          BY BIsInt
        <5>2. PICK c \in Int, d \in Int : /\ c = Y1 * Y1 - X1 * X1 * X1 - b /\ Vanishes(c)
                                          /\ d = Y2 * Y2 - X1 * X1 * X1 - b /\ Vanishes(d)
          BY <1>2, <2>2, <3>1, <3>8, <5>1 DEF OnCurve
        <5>3. Vanishes(1 * c + (-1) * d)
          BY ONLY <5>2, 1 \in Int, -1 \in Int, Combine2
        <5>4. PICK e \in Int, f \in Int : e = Y1 - Y2 /\ f = Y1 + Y2
          BY <3>1
        <5>5. 1 * c + (-1) * d = e * f
          BY <3>1, <5>2, <5>4
        <5>6. ~Vanishes(e)
          BY <3>8, <5>4, SameResidue
        <5> QED BY <5>3, <5>4, <5>5, <5>6, NoZeroDivisors
      <4>3. Curve!Plus(P, Q) = Curve!Identity
        BY <1>2, <2>2, <3>8, <4>2, PlusCases
      <4> QED BY <4>1, <4>3, ZeroStands
    <3> QED BY <3>6, <3>7, <3>8
  <2> QED BY <2>1, <2>2 DEF Represents
<1> QED BY <1>1, <1>2 DEF Represents

(* Every point has a representative, the one with z = 1.                   *)
LEMMA Represented ==
    /\ \A X, Y \in Residue : OnCurve(X, Y) =>
          Represents([x |-> X, y |-> Y, z |-> 1], <<X, Y>>)
    /\ \A P \in CurvePoints : \E p : Represents(p, P)
<1>1. ASSUME NEW X \in Residue, NEW Y \in Residue, OnCurve(X, Y)
      PROVE  Represents([x |-> X, y |-> Y, z |-> 1], <<X, Y>>)
  <2>1. X \in Int /\ Y \in Int /\ 1 \in Residue
    BY ResiduesAreInts, BIsInt
  <2>2. ~Vanishes(1) /\ Vanishes(0)
    BY <2>1, BIsInt, NonzeroResidue
  <2>3. X - X * 1 = 0 /\ Y - Y * 1 = 0
    BY <2>1
  <2>4. Stands([x |-> X, y |-> Y, z |-> 1], X, Y)
    BY <2>1, <2>2, <2>3 DEF Stands, Point
  <2> QED BY <1>1, <2>4 DEF Represents
<1>2. ASSUME NEW P \in CurvePoints PROVE \E p : Represents(p, P)
  <2>1. CASE P = Curve!Identity
    BY <2>1, ZeroStands
  <2>2. CASE P # Curve!Identity
    <3>1. P \in Residue \X Residue /\ OnCurve(P[1], P[2])
      BY <2>2 DEF CurvePoints
    <3>2. PICK X \in Residue, Y \in Residue : P = <<X, Y>> /\ OnCurve(X, Y)
      BY <3>1
    <3> QED BY <1>1, <3>2
  <2> QED BY <2>1, <2>2
<1> QED BY <1>1, <1>2

(* The affine sum of points of the curve is one.                           *)
LEMMA PlusOnCurve == \A P, Q \in CurvePoints : Curve!Plus(P, Q) \in CurvePoints
BY Represented, AddRepresents, RepresentsPoint

(* The identity adds nothing.                                              *)
LEMMA PlusIdentity ==
    \A P \in CurvePoints : /\ Curve!Plus(Curve!Identity, P) = P
                           /\ Curve!Plus(P, Curve!Identity) = P
<1> SUFFICES ASSUME NEW P \in CurvePoints
             PROVE  /\ Curve!Plus(Curve!Identity, P) = P
                    /\ Curve!Plus(P, Curve!Identity) = P
  OBVIOUS
<1>1. CASE P = Curve!Identity
  BY <1>1 DEF Curve!Plus, Curve!Inverted
<1>2. CASE P # Curve!Identity
  <2>1. PICK X, Y : P = <<X, Y>>
    BY <1>2 DEF CurvePoints
  <2>2. Curve!Inverted(P) # Curve!Identity
    BY <1>2, <2>1 DEF Curve!Inverted, Curve!Identity
  <2>3. Curve!Inverted(Curve!Identity) = Curve!Identity
    BY DEF Curve!Inverted
  <2> QED BY <1>2, <2>2, <2>3 DEF Curve!Plus
<1> QED BY <1>1, <1>2

---------------------------------------------------------------------------
(* The group law.  A line of slope L meets the curve in two points, or     *)
(* touches it in one: chords and tangents alike.                           *)

Meets(X1, Y1, X2, Y2, L) ==
    /\ Vanishes(L * (X2 - X1) - (Y2 - Y1))
    /\ Vanishes(X2 * X2 + X2 * X1 + X1 * X1 - L * L * (X2 - X1) - 2 * L * Y1)

(* Two points with the same x are the same or opposite.                    *)
LEMMA SameX ==
    ASSUME NEW X \in Residue, NEW Y1 \in Residue, NEW Y2 \in Residue,
           OnCurve(X, Y1), OnCurve(X, Y2)
    PROVE  Y1 = Y2 \/ Vanishes(Y1 + Y2)
<1>0. X \in Int /\ Y1 \in Int /\ Y2 \in Int
  BY ResiduesAreInts
<1>1. PICK b \in Int : b = B
  BY BIsInt
<1>2. PICK c \in Int, d \in Int : /\ c = Y1 * Y1 - X * X * X - b /\ Vanishes(c)
                                  /\ d = Y2 * Y2 - X * X * X - b /\ Vanishes(d)
  BY <1>0, <1>1 DEF OnCurve
<1>3. Vanishes(1 * c + (-1) * d)
  BY ONLY <1>2, 1 \in Int, -1 \in Int, Combine2
<1>4. PICK e \in Int, f \in Int : e = Y1 - Y2 /\ f = Y1 + Y2
  BY <1>0
<1>5. 1 * c + (-1) * d = e * f
  BY <1>0, <1>2, <1>4
<1>6. Vanishes(e) \/ Vanishes(f)
  BY <1>3, <1>4, <1>5, NoZeroDivisors
<1> QED BY <1>4, <1>6, SameResidue

(* Twice a number vanishes only with it.                                   *)
LEMMA HalfVanishes ==
    ASSUME NEW n \in Int, Vanishes(2 * n)
    PROVE  Vanishes(n)
BY TwoStays, NoZeroDivisors, 2 \in Int

(* The sum of two points that are not opposite is the third point of a     *)
(* line through both.                                                      *)
LEMMA LineThrough ==
    ASSUME NEW X1 \in Residue, NEW Y1 \in Residue, NEW X2 \in Residue, NEW Y2 \in Residue,
           OnCurve(X1, Y1), OnCurve(X2, Y2), ~(X1 = X2 /\ Vanishes(Y1 + Y2))
    PROVE  \E L \in Int :
              /\ Meets(X1, Y1, X2, Y2, L)
              /\ Curve!Plus(<<X1, Y1>>, <<X2, Y2>>)
                   = <<ThirdX(X1, X2, L), ThirdY(X1, Y1, X2, L)>>
<1>0. X1 \in Int /\ Y1 \in Int /\ X2 \in Int /\ Y2 \in Int
  BY ResiduesAreInts
<1>1. CASE X1 # X2
  <2>1. PICK n \in Int, h \in Int : n = Y2 - Y1 /\ h = X2 - X1
    BY <1>0
  <2>2. ~Vanishes(h)
    BY <1>1, <2>1, SameResidue
  <2>3. PICK L \in Int : L = Slope(X1, Y1, X2, Y2) /\ Vanishes(L * h - n)
    BY <2>1, <2>2, OverDivides DEF Slope
  <2>4. Vanishes(L * (X2 - X1) - (Y2 - Y1)) /\ ~Vanishes(X2 - X1)
    BY <2>1, <2>2, <2>3
  <2>5. Meets(X1, Y1, X2, Y2, L)
    BY <1>0, <2>4, ChordMeets DEF Meets
  <2> QED BY <1>1, <2>3, <2>5, PlusCases
<1>2. CASE X1 = X2
  <2>1. Y1 = Y2 /\ ~Vanishes(Y1 + Y2)
    BY <1>2, SameX
  <2>2. PICK n \in Int, h \in Int : n = 3 * X1 * X1 + 0 /\ h = 2 * Y1
    BY <1>0
  <2>3. ~Vanishes(h)
    <3>1. h = Y1 + Y2
      BY <1>0, <2>1, <2>2
    <3> QED BY <2>1, <3>1
  <2>4. PICK L \in Int : L = Tangent(X1, Y1) /\ Vanishes(L * h - n)
    BY <2>2, <2>3, OverDivides DEF Tangent
  <2>5. L * h - n = L * (2 * Y1) - 3 * X1 * X1
    BY <1>0, <2>2, <2>4
  <2>6. Vanishes(L * (2 * Y1) - 3 * X1 * X1)
    BY <2>4, <2>5
  <2>7. Meets(X1, Y1, X2, Y2, L)
    <3>1. L * (X1 - X1) - (Y1 - Y1) = 0
      BY <1>0
    <3>2. Vanishes(0)
      BY BIsInt, NonzeroResidue
    <3> QED BY <1>0, <1>2, <2>1, <2>6, <3>1, <3>2, TangentMeets DEF Meets
  <2> QED BY <1>2, <2>1, <2>4, <2>7, PlusCases
<1> QED BY <1>1, <1>2

(* There is only one such line.                                            *)
LEMMA OneLine ==
    ASSUME NEW X1 \in Residue, NEW Y1 \in Residue, NEW X2 \in Residue, NEW Y2 \in Residue,
           ~(X1 = X2 /\ Vanishes(Y1 + Y2)),
           NEW L \in Int, Meets(X1, Y1, X2, Y2, L), NEW M \in Int, Meets(X1, Y1, X2, Y2, M)
    PROVE  Vanishes(L - M)
<1>0. X1 \in Int /\ Y1 \in Int /\ X2 \in Int /\ Y2 \in Int
  BY ResiduesAreInts
<1>1. PICK a \in Int, b \in Int, c \in Int, d \in Int, n \in Int :
          /\ a = L * (X2 - X1) - (Y2 - Y1) /\ Vanishes(a)
          /\ b = M * (X2 - X1) - (Y2 - Y1) /\ Vanishes(b)
          /\ c = X2 * X2 + X2 * X1 + X1 * X1 - L * L * (X2 - X1) - 2 * L * Y1 /\ Vanishes(c)
          /\ d = X2 * X2 + X2 * X1 + X1 * X1 - M * M * (X2 - X1) - 2 * M * Y1 /\ Vanishes(d)
          /\ n = L - M
  <2>1. PICK a \in Int, b \in Int : /\ a = L * (X2 - X1) - (Y2 - Y1) /\ Vanishes(a)
                                    /\ b = M * (X2 - X1) - (Y2 - Y1) /\ Vanishes(b)
    BY <1>0 DEF Meets
  <2>2. PICK c \in Int, d \in Int :
          /\ c = X2 * X2 + X2 * X1 + X1 * X1 - L * L * (X2 - X1) - 2 * L * Y1 /\ Vanishes(c)
          /\ d = X2 * X2 + X2 * X1 + X1 * X1 - M * M * (X2 - X1) - 2 * M * Y1 /\ Vanishes(d)
    BY <1>0 DEF Meets
  <2> QED BY <2>1, <2>2
<1>2. CASE X1 # X2
  <2>1. PICK h \in Int : h = X2 - X1 /\ ~Vanishes(h)
    BY <1>0, <1>2, SameResidue
  <2>2. Vanishes(1 * a + (-1) * b)
    BY ONLY <1>1, 1 \in Int, -1 \in Int, Combine2
  <2>3. 1 * a + (-1) * b = h * n
    BY <1>0, <1>1, <2>1
  <2> QED BY <1>1, <2>1, <2>2, <2>3, NoZeroDivisors
<1>3. CASE X1 = X2
  <2>1. PICK h \in Int : h = Y1 + Y2 /\ ~Vanishes(h)
    BY <1>0, <1>3
  <2>2. Y1 = Y2
    <3>1. Vanishes(1 * a + 0 * a)
      BY ONLY <1>1, 1 \in Int, 0 \in Int, Combine2
    <3>2. 1 * a + 0 * a = Y1 - Y2
      BY <1>0, <1>1, <1>3
    <3> QED BY <3>1, <3>2, SameResidue
  <2>3. Vanishes((-1) * c + 1 * d)
    BY ONLY <1>1, 1 \in Int, -1 \in Int, Combine2
  <2>4. (-1) * c + 1 * d = h * n
    BY <1>0, <1>1, <1>3, <2>1, <2>2
  <2> QED BY <1>1, <2>1, <2>3, <2>4, NoZeroDivisors
<1> QED BY <1>2, <1>3

(* So any line that meets the curve there gives the sum.                   *)
LEMMA PlusByLine ==
    ASSUME NEW X1 \in Residue, NEW Y1 \in Residue, NEW X2 \in Residue, NEW Y2 \in Residue,
           OnCurve(X1, Y1), OnCurve(X2, Y2), ~(X1 = X2 /\ Vanishes(Y1 + Y2)),
           NEW L \in Int, Meets(X1, Y1, X2, Y2, L)
    PROVE  Curve!Plus(<<X1, Y1>>, <<X2, Y2>>) = <<ThirdX(X1, X2, L), ThirdY(X1, Y1, X2, L)>>
<1>0. X1 \in Int /\ Y1 \in Int /\ X2 \in Int /\ Y2 \in Int
  BY ResiduesAreInts
<1>1. PICK M \in Int : /\ Meets(X1, Y1, X2, Y2, M)
                       /\ Curve!Plus(<<X1, Y1>>, <<X2, Y2>>)
                            = <<ThirdX(X1, X2, M), ThirdY(X1, Y1, X2, M)>>
  BY LineThrough
<1>2. PICK n \in Int : n = L - M /\ Vanishes(n)
  <2>1. Vanishes(L - M)
    BY <1>1, OneLine
  <2> QED BY <2>1
<1>3. PICK x \in Int, y \in Int, u \in Int, w \in Int :
          /\ x = ThirdX(X1, X2, L) /\ y = ThirdY(X1, Y1, X2, L)
          /\ x \in Residue /\ y \in Residue
          /\ Vanishes(x - (L * L - X1 - X2)) /\ Vanishes(y - (L * (X1 - x) - Y1))
          /\ u = ThirdX(X1, X2, M) /\ w = ThirdY(X1, Y1, X2, M)
          /\ u \in Residue /\ w \in Residue
          /\ Vanishes(u - (M * M - X1 - X2)) /\ Vanishes(w - (M * (X1 - u) - Y1))
  <2>1. PICK x \in Int, y \in Int :
          /\ x = ThirdX(X1, X2, L) /\ y = ThirdY(X1, Y1, X2, L)
          /\ x \in Residue /\ y \in Residue
          /\ Vanishes(x - (L * L - X1 - X2)) /\ Vanishes(y - (L * (X1 - x) - Y1))
    BY <1>0, ThirdDefined
  <2>2. PICK u \in Int, w \in Int :
          /\ u = ThirdX(X1, X2, M) /\ w = ThirdY(X1, Y1, X2, M)
          /\ u \in Residue /\ w \in Residue
          /\ Vanishes(u - (M * M - X1 - X2)) /\ Vanishes(w - (M * (X1 - u) - Y1))
    BY <1>0, ThirdDefined
  <2> QED BY <2>1, <2>2
<1>4. PICK a \in Int, b \in Int, c \in Int, d \in Int, i \in Int, j \in Int :
          /\ a = x - (L * L - X1 - X2) /\ Vanishes(a)
          /\ b = u - (M * M - X1 - X2) /\ Vanishes(b)
          /\ c = y - (L * (X1 - x) - Y1) /\ Vanishes(c)
          /\ d = w - (M * (X1 - u) - Y1) /\ Vanishes(d)
          /\ i = L + M /\ j = X1 - x
  <2>1. PICK a \in Int, b \in Int : /\ a = x - (L * L - X1 - X2) /\ Vanishes(a)
                                    /\ b = u - (M * M - X1 - X2) /\ Vanishes(b)
    BY <1>0, <1>3
  <2>2. PICK c \in Int, d \in Int : /\ c = y - (L * (X1 - x) - Y1) /\ Vanishes(c)
                                    /\ d = w - (M * (X1 - u) - Y1) /\ Vanishes(d)
    BY <1>0, <1>3
  <2>3. PICK i \in Int, j \in Int : i = L + M /\ j = X1 - x
    BY <1>0, <1>3
  <2> QED BY <2>1, <2>2, <2>3
<1>5. x = u
  <2>1. Vanishes(1 * a + (-1) * b + i * n)
    BY ONLY <1>2, <1>4, 1 \in Int, -1 \in Int, Combine3
  <2>2. 1 * a + (-1) * b + i * n = x - u
    BY <1>0, <1>2, <1>3, <1>4
  <2> QED BY <1>3, <2>1, <2>2, SameResidue
<1>6. y = w
  <2>1. Vanishes(1 * c + (-1) * d + j * n)
    BY ONLY <1>2, <1>4, 1 \in Int, -1 \in Int, Combine3
  <2>2. 1 * c + (-1) * d + j * n = y - w
    BY <1>0, <1>2, <1>3, <1>4, <1>5
  <2> QED BY <1>3, <2>1, <2>2, SameResidue
<1> QED BY <1>1, <1>3, <1>5, <1>6

(* The only residues congruent to the third point's coordinates are        *)
(* these.                                                                  *)
LEMMA ThirdIs ==
    ASSUME NEW X1 \in Int, NEW Y1 \in Int, NEW X2 \in Int, NEW L \in Int,
           NEW X \in Residue, NEW Y \in Residue,
           Vanishes(X - (L * L - X1 - X2)), Vanishes(Y - (L * (X1 - X) - Y1))
    PROVE  ThirdX(X1, X2, L) = X /\ ThirdY(X1, Y1, X2, L) = Y
<1>0. X \in Int /\ Y \in Int
  BY ResiduesAreInts
<1>1. PICK u \in Int, w \in Int :
          /\ u = ThirdX(X1, X2, L) /\ w = ThirdY(X1, Y1, X2, L)
          /\ u \in Residue /\ w \in Residue
          /\ Vanishes(u - (L * L - X1 - X2)) /\ Vanishes(w - (L * (X1 - u) - Y1))
  BY ThirdDefined
<1>2. PICK a \in Int, b \in Int : /\ a = X - (L * L - X1 - X2) /\ Vanishes(a)
                                  /\ b = u - (L * L - X1 - X2) /\ Vanishes(b)
  BY <1>0, <1>1
<1>3. u = X
  <2>1. Vanishes((-1) * a + 1 * b)
    BY ONLY <1>2, 1 \in Int, -1 \in Int, Combine2
  <2>2. (-1) * a + 1 * b = u - X
    BY <1>0, <1>1, <1>2
  <2> QED BY <1>1, <2>1, <2>2, SameResidue
<1>4. PICK c \in Int, d \in Int : /\ c = Y - (L * (X1 - X) - Y1) /\ Vanishes(c)
                                  /\ d = w - (L * (X1 - u) - Y1) /\ Vanishes(d)
  BY <1>0, <1>1
<1>5. w = Y
  <2>1. Vanishes((-1) * c + 1 * d)
    BY ONLY <1>4, 1 \in Int, -1 \in Int, Combine2
  <2>2. (-1) * c + 1 * d = w - Y
    BY <1>0, <1>1, <1>3, <1>4
  <2> QED BY <1>1, <2>1, <2>2, SameResidue
<1> QED BY <1>1, <1>3, <1>5

LEMMA FinitePoint ==
    ASSUME NEW P \in CurvePoints, P # Curve!Identity
    PROVE  \E X, Y \in Residue : P = <<X, Y>> /\ OnCurve(X, Y)
<1>1. P \in Residue \X Residue /\ OnCurve(P[1], P[2])
  BY DEF CurvePoints
<1> QED BY <1>1

LEMMA PairsAreFinite ==
    ASSUME NEW X, NEW Y
    PROVE  <<X, Y>> # Curve!Identity
BY DEF Curve!Identity

LEMMA Opposite ==
    ASSUME NEW X1 \in Residue, NEW Y1 \in Residue, NEW X2 \in Residue, NEW Y2 \in Residue
    PROVE  <<X1, Y1>> = Curve!Inverted(<<X2, Y2>>) <=> X1 = X2 /\ Vanishes(Y1 + Y2)
<1>1. Curve!Inverted(<<X2, Y2>>) = <<X2, (-Y2) % Prime>>
  BY PairsAreFinite DEF Curve!Inverted
<1> QED BY <1>1, NegatedVanishes

LEMMA InvertedPoint ==
    ASSUME NEW X \in Residue, NEW Y \in Residue, OnCurve(X, Y)
    PROVE  \E Z \in Residue : /\ Curve!Inverted(<<X, Y>>) = <<X, Z>>
                              /\ Vanishes(Z + Y) /\ OnCurve(X, Z)
<1>0. X \in Int /\ Y \in Int
  BY ResiduesAreInts
<1>1. PICK Z \in Residue : Z = (-Y) % Prime /\ Z \in Int
  BY <1>0, ModIsResidue, ResiduesAreInts DEF Mod
<1>2. Curve!Inverted(<<X, Y>>) = <<X, Z>>
  BY <1>1, PairsAreFinite DEF Curve!Inverted
<1>3. Vanishes(Z + Y)
  BY <1>1, NegatedVanishes
<1>4. PICK b \in Int : b = B
  BY BIsInt
<1>5. PICK c \in Int, d \in Int, i \in Int : /\ c = Y * Y - X * X * X - b /\ Vanishes(c)
                                             /\ d = Z + Y /\ Vanishes(d) /\ i = Z - Y
  BY <1>0, <1>1, <1>3, <1>4 DEF OnCurve
<1>6. Vanishes(1 * c + i * d)
  BY ONLY <1>5, 1 \in Int, Combine2
<1>7. 1 * c + i * d = Z * Z - X * X * X - b
  BY <1>0, <1>1, <1>5
<1> QED BY <1>2, <1>3, <1>4, <1>6, <1>7 DEF OnCurve

(* Inversion is an involution on the points of the curve, and keeps the    *)
(* identity.                                                               *)
LEMMA Inverses ==
    /\ Curve!Inverted(Curve!Identity) = Curve!Identity
    /\ \A P \in CurvePoints :
          /\ Curve!Inverted(P) \in CurvePoints
          /\ Curve!Inverted(Curve!Inverted(P)) = P
<1>1. Curve!Inverted(Curve!Identity) = Curve!Identity
  BY DEF Curve!Inverted
<1>2. ASSUME NEW P \in CurvePoints
      PROVE  /\ Curve!Inverted(P) \in CurvePoints
             /\ Curve!Inverted(Curve!Inverted(P)) = P
  <2>1. CASE P = Curve!Identity
    BY <1>1, <2>1
  <2>2. CASE P # Curve!Identity
    <3>1. PICK X \in Residue, Y \in Residue : P = <<X, Y>> /\ OnCurve(X, Y)
      BY <2>2, FinitePoint
    <3>2. PICK Z \in Residue : /\ Curve!Inverted(<<X, Y>>) = <<X, Z>>
                               /\ Vanishes(Z + Y) /\ OnCurve(X, Z)
      BY <3>1, InvertedPoint
    <3>3. Z + Y = Y + Z
      BY ResiduesAreInts
    <3>4. <<X, Y>> = Curve!Inverted(<<X, Z>>)
      BY <3>2, <3>3, Opposite
    <3>5. <<X, Z>> \in CurvePoints
      BY <3>2 DEF CurvePoints
    <3> QED BY <3>1, <3>2, <3>4, <3>5
  <2> QED BY <2>1, <2>2
<1> QED BY <1>1, <1>2

(* The sum of two points is the identity if one is the other's inverse.    *)
LEMMA OppositeSum ==
    ASSUME NEW P \in CurvePoints, NEW Q \in CurvePoints
    PROVE  Curve!Plus(P, Q) = Curve!Identity <=> P = Curve!Inverted(Q)
<1>1. ASSUME P = Curve!Inverted(Q) PROVE Curve!Plus(P, Q) = Curve!Identity
  <2>1. CASE Q = Curve!Identity
    BY <1>1, <2>1, PlusIdentity, Inverses
  <2>2. CASE Q # Curve!Identity
    <3>1. Curve!Inverted(Q) # Curve!Identity
      BY <2>2, Inverses
    <3>2. Curve!Inverted(P) = Q
      BY <1>1, Inverses
    <3> QED BY <1>1, <2>2, <3>1, <3>2 DEF Curve!Plus
  <2> QED BY <2>1, <2>2
<1>2. ASSUME Curve!Plus(P, Q) = Curve!Identity PROVE P = Curve!Inverted(Q)
  <2>1. CASE P = Curve!Identity
    BY <1>2, <2>1, PlusIdentity, Inverses
  <2>2. CASE Q = Curve!Identity
    BY <1>2, <2>2, PlusIdentity, Inverses
  <2>3. CASE P # Curve!Identity /\ Q # Curve!Identity
    <3>1. PICK X1 \in Residue, Y1 \in Residue : P = <<X1, Y1>> /\ OnCurve(X1, Y1)
      BY <2>3, FinitePoint
    <3>2. PICK X2 \in Residue, Y2 \in Residue : Q = <<X2, Y2>> /\ OnCurve(X2, Y2)
      BY <2>3, FinitePoint
    <3> SUFFICES ASSUME ~(X1 = X2 /\ Vanishes(Y1 + Y2)) PROVE FALSE
      BY <3>1, <3>2, Opposite
    <3>3. PICK L \in Int : Curve!Plus(<<X1, Y1>>, <<X2, Y2>>)
                             = <<ThirdX(X1, X2, L), ThirdY(X1, Y1, X2, L)>>
      BY <3>1, <3>2, LineThrough
    <3> QED BY <1>2, <3>1, <3>2, <3>3, PairsAreFinite
  <2> QED BY <2>1, <2>2, <2>3
<1> QED BY <1>1, <1>2

(* B is not zero modulo the prime.                                         *)
LEMMA BStays == ~Vanishes(B)
<1> SUFFICES ASSUME Vanishes(B) PROVE FALSE
  OBVIOUS
<1>1. PICK b \in Int, n \in Int : b = B /\ n = 27 * b
  BY BIsInt
<1>2. Vanishes(n * b + 0 * b)
  BY ONLY <1>1, Vanishes(B), 0 \in Int, Combine2
<1>3. n * b + 0 * b = 4 * 0 * 0 * 0 + 27 * B * B /\ 4 * 0 * 0 * 0 + 27 * B * B \in Int
  BY <1>1
<1> QED BY <1>2, <1>3, VanishingMod, CurveAssumption DEF Curve!IsCurve

(* The parts of Meets, as numbers that vanish.                             *)
LEMMA MeetsParts ==
    ASSUME NEW X1 \in Int, NEW Y1 \in Int, NEW X2 \in Int, NEW Y2 \in Int, NEW L \in Int,
           Meets(X1, Y1, X2, Y2, L)
    PROVE  \E a, c \in Int :
              /\ a = L * (X2 - X1) - (Y2 - Y1) /\ Vanishes(a)
              /\ c = X2 * X2 + X2 * X1 + X1 * X1 - L * L * (X2 - X1) - 2 * L * Y1
              /\ Vanishes(c)
BY DEF Meets

(* The affine sum does not depend on the order of its points.              *)
LEMMA Commutative ==
    ASSUME NEW P \in CurvePoints, NEW Q \in CurvePoints
    PROVE  Curve!Plus(P, Q) = Curve!Plus(Q, P)
<1>1. CASE P = Curve!Identity \/ Q = Curve!Identity
  BY <1>1, PlusIdentity
<1>2. CASE P = Curve!Inverted(Q)
  <2>1. Q = Curve!Inverted(P)
    BY <1>2, Inverses
  <2> QED BY <1>2, <2>1, OppositeSum
<1>3. CASE P # Curve!Identity /\ Q # Curve!Identity /\ P # Curve!Inverted(Q)
  <2>1. PICK X1 \in Residue, Y1 \in Residue : P = <<X1, Y1>> /\ OnCurve(X1, Y1)
    BY <1>3, FinitePoint
  <2>2. PICK X2 \in Residue, Y2 \in Residue : Q = <<X2, Y2>> /\ OnCurve(X2, Y2)
    BY <1>3, FinitePoint
  <2>3. X1 \in Int /\ Y1 \in Int /\ X2 \in Int /\ Y2 \in Int /\ Y2 + Y1 = Y1 + Y2
    BY ResiduesAreInts
  <2>4. ~(X1 = X2 /\ Vanishes(Y1 + Y2)) /\ ~(X2 = X1 /\ Vanishes(Y2 + Y1))
    BY <1>3, <2>1, <2>2, <2>3, Opposite
  <2>5. PICK L \in Int : /\ Meets(X1, Y1, X2, Y2, L)
                         /\ Curve!Plus(P, Q) = <<ThirdX(X1, X2, L), ThirdY(X1, Y1, X2, L)>>
    BY <2>1, <2>2, <2>4, LineThrough
  <2>6. PICK a \in Int, c \in Int :
            /\ a = L * (X2 - X1) - (Y2 - Y1) /\ Vanishes(a)
            /\ c = X2 * X2 + X2 * X1 + X1 * X1 - L * L * (X2 - X1) - 2 * L * Y1
            /\ Vanishes(c)
    BY <2>3, <2>5, MeetsParts
  <2>7. Meets(X2, Y2, X1, Y1, L)
    <3>1. Vanishes((-1) * a + 0 * a)
      BY ONLY <2>6, 0 \in Int, -1 \in Int, Combine2
    <3>2. (-1) * a + 0 * a = L * (X1 - X2) - (Y1 - Y2)
      BY <2>3, <2>6
    <3>3. PICK i \in Int : i = 2 * L
      OBVIOUS
    <3>4. Vanishes(1 * c + i * a)
      BY ONLY <2>6, <3>3, 1 \in Int, Combine2
    <3>5. 1 * c + i * a = X1 * X1 + X1 * X2 + X2 * X2 - L * L * (X1 - X2) - 2 * L * Y2
      BY <2>3, <2>6, <3>3
    <3> QED BY <3>1, <3>2, <3>4, <3>5 DEF Meets
  <2>8. Curve!Plus(Q, P) = <<ThirdX(X2, X1, L), ThirdY(X2, Y2, X1, L)>>
    BY <2>1, <2>2, <2>4, <2>7, PlusByLine
  <2>9. PICK X \in Int, Y \in Int, e \in Int, f \in Int :
            /\ X \in Residue /\ Y \in Residue
            /\ X = ThirdX(X1, X2, L) /\ Y = ThirdY(X1, Y1, X2, L)
            /\ e = X - (L * L - X1 - X2) /\ Vanishes(e)
            /\ f = Y - (L * (X1 - X) - Y1) /\ Vanishes(f)
    <3>1. PICK X \in Int, Y \in Int :
              /\ X \in Residue /\ Y \in Residue
              /\ X = ThirdX(X1, X2, L) /\ Y = ThirdY(X1, Y1, X2, L)
              /\ Vanishes(X - (L * L - X1 - X2)) /\ Vanishes(Y - (L * (X1 - X) - Y1))
      BY <2>3, ThirdDefined
    <3>2. PICK e \in Int, f \in Int : e = X - (L * L - X1 - X2) /\ f = Y - (L * (X1 - X) - Y1)
      BY <2>3
    <3> QED BY <3>1, <3>2
  <2>10. Vanishes(X - (L * L - X2 - X1))
    <3>1. e = X - (L * L - X2 - X1)
      BY <2>3, <2>9
    <3> QED BY <2>9, <3>1
  <2>11. Vanishes(Y - (L * (X2 - X) - Y2))
    <3>1. Vanishes(1 * f + (-1) * a)
      BY ONLY <2>6, <2>9, 1 \in Int, -1 \in Int, Combine2
    <3>2. 1 * f + (-1) * a = Y - (L * (X2 - X) - Y2)
      BY <2>3, <2>6, <2>9
    <3> QED BY <3>1, <3>2
  <2>12. ThirdX(X2, X1, L) = X /\ ThirdY(X2, Y2, X1, L) = Y
    <3>1. X \in Residue /\ Y \in Residue
      BY <2>9
    <3> QED BY ONLY <2>3, <2>10, <2>11, <3>1, L \in Int, ThirdIs
  <2> QED BY <2>5, <2>8, <2>9, <2>12
<1> QED BY <1>1, <1>2, <1>3

(* The line reflected in the x-axis meets the inverses.                    *)
LEMMA InvertedSum ==
    ASSUME NEW P \in CurvePoints, NEW Q \in CurvePoints
    PROVE  Curve!Plus(Curve!Inverted(P), Curve!Inverted(Q)) = Curve!Inverted(Curve!Plus(P, Q))
<1>0. Curve!Inverted(P) \in CurvePoints /\ Curve!Inverted(Q) \in CurvePoints
  BY Inverses
<1>1. CASE P = Curve!Identity \/ Q = Curve!Identity
  BY <1>0, <1>1, PlusIdentity, Inverses
<1>2. CASE P = Curve!Inverted(Q)
  <2>1. Curve!Plus(P, Q) = Curve!Identity
    BY <1>2, OppositeSum
  <2>2. Curve!Plus(Curve!Inverted(P), Curve!Inverted(Q)) = Curve!Identity
    BY <1>0, <1>2, OppositeSum
  <2> QED BY <2>1, <2>2, Inverses
<1>3. CASE P # Curve!Identity /\ Q # Curve!Identity /\ P # Curve!Inverted(Q)
  <2>1. PICK X1 \in Residue, Y1 \in Residue : P = <<X1, Y1>> /\ OnCurve(X1, Y1)
    BY <1>3, FinitePoint
  <2>2. PICK X2 \in Residue, Y2 \in Residue : Q = <<X2, Y2>> /\ OnCurve(X2, Y2)
    BY <1>3, FinitePoint
  <2>3. PICK Z1 \in Residue : /\ Curve!Inverted(P) = <<X1, Z1>>
                              /\ Vanishes(Z1 + Y1) /\ OnCurve(X1, Z1)
    BY <2>1, InvertedPoint
  <2>4. PICK Z2 \in Residue : /\ Curve!Inverted(Q) = <<X2, Z2>>
                              /\ Vanishes(Z2 + Y2) /\ OnCurve(X2, Z2)
    BY <2>2, InvertedPoint
  <2>5. /\ X1 \in Int /\ Y1 \in Int /\ X2 \in Int /\ Y2 \in Int /\ Z1 \in Int /\ Z2 \in Int
    BY ResiduesAreInts
  <2>6. PICK g \in Int, h \in Int : /\ g = Z1 + Y1 /\ Vanishes(g)
                                    /\ h = Z2 + Y2 /\ Vanishes(h)
    BY <2>3, <2>4, <2>5
  <2>7. ~(X1 = X2 /\ Vanishes(Y1 + Y2))
    BY <1>3, <2>1, <2>2, Opposite
  <2>8. ~(X1 = X2 /\ Vanishes(Z1 + Z2))
    <3> SUFFICES ASSUME Vanishes(Z1 + Z2) PROVE Vanishes(Y1 + Y2)
      BY <2>7
    <3>1. PICK d \in Int : d = Z1 + Z2 /\ Vanishes(d)
      BY <2>5
    <3>2. Vanishes(1 * g + 1 * h + (-1) * d)
      BY ONLY <2>6, <3>1, 1 \in Int, -1 \in Int, Combine3
    <3>3. 1 * g + 1 * h + (-1) * d = Y1 + Y2
      BY <2>5, <2>6, <3>1
    <3> QED BY <3>2, <3>3
  <2>9. PICK L \in Int : /\ Meets(X1, Y1, X2, Y2, L)
                         /\ Curve!Plus(P, Q) = <<ThirdX(X1, X2, L), ThirdY(X1, Y1, X2, L)>>
    BY <2>1, <2>2, <2>7, LineThrough
  <2>10. PICK a \in Int, c \in Int :
            /\ a = L * (X2 - X1) - (Y2 - Y1) /\ Vanishes(a)
            /\ c = X2 * X2 + X2 * X1 + X1 * X1 - L * L * (X2 - X1) - 2 * L * Y1
            /\ Vanishes(c)
    BY <2>5, <2>9, MeetsParts
  <2>11. PICK M \in Int : M = -L
    OBVIOUS
  <2>12. Meets(X1, Z1, X2, Z2, M)
    <3>1. Vanishes((-1) * a + (-1) * h + 1 * g)
      BY ONLY <2>6, <2>10, 1 \in Int, -1 \in Int, Combine3
    <3>2. (-1) * a + (-1) * h + 1 * g = M * (X2 - X1) - (Z2 - Z1)
      BY <2>5, <2>6, <2>10, <2>11
    <3>3. PICK i \in Int : i = 2 * L
      OBVIOUS
    <3>4. Vanishes(1 * c + i * g)
      BY ONLY <2>6, <2>10, <3>3, 1 \in Int, Combine2
    <3>5. 1 * c + i * g = X2 * X2 + X2 * X1 + X1 * X1 - M * M * (X2 - X1) - 2 * M * Z1
      BY <2>5, <2>6, <2>10, <2>11, <3>3
    <3> QED BY <3>1, <3>2, <3>4, <3>5 DEF Meets
  <2>13. Curve!Plus(Curve!Inverted(P), Curve!Inverted(Q))
           = <<ThirdX(X1, X2, M), ThirdY(X1, Z1, X2, M)>>
    BY <2>3, <2>4, <2>8, <2>12, PlusByLine
  <2>14. PICK X \in Int, Y \in Int, e \in Int, f \in Int :
            /\ X \in Residue /\ Y \in Residue
            /\ X = ThirdX(X1, X2, L) /\ Y = ThirdY(X1, Y1, X2, L)
            /\ e = X - (L * L - X1 - X2) /\ Vanishes(e)
            /\ f = Y - (L * (X1 - X) - Y1) /\ Vanishes(f)
    <3>1. PICK X \in Int, Y \in Int :
              /\ X \in Residue /\ Y \in Residue
              /\ X = ThirdX(X1, X2, L) /\ Y = ThirdY(X1, Y1, X2, L)
              /\ Vanishes(X - (L * L - X1 - X2)) /\ Vanishes(Y - (L * (X1 - X) - Y1))
      BY <2>5, ThirdDefined
    <3>2. PICK e \in Int, f \in Int : e = X - (L * L - X1 - X2) /\ f = Y - (L * (X1 - X) - Y1)
      BY <2>5
    <3> QED BY <3>1, <3>2
  <2>15. <<X, Y>> \in CurvePoints
    BY <2>9, <2>14, PlusOnCurve
  <2>16. PICK Z \in Residue : /\ Curve!Inverted(<<X, Y>>) = <<X, Z>> /\ Z \in Int
                              /\ Vanishes(Z + Y)
    <3>1. OnCurve(X, Y)
      BY <2>15, PairsAreFinite DEF CurvePoints
    <3> QED BY <2>14, <3>1, InvertedPoint, ResiduesAreInts
  <2>17. Vanishes(X - (M * M - X1 - X2))
    <3>1. e = X - (M * M - X1 - X2)
      BY <2>5, <2>11, <2>14
    <3> QED BY <2>14, <3>1
  <2>18. Vanishes(Z - (M * (X1 - X) - Z1))
    <3>1. PICK d \in Int : d = Z + Y /\ Vanishes(d)
      BY <2>14, <2>16
    <3>2. Vanishes(1 * d + (-1) * f + 1 * g)
      BY ONLY <2>6, <2>14, <3>1, 1 \in Int, -1 \in Int, Combine3
    <3>3. 1 * d + (-1) * f + 1 * g = Z - (M * (X1 - X) - Z1)
      BY <2>5, <2>6, <2>11, <2>14, <2>16, <3>1
    <3> QED BY <3>2, <3>3
  <2>19. ThirdX(X1, X2, M) = X /\ ThirdY(X1, Z1, X2, M) = Z
    BY <2>5, <2>14, <2>17, <2>18, ThirdIs
  <2> QED BY <2>9, <2>13, <2>14, <2>16, <2>19
<1> QED BY <1>1, <1>2, <1>3

(* A line meets the curve in three points, whichever two it is drawn       *)
(* through.                                                                *)
LEMMA Turned ==
    ASSUME NEW P \in CurvePoints, NEW Q \in CurvePoints
    PROVE  Curve!Plus(Q, Curve!Inverted(Curve!Plus(P, Q))) = Curve!Inverted(P)
<1>0. Curve!Inverted(P) \in CurvePoints /\ Curve!Inverted(Q) \in CurvePoints
  BY Inverses
<1>1. CASE P = Curve!Identity
  BY <1>0, <1>1, PlusIdentity, Inverses, OppositeSum
<1>2. CASE Q = Curve!Identity
  BY <1>0, <1>2, PlusIdentity
<1>3. CASE P = Curve!Inverted(Q)
  BY <1>3, PlusIdentity, Inverses, OppositeSum
<1>4. CASE P # Curve!Identity /\ Q # Curve!Identity /\ P # Curve!Inverted(Q)
  <2>1. PICK X1 \in Residue, Y1 \in Residue : P = <<X1, Y1>> /\ OnCurve(X1, Y1)
    BY <1>4, FinitePoint
  <2>2. PICK X2 \in Residue, Y2 \in Residue : Q = <<X2, Y2>> /\ OnCurve(X2, Y2)
    BY <1>4, FinitePoint
  <2>3. X1 \in Int /\ Y1 \in Int /\ X2 \in Int /\ Y2 \in Int
    BY ResiduesAreInts
  <2>4. ~(X1 = X2 /\ Vanishes(Y1 + Y2))
    BY <1>4, <2>1, <2>2, Opposite
  <2>5. PICK L \in Int : /\ Meets(X1, Y1, X2, Y2, L)
                         /\ Curve!Plus(P, Q) = <<ThirdX(X1, X2, L), ThirdY(X1, Y1, X2, L)>>
    BY <2>1, <2>2, <2>4, LineThrough
  <2>6. PICK a \in Int, c \in Int :
            /\ a = L * (X2 - X1) - (Y2 - Y1) /\ Vanishes(a)
            /\ c = X2 * X2 + X2 * X1 + X1 * X1 - L * L * (X2 - X1) - 2 * L * Y1
            /\ Vanishes(c)
    BY <2>3, <2>5, MeetsParts
  <2>7. PICK X \in Int, Y \in Int, e \in Int, f \in Int :
            /\ X \in Residue /\ Y \in Residue
            /\ X = ThirdX(X1, X2, L) /\ Y = ThirdY(X1, Y1, X2, L)
            /\ e = X - (L * L - X1 - X2) /\ Vanishes(e)
            /\ f = Y - (L * (X1 - X) - Y1) /\ Vanishes(f)
    <3>1. PICK X \in Int, Y \in Int :
              /\ X \in Residue /\ Y \in Residue
              /\ X = ThirdX(X1, X2, L) /\ Y = ThirdY(X1, Y1, X2, L)
              /\ Vanishes(X - (L * L - X1 - X2)) /\ Vanishes(Y - (L * (X1 - X) - Y1))
      BY <2>3, ThirdDefined
    <3>2. PICK e \in Int, f \in Int : e = X - (L * L - X1 - X2) /\ f = Y - (L * (X1 - X) - Y1)
      BY <2>3
    <3> QED BY <3>1, <3>2
  <2>8. OnCurve(X, Y)
    <3>1. <<X, Y>> \in CurvePoints
      BY <2>5, <2>7, PlusOnCurve
    <3> QED BY <3>1, PairsAreFinite DEF CurvePoints
  <2>9. PICK Z \in Residue, d \in Int :
            /\ Curve!Inverted(Curve!Plus(P, Q)) = <<X, Z>> /\ OnCurve(X, Z)
            /\ d = Z + Y /\ Vanishes(d)
    <3>1. PICK Z \in Residue : /\ Curve!Inverted(<<X, Y>>) = <<X, Z>>
                               /\ Vanishes(Z + Y) /\ OnCurve(X, Z)
      BY <2>7, <2>8, InvertedPoint
    <3>2. PICK d \in Int : d = Z + Y
      BY <2>7, ResiduesAreInts
    <3> QED BY <2>5, <2>7, <3>1, <3>2
  <2>10. PICK W \in Residue, h \in Int :
            /\ Curve!Inverted(P) = <<X1, W>> /\ h = W + Y1 /\ Vanishes(h)
    <3>1. PICK W \in Residue : Curve!Inverted(<<X1, Y1>>) = <<X1, W>> /\ Vanishes(W + Y1)
      BY <2>1, InvertedPoint
    <3>2. PICK h \in Int : h = W + Y1
      BY <2>3, ResiduesAreInts
    <3> QED BY <2>1, <3>1, <3>2
  <2>11. Z \in Int /\ W \in Int
    BY ResiduesAreInts
  (* Else the curve would have a singular point.                           *)
  <2>12. ~(X2 = X /\ Vanishes(Y2 + Z))
    <3> SUFFICES ASSUME X2 = X, Vanishes(Y2 + Z) PROVE FALSE
      OBVIOUS
    <3>1. PICK k \in Int : k = Y2 + Z /\ Vanishes(k)
      BY <2>3, <2>11
    <3>2. Vanishes(Y2)
      <4>1. Vanishes(1 * k + (-1) * d + 1 * f + (-1) * a)
        BY ONLY <2>6, <2>7, <2>9, <3>1, 1 \in Int, -1 \in Int, Combine4
      <4>2. 1 * k + (-1) * d + 1 * f + (-1) * a = 2 * Y2
        BY <2>3, <2>6, <2>7, <2>9, <2>11, <3>1
      <4> QED BY <2>3, <4>1, <4>2, HalfVanishes
    <3>3. Vanishes(X2)
      <4>1. PICK i \in Int, j \in Int : i = 2 * L /\ j = X2 - X1
        BY <2>3
      <4>2. Vanishes(1 * c + i * Y2 + i * a + j * e)
        BY ONLY <2>3, <2>6, <2>7, <3>2, <4>1, 1 \in Int, Combine4
      <4>3. PICK m \in Int : m = X2 * X2
        BY <2>3
      <4>4. 1 * c + i * Y2 + i * a + j * e = 3 * m
        <5>1. e = 2 * X2 + X1 - L * L
          <6>1. e = X - (L * L - X1 - X2)
            BY <2>7
          <6> QED BY ONLY <2>3, <6>1, X2 = X, X \in Int, e \in Int, L \in Int
        <5> QED BY ONLY <2>3, <2>6, <4>1, <4>3, <5>1, e \in Int, L \in Int
      <4>5. ~Vanishes(3)
        <5>1. 3 \in Residue
          BY Primes DEF Residue
        <5> QED BY <5>1, NonzeroResidue
      <4>6. Vanishes(m)
        BY <4>2, <4>4, <4>5, 3 \in Int, NoZeroDivisors
      <4> QED BY <2>3, <4>3, <4>6, NoZeroDivisors
    <3>4. PICK b \in Int : b = B
      BY BIsInt
    <3>5. PICK g \in Int : g = Y2 * Y2 - X2 * X2 * X2 - b /\ Vanishes(g)
      BY <2>2, <2>3, <3>4 DEF OnCurve
    <3>6. PICK i \in Int : i = -(X2 * X2)
      BY <2>3
    <3>7. Vanishes(Y2 * Y2 + i * X2 + (-1) * g)
      BY ONLY <2>3, <3>2, <3>3, <3>5, <3>6, -1 \in Int, Combine3
    <3>8. Y2 * Y2 + i * X2 + (-1) * g = b
      BY <2>3, <3>5, <3>6
    <3> QED BY <3>4, <3>7, <3>8, BStays
  <2>13. Meets(X2, Y2, X, Z, L)
    <3>1. Vanishes(1 * f + (-1) * d + (-1) * a)
      BY ONLY <2>6, <2>7, <2>9, 1 \in Int, -1 \in Int, Combine3
    <3>2. 1 * f + (-1) * d + (-1) * a = L * (X - X2) - (Z - Y2)
      BY <2>3, <2>6, <2>7, <2>9, <2>11
    <3>3. PICK i \in Int, j \in Int : i = 2 * L /\ j = X - X1
      BY <2>3, <2>7
    <3>4. Vanishes(1 * c + i * a + j * e)
      BY ONLY <2>6, <2>7, <3>3, 1 \in Int, Combine3
    <3>5. 1 * c + i * a + j * e
            = X * X + X * X2 + X2 * X2 - L * L * (X - X2) - 2 * L * Y2
      BY <2>3, <2>6, <2>7, <3>3
    <3> QED BY <3>1, <3>2, <3>4, <3>5 DEF Meets
  <2>14. Curve!Plus(Q, <<X, Z>>) = <<ThirdX(X2, X, L), ThirdY(X2, Y2, X, L)>>
    BY <2>2, <2>7, <2>9, <2>12, <2>13, PlusByLine
  <2>15. Vanishes(X1 - (L * L - X2 - X))
    <3>1. e = X1 - (L * L - X2 - X)
      BY <2>3, <2>7
    <3> QED BY <2>7, <3>1
  <2>16. Vanishes(W - (L * (X2 - X1) - Y2))
    <3>1. Vanishes(1 * h + (-1) * a)
      BY ONLY <2>6, <2>10, 1 \in Int, -1 \in Int, Combine2
    <3>2. 1 * h + (-1) * a = W - (L * (X2 - X1) - Y2)
      BY <2>3, <2>6, <2>10, <2>11
    <3> QED BY <3>1, <3>2
  <2>17. ThirdX(X2, X, L) = X1 /\ ThirdY(X2, Y2, X, L) = W
    BY ONLY <2>3, <2>15, <2>16, X \in Int, L \in Int, X1 \in Residue, W \in Residue, ThirdIs
  <2> QED BY <2>9, <2>10, <2>14, <2>17
<1> QED BY <1>1, <1>2, <1>3, <1>4

(* What was added can be taken away.                                       *)
LEMMA Removed ==
    ASSUME NEW P \in CurvePoints, NEW Q \in CurvePoints
    PROVE  Curve!Plus(Curve!Plus(P, Q), Curve!Inverted(Q)) = P
<1>1. PICK S \in CurvePoints : S = Curve!Plus(P, Q)
  BY PlusOnCurve
<1>2. /\ Curve!Inverted(S) \in CurvePoints /\ Curve!Inverted(Q) \in CurvePoints
      /\ Curve!Inverted(Curve!Inverted(S)) = S /\ Curve!Inverted(Curve!Inverted(P)) = P
  BY Inverses
<1>3. Curve!Plus(Q, Curve!Inverted(S)) = Curve!Inverted(P)
  BY <1>1, Turned
<1>4. Curve!Plus(Curve!Inverted(Q), Curve!Inverted(Curve!Inverted(S)))
        = Curve!Inverted(Curve!Plus(Q, Curve!Inverted(S)))
  BY <1>2, InvertedSum
<1>5. Curve!Plus(Curve!Inverted(Q), S) = P
  BY <1>2, <1>3, <1>4
<1> QED BY <1>1, <1>2, <1>5, Commutative

(* Sums with one point are equal only for equal points.                    *)
LEMMA Cancelled ==
    ASSUME NEW P \in CurvePoints, NEW R \in CurvePoints, NEW Q \in CurvePoints,
           Curve!Plus(P, Q) = Curve!Plus(R, Q)
    PROVE  P = R
<1>1. Curve!Plus(Curve!Plus(P, Q), Curve!Inverted(Q)) = P
  BY Removed
<1>2. Curve!Plus(Curve!Plus(R, Q), Curve!Inverted(Q)) = R
  BY Removed
<1> QED BY <1>1, <1>2

(* The two ways to add three points: lines of slope a and b give P + Q and *)
(* Q + R, and lines of slope c and d through these give (P + Q) + R and    *)
(* P + (Q + R).  Here p, q and t are the x of P, Q and R, v is twice the y *)
(* of Q, D and M are the differences of x and y between P + Q and R, and   *)
(* E and N those between P and Q + R.                                      *)
TwoWays(p, q, t, v, a, b, c, d, D, M, E, N, g, h, i, j) ==
    /\ D = p + q + t - a * a /\ ~Vanishes(D)
    /\ E = b * b - p - q - t /\ ~Vanishes(E)
    /\ M = v + b * (t - q) - a * (p + 2 * q - a * a)
    /\ N = b * (2 * q + t - b * b) - v + a * (q - p)
    /\ g = a * (v - a * (q - p)) - (p * p + p * q + q * q) /\ Vanishes(g)
    /\ h = b * (v + b * (t - q)) - (q * q + q * t + t * t) /\ Vanishes(h)
    /\ i = c * D - M /\ Vanishes(i)
    /\ j = d * E - N /\ Vanishes(j)

(* Both ways lead to the same x.                                           *)
LEMMA SameAbscissa ==
    ASSUME NEW p \in Int, NEW q \in Int, NEW t \in Int, NEW v \in Int,
           NEW a \in Int, NEW b \in Int, NEW c \in Int, NEW d \in Int,
           NEW D \in Int, NEW M \in Int, NEW E \in Int, NEW N \in Int,
           NEW g \in Int, NEW h \in Int, NEW i \in Int, NEW j \in Int,
           TwoWays(p, q, t, v, a, b, c, d, D, M, E, N, g, h, i, j)
    PROVE  Vanishes(c * c - d * d - (a * a - b * b + 2 * t - 2 * p))
<1>1. PICK w \in Int, n \in Int : w = a * a - b * b + 2 * t - 2 * p /\ n = c * c - d * d - w
  OBVIOUS
<1>2. PICK k \in Int : k =
            a * (a * (q * (a * (a + 4 * b) + 3 * p - q + 2 * t - b * b) + p * (3 * p +
            6 * t - a * a - 3 * b * b) + t * (b * (2 * a - 2 * b) + 2 * t) - a * (v +
            2 * b * b * b)) + b * (q * (4 * b * b - 6 * p - 6 * q - 6 * t) +
            b * (2 * p * b - v)) + v * (2 * p + 2 * q + 2 * t)) + q * (b * (b * (5 * p
            + q + 2 * t - 2 * b * b) - 2 * v) - p * (6 * p + 4 * q + 10 * t) +
            q * (2 * q + 4 * t) + 4 * t * t) + t * (b * (b * (4 * p - 6 * t +
            2 * b * b) - 4 * v) - p * (6 * p + 4 * t) + 4 * t * t) +
            p * p * (3 * b * b - 2 * p) + 2 * v * b * b * b
  OBVIOUS
<1>3. PICK l \in Int : l =
            b * (b * (a * (a * (3 * q + 3 * t + 2 * a * b) - b * (2 * p + 4 * q) -
            2 * v) + t * (b * b - 6 * p - 3 * q - 3 * t) + q * (3 * q - b * b) +
            v * b) + a * (q * (6 * p + 6 * q + 6 * t - 4 * a * a) + a * (v -
            2 * t * a)) - v * (2 * p + 2 * q + 2 * t)) + t * (t * (6 * p + 6 * q +
            2 * t - 3 * a * a) + q * (6 * p - 9 * a * a) + 4 * v * a) + q * (2 * v * a
            - q * (2 * q + 3 * a * a))
  OBVIOUS
<1>4. PICK m \in Int, o \in Int : m = E * E * (c * D + M) /\ o = -(D * D * (d * E + N))
  OBVIOUS
<1>5. M * M * E * E - N * N * D * D - w * D * D * E * E = k * g + l * h
  BY <1>1, <1>2, <1>3, SMTT(60) DEF TwoWays
<1>6. PICK f \in Int : f = D * E /\ ~Vanishes(f)
  BY NoZeroDivisors DEF TwoWays
<1>7. Vanishes(m * i + o * j + k * g + l * h)
  <2>1. Vanishes(g) /\ Vanishes(h) /\ Vanishes(i) /\ Vanishes(j)
    BY DEF TwoWays
  <2> QED BY ONLY <2>1, g \in Int, h \in Int, i \in Int, j \in Int, m \in Int, o \in Int,
              k \in Int, l \in Int, Combine4
<1>8. m * i + o * j + (k * g + l * h) = f * (f * n)
  <2>1. i = c * D - M /\ j = d * E - N
    BY DEF TwoWays
  <2>2. m * i = E * E * (c * c * D * D - M * M)
    BY ONLY <1>4, <2>1, c \in Int, D \in Int, M \in Int, E \in Int
  <2>3. o * j = -(D * D * (d * d * E * E - N * N))
    BY ONLY <1>4, <2>1, d \in Int, D \in Int, N \in Int, E \in Int
  <2> QED BY ONLY <1>1, <1>5, <1>6, <2>2, <2>3, c \in Int, d \in Int, D \in Int, E \in Int,
              M \in Int, N \in Int
<1>9. PICK y \in Int : y = f * n
  OBVIOUS
<1>10. Vanishes(f * y)
  BY <1>7, <1>8, <1>9
<1>11. Vanishes(n)
  BY <1>6, <1>9, <1>10, NoZeroDivisors
<1> QED BY <1>1, <1>11

(* And to the same y.                                                      *)
LEMMA SameOrdinate ==
    ASSUME NEW p \in Int, NEW q \in Int, NEW t \in Int, NEW v \in Int,
           NEW a \in Int, NEW b \in Int, NEW c \in Int, NEW d \in Int,
           NEW D \in Int, NEW M \in Int, NEW E \in Int, NEW N \in Int,
           NEW g \in Int, NEW h \in Int, NEW i \in Int, NEW j \in Int,
           TwoWays(p, q, t, v, a, b, c, d, D, M, E, N, g, h, i, j)
    PROVE  Vanishes(c * (2 * t + a * a - p - q - c * c) - d * (t + a * a - q - c * c)
                      - (a * (q - p) + b * (t - q)))
<1>1. PICK u \in Int, w \in Int, y \in Int, n \in Int :
          /\ u = 2 * t + a * a - p - q /\ w = t + a * a - q
          /\ y = a * (q - p) + b * (t - q)
          /\ n = c * (u - c * c) - d * (w - c * c) - y
  OBVIOUS
<1>2. PICK k \in Int : k =
            a * (a * (a * (a * (a * (2 * p + q + 3 * t - 2 * b * b) + b * (3 * t -
            3 * q) + 2 * v) + p * (4 * b * b - 4 * p - 9 * q - 7 * t) + q * (5 * b * b
            - 2 * q - 8 * t) + 3 * t * b * b) + b * (q * (p + 4 * q - 6 * t + b * b) +
            t * (2 * t - p - b * b) - v * b) + v * (t - p - 3 * q)) + q * (p * (8 * p
            + 8 * q + 10 * t - 5 * b * b) - q * (2 * q + 2 * t + 2 * b * b) -
            t * (6 * t + 6 * b * b) + 2 * b * b * b * b) + t * (b * (b * (6 * t -
            3 * p - 2 * b * b) + 6 * v) + 4 * p * p - 4 * t * t) + p * p * (2 * p -
            2 * b * b) + v * (v - 2 * b * b * b)) + b * (q * (b * (b * (2 * t - p -
            2 * q) + 2 * v) + p * (2 * p + 4 * q) + t * (2 * q - 2 * t)) +
            p * (t * (b * b - 2 * p - 4 * t) + v * b)) - v * (p * (p + 2 * q + 2 * t)
            + q * t)
  OBVIOUS
<1>3. PICK l \in Int : l =
            a * (a * (b * (a * (b * (2 * a * a - 2 * p - 5 * q - 5 * t) + a * (3 * q -
            3 * t) - 2 * v) + q * (4 * t - 3 * p - 2 * q - b * b) + t * (3 * p - 2 * t
            + b * b) + 3 * v * b) + a * (q * (3 * p + 8 * q + 14 * t - 3 * a * a) +
            t * (3 * p + 2 * t - 3 * a * a)) - v * (4 * q + 5 * t)) + q * (q * (2 * q
            - 2 * p - 4 * t - 4 * b * b) + t * (10 * b * b - 8 * p - 4 * t) +
            b * (p * b + 4 * v)) + p * (t * (5 * b * b - 2 * t) + 2 * v * b)) +
            b * (t * (q * (2 * t - 2 * p - 4 * q + 2 * b * b) + t * (4 * p + 2 * t -
            2 * b * b) - b * (p * b + 3 * v)) + p * (q * (b * b - 2 * q) - v * b) +
            v * (q * b - v)) + v * (t * (2 * p + 2 * q + t) + p * q)
  OBVIOUS
<1>4. M * E * (u * D * D - M * M) - N * D * (w * D * D - M * M) - y * D * D * D * E
        = k * g + l * h
  <2>1. /\ D = p + q + t - a * a /\ E = b * b - p - q - t
        /\ M = v + b * (t - q) - a * (p + 2 * q - a * a)
        /\ N = b * (2 * q + t - b * b) - v + a * (q - p)
        /\ g = a * (v - a * (q - p)) - (p * p + p * q + q * q)
        /\ h = b * (v + b * (t - q)) - (q * q + q * t + t * t)
    BY Zenon DEF TwoWays
  <2>2. M * E * ((2 * t + a * a - p - q) * D * D - M * M)
          - N * D * ((t + a * a - q) * D * D - M * M)
          - (a * (q - p) + b * (t - q)) * D * D * D * E
          = k * g + l * h
    BY ONLY <1>2, <1>3, <2>1, p \in Int, q \in Int, t \in Int, v \in Int, a \in Int,
            b \in Int, SMTT(60)
  <2> QED BY ONLY <1>1, <2>2
<1>5. PICK e \in Int, f \in Int : e = c * D /\ f = d * E
  OBVIOUS
<1>6. PICK m \in Int, o \in Int :
          /\ m = E * (u * D * D - (e * e + e * M + M * M)) + D * N * (e + M)
          /\ o = -(D * (w * D * D - e * e))
  OBVIOUS
<1>7. Vanishes(m * i + o * j + k * g + l * h)
  <2>1. Vanishes(g) /\ Vanishes(h) /\ Vanishes(i) /\ Vanishes(j)
    BY DEF TwoWays
  <2> QED BY ONLY <2>1, g \in Int, h \in Int, i \in Int, j \in Int, m \in Int, o \in Int,
              k \in Int, l \in Int, Combine4
<1>8. m * i + o * j + (k * g + l * h)
        = e * E * (u * D * D - e * e) - f * D * (w * D * D - e * e) - y * D * D * D * E
  <2>1. i = e - M /\ j = f - N
    BY <1>5 DEF TwoWays
  <2> QED BY ONLY <1>4, <1>6, <2>1, u \in Int, w \in Int, y \in Int, D \in Int, E \in Int,
              M \in Int, N \in Int, e \in Int, f \in Int, SMTT(60)
<1>9. PICK x \in Int, z \in Int : x = E * n /\ z = D * x
  OBVIOUS
<1>10. e * E * (u * D * D - e * e) - f * D * (w * D * D - e * e) - y * D * D * D * E
         = D * (D * z)
  BY ONLY <1>1, <1>5, <1>9, c \in Int, d \in Int, D \in Int, E \in Int
<1>11. PICK z1 \in Int : z1 = D * z
  OBVIOUS
<1>12. Vanishes(D * z1)
  BY <1>7, <1>8, <1>10, <1>11
<1>13. Vanishes(n)
  BY <1>9, <1>11, <1>12, NoZeroDivisors DEF TwoWays
<1>14. n = c * (2 * t + a * a - p - q - c * c) - d * (t + a * a - q - c * c)
             - (a * (q - p) + b * (t - q))
  BY <1>1
<1> QED BY <1>13, <1>14

(* A line through two points, and what is to be their sum.                *)
LineTo(X1, Y1, X2, Y2, L, X, Y) ==
    /\ Meets(X1, Y1, X2, Y2, L)
    /\ Vanishes(X - (L * L - X1 - X2)) /\ Vanishes(Y - (L * (X1 - X) - Y1))

(* The four lines of the two ways, through the points with these           *)
(* coordinates.                                                            *)
FourLines(p, y1, q, y2, t, y3, a, x4, y4, b, x5, y5, c, x6, y6, d, x7, y7) ==
    /\ LineTo(p, y1, q, y2, a, x4, y4) /\ LineTo(q, y2, t, y3, b, x5, y5)
    /\ LineTo(x4, y4, t, y3, c, x6, y6) /\ LineTo(p, y1, x5, y5, d, x7, y7)
    /\ ~Vanishes(t - x4) /\ ~Vanishes(x5 - p)

(* Four lines as drawn end in one point.                                   *)
LEMMA SameSums ==
    ASSUME NEW p \in Int, NEW y1 \in Int, NEW q \in Int, NEW y2 \in Int,
           NEW t \in Int, NEW y3 \in Int, NEW a \in Int, NEW x4 \in Int, NEW y4 \in Int,
           NEW b \in Int, NEW x5 \in Int, NEW y5 \in Int, NEW c \in Int, NEW x6 \in Int,
           NEW y6 \in Int, NEW d \in Int, NEW x7 \in Int, NEW y7 \in Int,
           FourLines(p, y1, q, y2, t, y3, a, x4, y4, b, x5, y5, c, x6, y6, d, x7, y7),
           x6 \in Residue, y6 \in Residue, x7 \in Residue, y7 \in Residue
    PROVE  x6 = x7 /\ y6 = y7
<1>1. PICK e1 \in Int, f1 \in Int, e2 \in Int, f2 \in Int :
          /\ e1 = x4 - (a * a - p - q) /\ Vanishes(e1)
          /\ f1 = y4 - (a * (p - x4) - y1) /\ Vanishes(f1)
          /\ e2 = x5 - (b * b - q - t) /\ Vanishes(e2)
          /\ f2 = y5 - (b * (q - x5) - y2) /\ Vanishes(f2)
  BY DEF FourLines, LineTo
<1>2. PICK e3 \in Int, f3 \in Int, e4 \in Int, f4 \in Int :
          /\ e3 = x6 - (c * c - x4 - t) /\ Vanishes(e3)
          /\ f3 = y6 - (c * (x4 - x6) - y4) /\ Vanishes(f3)
          /\ e4 = x7 - (d * d - p - x5) /\ Vanishes(e4)
          /\ f4 = y7 - (d * (p - x7) - y1) /\ Vanishes(f4)
  BY DEF FourLines, LineTo
<1>3. PICK a1 \in Int, a2 \in Int :
          /\ a1 = a * (q - p) - (y2 - y1) /\ Vanishes(a1)
          /\ a2 = q * q + q * p + p * p - a * a * (q - p) - 2 * a * y1 /\ Vanishes(a2)
  BY DEF FourLines, LineTo, Meets
<1>4. PICK b1 \in Int, b2 \in Int :
          /\ b1 = b * (t - q) - (y3 - y2) /\ Vanishes(b1)
          /\ b2 = t * t + t * q + q * q - b * b * (t - q) - 2 * b * y2 /\ Vanishes(b2)
  BY DEF FourLines, LineTo, Meets
<1>5. PICK c1 \in Int : c1 = c * (t - x4) - (y3 - y4) /\ Vanishes(c1)
  BY DEF FourLines, LineTo, Meets
<1>6. PICK d1 \in Int : d1 = d * (x5 - p) - (y5 - y1) /\ Vanishes(d1)
  BY DEF FourLines, LineTo, Meets
<1>7. PICK v \in Int, D \in Int, E \in Int, M \in Int, N \in Int :
          /\ v = 2 * y2
          /\ D = p + q + t - a * a
          /\ E = b * b - p - q - t
          /\ M = v + b * (t - q) - a * (p + 2 * q - a * a)
          /\ N = b * (2 * q + t - b * b) - v + a * (q - p)
  OBVIOUS
<1>8. ~Vanishes(D)
  <2> SUFFICES ASSUME Vanishes(D) PROVE FALSE
    OBVIOUS
  <2>1. Vanishes(1 * D + (-1) * e1)
    BY ONLY <1>1, Vanishes(D), D \in Int, 1 \in Int, -1 \in Int, Combine2
  <2>2. 1 * D + (-1) * e1 = t - x4
    BY <1>1, <1>7
  <2> QED BY <2>1, <2>2 DEF FourLines
<1>9. ~Vanishes(E)
  <2> SUFFICES ASSUME Vanishes(E) PROVE FALSE
    OBVIOUS
  <2>1. Vanishes(1 * E + 1 * e2)
    BY ONLY <1>1, Vanishes(E), E \in Int, 1 \in Int, Combine2
  <2>2. 1 * E + 1 * e2 = x5 - p
    BY <1>1, <1>7
  <2> QED BY <2>1, <2>2 DEF FourLines
<1>10. PICK g \in Int : g = a * (v - a * (q - p)) - (p * p + p * q + q * q) /\ Vanishes(g)
  <2>1. PICK m \in Int : m = -(2 * a)
    OBVIOUS
  <2>2. Vanishes((-1) * a2 + m * a1)
    BY ONLY <1>3, <2>1, -1 \in Int, Combine2
  <2>3. (-1) * a2 + m * a1 = a * (v - a * (q - p)) - (p * p + p * q + q * q)
    BY <1>3, <1>7, <2>1
  <2> QED BY <2>2, <2>3
<1>11. PICK h \in Int : h = b * (v + b * (t - q)) - (q * q + q * t + t * t) /\ Vanishes(h)
  <2>1. Vanishes((-1) * b2 + 0 * b1)
    BY ONLY <1>4, -1 \in Int, 0 \in Int, Combine2
  <2>2. (-1) * b2 + 0 * b1 = b * (v + b * (t - q)) - (q * q + q * t + t * t)
    BY <1>4, <1>7
  <2> QED BY <2>1, <2>2
<1>12. PICK i \in Int : i = c * D - M /\ Vanishes(i)
  <2>1. PICK m \in Int, n \in Int : m = c + a /\ n = 1 * c1 + m * e1 + 1 * a1 + (-1) * b1
    BY <1>1
  <2>2. Vanishes(n)
    <3>1. Vanishes(1 * c1 + m * e1 + 1 * a1 + (-1) * b1)
      BY ONLY <1>1, <1>3, <1>4, <1>5, m \in Int, 1 \in Int, -1 \in Int, Combine4
    <3> QED BY <2>1, <3>1
  <2>3. Vanishes(1 * n + (-1) * f1)
    BY ONLY <1>1, <2>2, n \in Int, 1 \in Int, -1 \in Int, Combine2
  <2>4. 1 * n + (-1) * f1 = c * D - M
    BY <1>1, <1>3, <1>4, <1>5, <1>7, <2>1
  <2> QED BY <2>3, <2>4
<1>13. PICK j \in Int : j = d * E - N /\ Vanishes(j)
  <2>1. PICK m \in Int : m = -(b + d)
    OBVIOUS
  <2>2. Vanishes(1 * d1 + 1 * f2 + m * e2 + (-1) * a1)
    BY ONLY <1>1, <1>3, <1>6, m \in Int, 1 \in Int, -1 \in Int, Combine4
  <2>3. 1 * d1 + 1 * f2 + m * e2 + (-1) * a1 = d * E - N
    BY <1>1, <1>3, <1>6, <1>7, <2>1
  <2> QED BY <2>2, <2>3
<1>14. TwoWays(p, q, t, v, a, b, c, d, D, M, E, N, g, h, i, j)
  BY <1>7, <1>8, <1>9, <1>10, <1>11, <1>12, <1>13 DEF TwoWays
<1>15. PICK n1 \in Int, n2 \in Int :
          /\ n1 = c * c - d * d - (a * a - b * b + 2 * t - 2 * p) /\ Vanishes(n1)
          /\ n2 = c * (2 * t + a * a - p - q - c * c) - d * (t + a * a - q - c * c)
                    - (a * (q - p) + b * (t - q))
          /\ Vanishes(n2)
  <2>1. Vanishes(c * c - d * d - (a * a - b * b + 2 * t - 2 * p))
    BY ONLY <1>14, SameAbscissa, p \in Int, q \in Int, t \in Int, v \in Int,
              a \in Int, b \in Int, c \in Int, d \in Int, D \in Int, E \in Int, M \in Int,
              N \in Int, g \in Int, h \in Int, i \in Int, j \in Int
  <2>2. Vanishes(c * (2 * t + a * a - p - q - c * c) - d * (t + a * a - q - c * c)
                   - (a * (q - p) + b * (t - q)))
    BY ONLY <1>14, SameOrdinate, p \in Int, q \in Int, t \in Int, v \in Int,
              a \in Int, b \in Int, c \in Int, d \in Int, D \in Int, E \in Int, M \in Int,
              N \in Int, g \in Int, h \in Int, i \in Int, j \in Int
  <2> QED BY <2>1, <2>2
<1>16. x6 = x7
  <2>1. PICK m \in Int : m = 1 * e3 + (-1) * e4 + (-1) * e1 + 1 * e2
    OBVIOUS
  <2>2. Vanishes(m)
    <3>1. Vanishes(1 * e3 + (-1) * e4 + (-1) * e1 + 1 * e2)
      BY ONLY <1>1, <1>2, 1 \in Int, -1 \in Int, Combine4
    <3> QED BY <2>1, <3>1
  <2>3. Vanishes(1 * m + 1 * n1)
    BY ONLY <1>15, <2>2, m \in Int, 1 \in Int, Combine2
  <2>4. 1 * m + 1 * n1 = x6 - x7
    BY <1>1, <1>2, <1>15, <2>1
  <2> QED BY <2>3, <2>4, SameResidue
<1>17. y6 = y7
  <2>1. PICK m \in Int : m = 1 * n2 + 1 * f3 + (-1) * f4 + (-1) * c1
    OBVIOUS
  <2>2. Vanishes(m)
    <3>1. Vanishes(1 * n2 + 1 * f3 + (-1) * f4 + (-1) * c1)
      BY ONLY <1>2, <1>5, <1>15, 1 \in Int, -1 \in Int, Combine4
    <3> QED BY <2>1, <3>1
  <2>3. PICK k \in Int, l \in Int, n \in Int :
            k = c - d /\ l = d - c /\ n = 1 * b1 + 1 * a1 + k * e1 + l * e3
    OBVIOUS
  <2>4. Vanishes(n)
    <3>1. Vanishes(1 * b1 + 1 * a1 + k * e1 + l * e3)
      BY ONLY <1>1, <1>2, <1>3, <1>4, k \in Int, l \in Int, 1 \in Int, Combine4
    <3> QED BY <2>3, <3>1
  <2>5. Vanishes(1 * m + 1 * n)
    BY ONLY <2>2, <2>4, m \in Int, n \in Int, 1 \in Int, Combine2
  <2>6. 1 * m + 1 * n = y6 - y7
    BY <1>1, <1>2, <1>3, <1>4, <1>5, <1>15, <1>16, <2>1, <2>3
  <2> QED BY <2>5, <2>6, SameResidue
<1> QED BY <1>16, <1>17

(* The sum of two points that are not opposite, by a line.                 *)
LEMMA SumByLine ==
    ASSUME NEW X1 \in Residue, NEW Y1 \in Residue, OnCurve(X1, Y1),
           NEW X2 \in Residue, NEW Y2 \in Residue, OnCurve(X2, Y2),
           <<X1, Y1>> # Curve!Inverted(<<X2, Y2>>)
    PROVE  \E L \in Int, X \in Residue, Y \in Residue :
              /\ LineTo(X1, Y1, X2, Y2, L, X, Y) /\ OnCurve(X, Y)
              /\ Curve!Plus(<<X1, Y1>>, <<X2, Y2>>) = <<X, Y>>
<1>1. X1 \in Int /\ Y1 \in Int /\ X2 \in Int /\ Y2 \in Int
  BY ResiduesAreInts
<1>2. PICK L \in Int : /\ Meets(X1, Y1, X2, Y2, L)
                       /\ Curve!Plus(<<X1, Y1>>, <<X2, Y2>>)
                            = <<ThirdX(X1, X2, L), ThirdY(X1, Y1, X2, L)>>
  BY Opposite, LineThrough
<1>3. PICK X \in Residue, Y \in Residue :
          /\ X = ThirdX(X1, X2, L) /\ Y = ThirdY(X1, Y1, X2, L)
          /\ Vanishes(X - (L * L - X1 - X2)) /\ Vanishes(Y - (L * (X1 - X) - Y1))
  BY <1>1, ThirdDefined
<1>4. <<X1, Y1>> \in CurvePoints /\ <<X2, Y2>> \in CurvePoints
  BY DEF CurvePoints
<1>5. <<X, Y>> \in CurvePoints
  BY <1>2, <1>3, <1>4, PlusOnCurve
<1>6. OnCurve(X, Y)
  BY <1>5, PairsAreFinite DEF CurvePoints
<1>7. LineTo(X1, Y1, X2, Y2, L, X, Y)
  BY <1>2, <1>3 DEF LineTo
<1> QED BY <1>2, <1>3, <1>6, <1>7

(* Associativity when all four sums are by lines, the outer ones through   *)
(* two different abscissas.                                                *)
LEMMA GenericSums ==
    ASSUME NEW P \in CurvePoints, NEW Q \in CurvePoints, NEW R \in CurvePoints,
           P # Curve!Identity, Q # Curve!Identity, R # Curve!Identity,
           P # Curve!Inverted(Q), Q # Curve!Inverted(R),
           Curve!Plus(P, Q) # Curve!Inverted(R), Curve!Plus(P, Q) # R,
           P # Curve!Inverted(Curve!Plus(Q, R)), P # Curve!Plus(Q, R)
    PROVE  Curve!Plus(Curve!Plus(P, Q), R) = Curve!Plus(P, Curve!Plus(Q, R))
<1>1. PICK p \in Residue, y1 \in Residue : P = <<p, y1>> /\ OnCurve(p, y1)
  BY FinitePoint
<1>2. PICK q \in Residue, y2 \in Residue : Q = <<q, y2>> /\ OnCurve(q, y2)
  BY FinitePoint
<1>3. PICK t \in Residue, y3 \in Residue : R = <<t, y3>> /\ OnCurve(t, y3)
  BY FinitePoint
<1>4. PICK a \in Int, x4 \in Residue, y4 \in Residue :
          /\ LineTo(p, y1, q, y2, a, x4, y4) /\ OnCurve(x4, y4)
          /\ Curve!Plus(P, Q) = <<x4, y4>>
  BY <1>1, <1>2, SumByLine
<1>5. PICK b \in Int, x5 \in Residue, y5 \in Residue :
          /\ LineTo(q, y2, t, y3, b, x5, y5) /\ OnCurve(x5, y5)
          /\ Curve!Plus(Q, R) = <<x5, y5>>
  BY <1>2, <1>3, SumByLine
<1>6. PICK c \in Int, x6 \in Residue, y6 \in Residue :
          /\ LineTo(x4, y4, t, y3, c, x6, y6)
          /\ Curve!Plus(<<x4, y4>>, <<t, y3>>) = <<x6, y6>>
  BY <1>3, <1>4, SumByLine
<1>7. PICK d \in Int, x7 \in Residue, y7 \in Residue :
          /\ LineTo(p, y1, x5, y5, d, x7, y7)
          /\ Curve!Plus(<<p, y1>>, <<x5, y5>>) = <<x7, y7>>
  BY <1>1, <1>5, SumByLine
<1>8. t # x4
  <2> SUFFICES ASSUME t = x4 PROVE FALSE
    OBVIOUS
  <2>1. y4 = y3 \/ Vanishes(y4 + y3)
    BY <1>3, <1>4, SameX
  <2> QED BY <1>3, <1>4, <2>1, Opposite
<1>9. x5 # p
  <2> SUFFICES ASSUME x5 = p PROVE FALSE
    OBVIOUS
  <2>1. y1 = y5 \/ Vanishes(y1 + y5)
    BY <1>1, <1>5, SameX
  <2> QED BY <1>1, <1>5, <2>1, Opposite
<1>10. FourLines(p, y1, q, y2, t, y3, a, x4, y4, b, x5, y5, c, x6, y6, d, x7, y7)
  <2>1. ~Vanishes(t - x4) /\ ~Vanishes(x5 - p)
    BY <1>8, <1>9, SameResidue
  <2> QED BY <1>4, <1>5, <1>6, <1>7, <2>1 DEF FourLines
<1>11. x6 = x7 /\ y6 = y7
  <2>1. /\ p \in Int /\ y1 \in Int /\ q \in Int /\ y2 \in Int /\ t \in Int /\ y3 \in Int
        /\ x4 \in Int /\ y4 \in Int /\ x5 \in Int /\ y5 \in Int
        /\ x6 \in Int /\ y6 \in Int /\ x7 \in Int /\ y7 \in Int
    BY ResiduesAreInts
  <2> QED BY ONLY <1>10, <2>1, SameSums, a \in Int, b \in Int, c \in Int, d \in Int,
              x6 \in Residue, y6 \in Residue, x7 \in Residue, y7 \in Residue
<1> QED BY <1>1, <1>3, <1>4, <1>5, <1>6, <1>7, <1>11

(* Associativity unless an outer sum is of equal points: opposite points   *)
(* cancel.                                                                 *)
LEMMA MostSums ==
    ASSUME NEW P \in CurvePoints, NEW Q \in CurvePoints, NEW R \in CurvePoints,
           Curve!Plus(P, Q) # R, P # Curve!Plus(Q, R)
    PROVE  Curve!Plus(Curve!Plus(P, Q), R) = Curve!Plus(P, Curve!Plus(Q, R))
<1>0. /\ Curve!Plus(P, Q) \in CurvePoints /\ Curve!Plus(Q, R) \in CurvePoints
      /\ Curve!Inverted(P) \in CurvePoints /\ Curve!Inverted(R) \in CurvePoints
      /\ Curve!Inverted(Curve!Inverted(P)) = P /\ Curve!Inverted(Curve!Inverted(R)) = R
  BY PlusOnCurve, Inverses
<1>1. CASE P = Curve!Identity \/ Q = Curve!Identity \/ R = Curve!Identity
  BY <1>0, <1>1, PlusIdentity
<1>2. CASE P = Curve!Inverted(Q)
  <2>1. Curve!Plus(P, Q) = Curve!Identity
    BY <1>2, OppositeSum
  <2>2. Curve!Plus(Curve!Plus(R, Q), P) = R
    BY <1>2, Removed
  <2> QED BY <1>0, <2>1, <2>2, PlusIdentity, Commutative
<1>3. CASE Q = Curve!Inverted(R)
  <2>1. Curve!Plus(Q, R) = Curve!Identity
    BY <1>3, OppositeSum
  <2>2. R = Curve!Inverted(Q)
    BY <1>0, <1>3
  <2>3. Curve!Plus(Curve!Plus(P, Q), R) = P
    BY <2>2, Removed
  <2> QED BY <2>1, <2>3, PlusIdentity
<1>4. CASE Curve!Plus(P, Q) = Curve!Inverted(R)
  <2>1. Curve!Plus(Q, R) = Curve!Inverted(P)
    BY <1>0, <1>4, Turned
  <2> QED BY <1>0, <1>4, <2>1, OppositeSum
<1>5. CASE P = Curve!Inverted(Curve!Plus(Q, R))
  <2>1. Curve!Plus(R, P) = Curve!Inverted(Q)
    BY <1>5, Turned
  <2>2. Curve!Plus(P, Curve!Inverted(Curve!Plus(R, P))) = Curve!Inverted(R)
    BY Turned
  <2>3. Curve!Plus(P, Q) = Curve!Inverted(R)
    BY <2>1, <2>2, Inverses
  <2> QED BY <1>4, <2>3
<1>6. CASE /\ P # Curve!Identity /\ Q # Curve!Identity /\ R # Curve!Identity
           /\ P # Curve!Inverted(Q) /\ Q # Curve!Inverted(R)
           /\ Curve!Plus(P, Q) # Curve!Inverted(R)
           /\ P # Curve!Inverted(Curve!Plus(Q, R))
  BY <1>6, GenericSums
<1> QED BY <1>1, <1>2, <1>3, <1>4, <1>5, <1>6

(* The lines through P + Q and R coincide when these are one point: those  *)
(* cases follow from others.                                               *)
LEMMA FourTimes ==
    ASSUME NEW P \in CurvePoints
    PROVE  Curve!Plus(Curve!Plus(P, P), Curve!Plus(P, P))
             = Curve!Plus(P, Curve!Plus(P, Curve!Plus(P, P)))
<1>1. PICK D \in CurvePoints : D = Curve!Plus(P, P)
  BY PlusOnCurve
<1>2. PICK N \in CurvePoints : N = Curve!Inverted(P) /\ Curve!Inverted(N) = P
  BY Inverses
<1>3. /\ Curve!Plus(D, N) = P
      /\ Curve!Plus(D, D) \in CurvePoints /\ Curve!Plus(P, D) \in CurvePoints
  BY <1>1, <1>2, Removed, PlusOnCurve
<1>4. CASE P = Curve!Identity
  BY <1>4, PlusIdentity
<1>5. CASE Curve!Plus(D, D) = N
  <2>1. Curve!Plus(D, P) = Curve!Inverted(D)
    BY <1>2, <1>5, Turned
  <2>2. Curve!Plus(P, D) = Curve!Inverted(D)
    BY <2>1, Commutative
  <2>3. Curve!Plus(P, Curve!Inverted(D)) = Curve!Inverted(P)
    BY <1>1, Turned
  <2> QED BY <1>1, <1>2, <1>5, <2>2, <2>3
<1>6. CASE P # Curve!Identity /\ Curve!Plus(D, D) # N
  <2>1. D # P
    <3>1. Curve!Plus(Curve!Identity, P) = P /\ Curve!Identity \in CurvePoints
      BY PlusIdentity DEF CurvePoints
    <3> QED BY <1>1, <1>6, <3>1, Cancelled
  <2>2. Curve!Plus(Curve!Plus(D, D), N) = Curve!Plus(D, P)
    BY <1>3, <1>6, <2>1, MostSums
  <2>3. Curve!Plus(Curve!Plus(Curve!Plus(D, D), N), P) = Curve!Plus(D, D)
    BY <1>2, <1>3, Removed
  <2>4. Curve!Plus(Curve!Plus(D, P), P) = Curve!Plus(P, Curve!Plus(P, D))
    BY <1>3, Commutative
  <2> QED BY <1>1, <2>2, <2>3, <2>4
<1> QED BY <1>4, <1>5, <1>6

(* An outer sum of equal points, R = P + Q.                                *)
LEMMA SumsMeet ==
    ASSUME NEW P \in CurvePoints, NEW Q \in CurvePoints, NEW R \in CurvePoints,
           R = Curve!Plus(P, Q)
    PROVE  Curve!Plus(R, R) = Curve!Plus(P, Curve!Plus(Q, R))
<1>1. PICK N \in CurvePoints : N = Curve!Inverted(P) /\ Curve!Inverted(N) = P
  BY Inverses
<1>2. PICK D \in CurvePoints : D = Curve!Plus(R, R)
  BY PlusOnCurve
<1>3. Curve!Plus(R, N) = Q
  <2>1. R = Curve!Plus(Q, P)
    BY Commutative
  <2> QED BY <1>1, <2>1, Removed
<1>4. CASE P = Curve!Identity
  <2>1. R = Q
    BY <1>4, PlusIdentity
  <2>2. Curve!Plus(P, Curve!Plus(Q, R)) = Curve!Plus(Q, R)
    BY <1>4, PlusIdentity, PlusOnCurve
  <2> QED BY <2>1, <2>2
<1>5. CASE D = N
  <2>1. Q = Curve!Plus(R, D)
    BY <1>3, <1>5
  <2>2. Curve!Plus(Q, R) = Curve!Plus(R, Curve!Plus(R, D))
    BY <2>1, Commutative
  <2>3. Curve!Plus(Q, R) = Curve!Plus(D, D)
    BY <1>2, <2>2, FourTimes
  <2>4. Curve!Plus(Curve!Plus(D, D), Curve!Inverted(D)) = D
    BY Removed
  <2>5. Curve!Plus(Curve!Plus(D, D), P) = D
    BY <1>1, <1>5, <2>4
  <2> QED BY <1>2, <2>3, <2>5, Commutative, PlusOnCurve
<1>6. CASE P # Curve!Identity /\ D # N
  <2>1. R # Q
    <3>1. Curve!Plus(Curve!Identity, Q) = Q /\ Curve!Identity \in CurvePoints
      BY PlusIdentity DEF CurvePoints
    <3> QED BY <1>6, <3>1, Cancelled
  <2>2. Curve!Plus(D, N) = Curve!Plus(R, Q)
    BY <1>2, <1>3, <1>6, <2>1, MostSums
  <2>3. Curve!Plus(Curve!Plus(D, N), P) = D
    BY <1>1, Removed
  <2>4. Curve!Plus(R, Q) = Curve!Plus(Q, R) /\ Curve!Plus(Q, R) \in CurvePoints
    BY Commutative, PlusOnCurve
  <2> QED BY <1>2, <2>2, <2>3, <2>4, Commutative
<1> QED BY <1>4, <1>5, <1>6

(* The affine sum is associative.                                          *)
LEMMA Associative ==
    \A P, Q, R \in CurvePoints :
        Curve!Plus(Curve!Plus(P, Q), R) = Curve!Plus(P, Curve!Plus(Q, R))
<1> SUFFICES ASSUME NEW P \in CurvePoints, NEW Q \in CurvePoints, NEW R \in CurvePoints
             PROVE  Curve!Plus(Curve!Plus(P, Q), R) = Curve!Plus(P, Curve!Plus(Q, R))
  OBVIOUS
<1>1. CASE Curve!Plus(P, Q) = R
  BY <1>1, SumsMeet
<1>2. CASE P = Curve!Plus(Q, R)
  <2>1. P = Curve!Plus(R, Q)
    BY <1>2, Commutative
  <2>2. Curve!Plus(P, P) = Curve!Plus(R, Curve!Plus(Q, P))
    BY <2>1, SumsMeet
  <2>3. Curve!Plus(R, Curve!Plus(Q, P)) = Curve!Plus(Curve!Plus(P, Q), R)
    BY Commutative, PlusOnCurve
  <2> QED BY <1>2, <2>2, <2>3
<1>3. CASE Curve!Plus(P, Q) # R /\ P # Curve!Plus(Q, R)
  BY <1>3, MostSums
<1> QED BY <1>1, <1>2, <1>3

(* What verifyPoint accepts are the points the proofs speak of.            *)
LEMMA PointsOfCurve == Curve!Points = CurvePoints
<1>1. B \in Int /\ \A n \in Residue : n \in Int
  BY BIsInt, ResiduesAreInts
<1>2. ASSUME NEW X \in Residue, NEW Y \in Residue
      PROVE  (Y * Y) % Prime = (X * X * X + 0 * X + B) % Prime <=> OnCurve(X, Y)
  <2>1. PICK b \in Int : b = B /\ X \in Int /\ Y \in Int
    BY <1>1
  <2>2. PICK n \in Int, k \in Int : n = Y * Y /\ k = X * X * X + 0 * X + b
    BY <2>1
  <2>3. PICK e \in Residue, f \in Residue :
            /\ e = Mod(n) /\ e \in Int /\ Vanishes(e - n)
            /\ f = Mod(k) /\ f \in Int /\ Vanishes(f - k)
    BY ModVanishes, ModIsResidue
  <2>4. PICK c \in Int, d \in Int, a \in Int : /\ c = e - n /\ Vanishes(c)
                                               /\ d = f - k /\ Vanishes(d)
                                               /\ a = n - k
    BY <2>3
  <2>5. ASSUME e = f PROVE Vanishes(a)
    <3>1. Vanishes((-1) * c + 1 * d)
      BY ONLY <2>4, 1 \in Int, -1 \in Int, Combine2
    <3>2. (-1) * c + 1 * d = a
      BY <2>3, <2>4, <2>5
    <3> QED BY <3>1, <3>2
  <2>6. ASSUME Vanishes(a) PROVE e = f
    <3>1. Vanishes(1 * c + (-1) * d + 1 * a)
      BY ONLY <2>4, <2>6, 1 \in Int, -1 \in Int, Combine3
    <3>2. 1 * c + (-1) * d + 1 * a = e - f
      BY <2>3, <2>4
    <3> QED BY <3>1, <3>2, SameResidue
  <2>7. a = Y * Y - X * X * X - B
    BY <2>1, <2>2, <2>4
  <2>8. e = (Y * Y) % Prime /\ f = (X * X * X + 0 * X + B) % Prime
    BY <2>1, <2>2, <2>3 DEF Mod
  <2> QED BY <2>5, <2>6, <2>7, <2>8 DEF OnCurve
<1>3. ASSUME NEW P \in Residue \X Residue
      PROVE  Curve!VerifyPoint(P) <=> OnCurve(P[1], P[2])
  <2>1. PICK X \in Residue, Y \in Residue : P = <<X, Y>>
    BY <1>3
  <2>2. P # Curve!Identity
    BY <2>1 DEF Curve!Identity
  <2>3. Curve!VerifyPoint(P) <=> (Y * Y) % Prime = (X * X * X + 0 * X + B) % Prime
    BY <2>1, <2>2 DEF Curve!VerifyPoint
  <2> QED BY <1>2, <2>1, <2>3
<1> QED BY <1>3 DEF Curve!Points, CurvePoints, Residue

(* For every prime above 3 and every b that is not zero, the affine        *)
(* addition of Ramsch/EllipticCurve.cpp is associative on the points that  *)
(* verifyPoint accepts.                                                    *)
THEOREM PointsAssociate == Curve!IsAssociative
BY Associative, PointsOfCurve DEF Curve!IsAssociative

---------------------------------------------------------------------------
(* Multiples.                                                              *)

(* The multiples of a point.                                               *)
MultiplesOf(P) ==
    CHOOSE f : Iterates(f, Nat, CurvePoints, Curve!Identity,
                        [n \in Nat |-> [Q \in CurvePoints |-> Curve!Plus(Q, P)]])

Times(P, n) == MultiplesOf(P)[n]

(* Multiples of a point are what adding it again and again gives.          *)
LEMMA TimesDefined ==
    ASSUME NEW P \in CurvePoints
    PROVE  /\ \A n \in Nat : Times(P, n) \in CurvePoints
           /\ Times(P, 0) = Curve!Identity
           /\ \A n \in Nat : Times(P, n + 1) = Curve!Plus(Times(P, n), P)
<1> DEFINE step == [n \in Nat |-> [Q \in CurvePoints |-> Curve!Plus(Q, P)]]
           f    == MultiplesOf(P)
<1>1. step \in [Nat -> [CurvePoints -> CurvePoints]]
  BY PlusOnCurve
<1>2. \A n \in Nat, Q \in CurvePoints : step[n][Q] = Curve!Plus(Q, P)
  OBVIOUS
<1>3. f = CHOOSE g : Iterates(g, Nat, CurvePoints, Curve!Identity, step)
  BY DEF MultiplesOf
<1> HIDE DEF step, f
<1>4. Curve!Identity \in CurvePoints
  BY DEF CurvePoints
<1>5. Iterates(f, Nat, CurvePoints, Curve!Identity, step)
  BY <1>1, <1>3, <1>4, Recursion
<1>6. f \in [Nat -> CurvePoints] /\ f[0] = Curve!Identity
  BY <1>5 DEF Iterates
<1>7. ASSUME NEW n \in Nat PROVE f[n + 1] = Curve!Plus(f[n], P)
  <2>1. n + 1 \in Nat /\ n + 1 # 0 /\ (n + 1) - 1 = n
    OBVIOUS
  <2>2. f[n + 1] = step[n + 1][f[(n + 1) - 1]]
    BY <1>5, <2>1 DEF Iterates
  <2> QED BY <1>2, <1>6, <2>1, <2>2
<1> QED BY <1>6, <1>7 DEF Times, f

(* The first multiple is the point.                                        *)
LEMMA TimesOne ==
    ASSUME NEW P \in CurvePoints
    PROVE  Times(P, 1) = P
<1>1. Times(P, 0 + 1) = Curve!Plus(Times(P, 0), P)
  BY TimesDefined
<1> QED BY <1>1, TimesDefined, PlusIdentity

(* The multiple by a sum is the sum of the multiples.                      *)
LEMMA TimesSum ==
    ASSUME NEW P \in CurvePoints, NEW m \in Nat, NEW n \in Nat
    PROVE  Times(P, m + n) = Curve!Plus(Times(P, m), Times(P, n))
<1> DEFINE T == {k \in Nat : Times(P, m + k) = Curve!Plus(Times(P, m), Times(P, k))}
<1>1. 0 \in T
  BY TimesDefined, PlusIdentity
<1>2. ASSUME NEW k \in Nat, k \in T PROVE k + 1 \in T
  <2>1. m + k \in Nat /\ m + (k + 1) = (m + k) + 1
    OBVIOUS
  <2>2. Times(P, (m + k) + 1) = Curve!Plus(Times(P, m + k), P)
    BY <2>1, TimesDefined
  <2>3. Times(P, k + 1) = Curve!Plus(Times(P, k), P)
    BY TimesDefined
  <2>4. Curve!Plus(Curve!Plus(Times(P, m), Times(P, k)), P)
          = Curve!Plus(Times(P, m), Curve!Plus(Times(P, k), P))
    BY Associative, TimesDefined
  <2> QED BY <1>2, <2>1, <2>2, <2>3, <2>4
<1> HIDE DEF T
<1>3. Nat \subseteq T
  BY <1>1, <1>2, Induction
<1> QED BY <1>3 DEF T

(* A multiple of a multiple is the multiple by the product.                *)
LEMMA TimesProduct ==
    ASSUME NEW P \in CurvePoints, NEW m \in Nat, NEW n \in Nat
    PROVE  Times(Times(P, m), n) = Times(P, m * n)
<1> DEFINE T == {k \in Nat : Times(Times(P, m), k) = Times(P, m * k)}
<1>0. Times(P, m) \in CurvePoints
  BY TimesDefined
<1>1. 0 \in T
  BY <1>0, TimesDefined
<1>2. ASSUME NEW k \in Nat, k \in T PROVE k + 1 \in T
  <2>1. PICK j \in Nat : j = m * k /\ m * (k + 1) = j + m
    OBVIOUS
  <2>2. Times(P, j + m) = Curve!Plus(Times(P, j), Times(P, m))
    BY TimesSum
  <2>3. Times(Times(P, m), k + 1) = Curve!Plus(Times(Times(P, m), k), Times(P, m))
    BY <1>0, TimesDefined
  <2> QED BY <1>2, <2>1, <2>2, <2>3
<1> HIDE DEF T
<1>3. Nat \subseteq T
  BY <1>1, <1>2, Induction
<1> QED BY <1>3 DEF T

(* Doubling m times, the table, and the windows.                           *)
LEMMA TwiceRepeatedRepresents ==
    ASSUME NEW P \in CurvePoints, NEW a \in Nat, NEW p, Represents(p, Times(P, a)), NEW m \in Nat
    PROVE  Represents(TwiceRepeated(p, m), Times(P, 2 ^ m * a))
<1>0. p \in Point
  BY RepresentsPoint
<1>1. PICK v \in [0..m -> Point] :
          /\ v[0] = p /\ \A k \in 0..m - 1 : v[k + 1] = Twice(v[k])
          /\ TwiceRepeated(p, m) = v[m]
  BY <1>0, TwiceRepeatedSteps
<1> DEFINE T == {k \in 0..m : Represents(v[k], Times(P, 2 ^ k * a))}
<1>2. 0 \in T
  <2>1. 2 ^ 0 * a = a
    BY PowersOfTwo
  <2> QED BY <1>1, <2>1
<1>3. ASSUME NEW k \in 0..m - 1, k \in T PROVE k + 1 \in T
  <2>1. PICK n \in Nat : n = 2 ^ k * a
    BY PowersOfTwo
  <2>2. 2 ^ (k + 1) * a = n + n
    <3>1. PICK c \in Nat : c = 2 ^ k /\ 2 ^ (k + 1) = 2 * c
      BY PowersOfTwo
    <3> QED BY <2>1, <3>1
  <2>3. Represents(Twice(v[k]), Curve!Plus(Times(P, n), Times(P, n)))
    BY <1>3, <2>1, TwiceRepresents
  <2>4. Times(P, n + n) = Curve!Plus(Times(P, n), Times(P, n))
    BY TimesSum
  <2>5. k + 1 \in 0..m /\ v[k + 1] = Twice(v[k])
    BY <1>1
  <2>6. Represents(v[k + 1], Times(P, 2 ^ (k + 1) * a))
    BY <2>2, <2>3, <2>4, <2>5
  <2> QED BY <2>5, <2>6
<1>4. 0..m \subseteq T
  <2> HIDE DEF T
  <2> QED BY <1>2, <1>3, InductionUpTo
<1> QED BY <1>1, <1>4

(* The table of multiply holds the multiples of its point.                 *)
LEMMA TableRepresents ==
    ASSUME NEW P \in CurvePoints, NEW p, Represents(p, P)
    PROVE  \A k \in 0..2 ^ tableBits - 1 : Represents(Table(p)[k], Times(P, k))
<1>0. p \in Point
  BY RepresentsPoint
<1>1. PICK n \in Int : n = 2 ^ tableBits - 1
  BY TableAssumption, PowersOfTwo
<1>2. /\ Table(p)[0] = ZERO /\ Table(p)[1] = p
      /\ \A k \in 2..n : Table(p)[k] = IF k = 2 THEN Twice(p) ELSE Add(Table(p)[k - 1], p)
  BY <1>0, <1>1, TableOfPoints
<1>3. CASE n < 0
  BY <1>1, <1>3
<1>4. CASE n >= 0
  <2> DEFINE T == {k \in 0..n : Represents(Table(p)[k], Times(P, k))}
  <2>1. 0 \in T
    BY <1>2, <1>4, ZeroStands, TimesDefined
  <2>2. ASSUME NEW k \in 0..n - 1, k \in T PROVE k + 1 \in T
    <3>1. CASE k = 0
      BY <1>2, <3>1, TimesOne
    <3>2. CASE k = 1
      <4>1. Table(p)[2] = Twice(p)
        BY <1>2, <3>2
      <4>2. Times(P, 1 + 1) = Curve!Plus(P, P)
        BY TimesDefined, TimesOne
      <4> QED BY <3>2, <4>1, <4>2, TwiceRepresents
    <3>3. CASE k > 1
      <4>1. k + 1 \in 2..n /\ k + 1 # 2 /\ (k + 1) - 1 = k /\ k \in Nat
        BY <3>3
      <4>2. Table(p)[k + 1] = Add(Table(p)[k], p)
        BY <1>2, <4>1
      <4>3. Times(P, k + 1) = Curve!Plus(Times(P, k), P)
        BY <4>1, TimesDefined
      <4>4. Represents(Add(Table(p)[k], p), Curve!Plus(Times(P, k), P))
        BY <2>2, AddRepresents
      <4> QED BY <4>1, <4>2, <4>3, <4>4
    <3> QED BY <3>1, <3>2, <3>3
  <2>3. 0..n \subseteq T
    <3> HIDE DEF T
    <3>1. n \in Nat
      BY <1>4
    <3> QED BY <2>1, <2>2, <3>1, InductionUpTo
  <2> QED BY <1>1, <2>3
<1> QED BY <1>3, <1>4

(* multiply computes multiples.                                            *)
THEOREM MultiplyRepresents ==
    ASSUME NEW P \in CurvePoints, NEW p, Represents(p, P), NEW n \in 0..Width - 1
    PROVE  Represents(Multiply(p, n), Times(P, n))
<1>0. p \in Point /\ n \in Nat /\ n < Width /\ Windows \in Nat
  BY RepresentsPoint, WindowInTable, Primes
<1>1. PICK v \in [0..Windows -> Point] :
          /\ v[0] = ZERO
          /\ \A k \in 1..Windows :
                v[k] = Add(IF k = 1 THEN ZERO ELSE TwiceRepeated(v[k - 1], tableBits),
                           Table(p)[Window(n, k)])
          /\ Multiply(p, n) = v[Windows]
  BY <1>0, MultiplySums
<1> DEFINE Top(k) == n \div 2 ^ (Bits - k * tableBits)
           T == {k \in 0..Windows : Represents(v[k], Times(P, Top(k)))}
<1>2. Bits \in Nat /\ tableBits \in Nat \ {0} /\ Bits = Windows * tableBits
  BY TableAssumption DEF Windows
<1>3. Top(0) = 0 /\ Top(Windows) = n
  <2>1. Bits - 0 * tableBits = Bits /\ Bits - Windows * tableBits = 0
    BY <1>0, <1>2
  <2>2. n \div Width = 0
    BY <1>0, Primes, SmallQuotient
  <2>3. n \div 1 = n
    BY <1>0
  <2> QED BY <2>1, <2>2, <2>3, PowersOfTwo DEF Width
<1>4. 0 \in T
  BY <1>0, <1>1, <1>3, ZeroStands, TimesDefined
<1>5. ASSUME NEW k \in 0..Windows - 1, k \in T PROVE k + 1 \in T
  <2>1. PICK e \in Nat : e = Bits - (k + 1) * tableBits /\ Bits - k * tableBits = e + tableBits
    <3>1. PICK w \in Nat, t \in Nat, j \in Nat :
              w = Windows /\ t = tableBits /\ j = w - (k + 1) /\ k = w - 1 - j
      BY <1>0, <1>2
    <3>2. w * t - (k + 1) * t = j * t /\ w * t - k * t = j * t + t /\ j * t \in Nat
      BY <3>1
    <3> QED BY <1>2, <3>1, <3>2
  <2>2. PICK a \in Nat \ {0}, b \in Nat \ {0} :
            a = 2 ^ e /\ b = 2 ^ tableBits /\ 2 ^ (e + tableBits) = a * b
    BY <1>2, PowersOfTwo, PowersAdd
  <2>3. PICK q \in Nat, h \in Nat, w \in Nat :
            q = n \div a /\ h = q \div b /\ w = q % b /\ q = b * h + w /\ w \in 0..b - 1
    <3>1. PICK q \in Nat : q = n \div a
      BY <1>0, DividedTwice, 1 \in Nat \ {0}
    <3>2. PICK h \in Nat : h = q \div b
      BY DividedTwice, 1 \in Nat \ {0}
    <3>3. PICK w \in Nat : w = q % b /\ w \in 0..b - 1
      OBVIOUS
    <3>4. q = b * h + w
      BY <3>2, <3>3
    <3> QED BY <3>1, <3>2, <3>3, <3>4
  <2>4. Top(k + 1) = q /\ Window(n, k + 1) = w
    BY <2>1, <2>2, <2>3 DEF Window
  <2>5. Top(k) = h
    <3>1. n \div (a * b) = (n \div a) \div b
      BY <1>0, DividedTwice
    <3> QED BY <2>1, <2>2, <2>3, <3>1
  <2>6. Represents(Table(p)[w], Times(P, w))
    BY <2>2, <2>3, TableRepresents
  <2> DEFINE before == IF k + 1 = 1 THEN ZERO ELSE TwiceRepeated(v[k], tableBits)
  <2>7. Represents(before, Times(P, b * h))
    <3>1. CASE k = 0
      <4>1. b * h = 0
        BY <1>3, <2>5, <3>1
      <4> QED BY <3>1, <4>1, ZeroStands, TimesDefined
    <3>2. CASE k # 0
      <4>1. Represents(v[k], Times(P, h))
        BY <1>5, <2>5
      <4>2. Represents(TwiceRepeated(v[k], tableBits), Times(P, 2 ^ tableBits * h))
        BY <1>2, <4>1, TwiceRepeatedRepresents
      <4>3. before = TwiceRepeated(v[k], tableBits)
        BY <3>2
      <4> QED BY <2>2, <4>2, <4>3
    <3> QED BY <3>1, <3>2
  <2>8. v[k + 1] = Add(before, Table(p)[w])
    <3>1. k + 1 \in 1..Windows /\ (k + 1) - 1 = k
      BY <1>0
    <3> QED BY <1>1, <2>4, <3>1
  <2> HIDE DEF before
  <2>9. Represents(v[k + 1], Curve!Plus(Times(P, b * h), Times(P, w)))
    BY <2>6, <2>7, <2>8, AddRepresents
  <2>10. Times(P, b * h + w) = Curve!Plus(Times(P, b * h), Times(P, w))
    <3>1. b * h \in Nat
      OBVIOUS
    <3> QED BY <3>1, TimesSum
  <2>11. k + 1 \in 0..Windows /\ Top(k + 1) = b * h + w
    <3>1. k + 1 \in 0..Windows
      BY <1>0
    <3> HIDE DEF Top
    <3> QED BY <3>1, <2>3, <2>4
  <2>12. Represents(v[k + 1], Times(P, Top(k + 1)))
    BY <2>9, <2>10, <2>11
  <2> QED BY <2>11, <2>12
<1>6. 0..Windows \subseteq T
  <2> HIDE DEF T
  <2> QED BY <1>0, <1>4, <1>5, InductionUpTo
<1>7. Represents(v[Windows], Times(P, Top(Windows)))
  BY <1>0, <1>6
<1> QED BY <1>1, <1>3, <1>7

(* So does the double-and-add of the reference.                            *)
LEMMA BelowPower == \A n \in Nat : n < 2 ^ n
<1> DEFINE T == {n \in Nat : n < 2 ^ n}
<1>1. 0 \in T
  BY PowersOfTwo
<1>2. \A n \in Nat : n \in T => n + 1 \in T
  BY PowersOfTwo
<1> HIDE DEF T
<1>3. Nat \subseteq T
  BY <1>1, <1>2, Induction
<1> QED BY <1>3 DEF T

(* Doubling is adding a point to itself.                                   *)
LEMMA DoubleIsPlus == \A P \in CurvePoints : Curve!Double(P) = Curve!Plus(P, P)
<1> SUFFICES ASSUME NEW P \in CurvePoints PROVE Curve!Double(P) = Curve!Plus(P, P)
  OBVIOUS
<1>1. CASE P = Curve!Inverted(P)
  BY <1>1 DEF Curve!Double, Curve!Plus
<1>2. CASE P # Curve!Inverted(P)
  <2>1. P # Curve!Identity
    BY <1>2 DEF Curve!Inverted
  <2> QED BY <1>2, <2>1 DEF Curve!Plus
<1> QED BY <1>1, <1>2

LEMMA BitsBelow ==
    ASSUME NEW k \in Nat, NEW n \in Nat
    PROVE  /\ (k \div 2 ^ n) % 2 \in {0, 1}
           /\ k % 2 ^ n \in Nat
           /\ k % 2 ^ (n + 1) = (k % 2 ^ n) + ((k \div 2 ^ n) % 2) * 2 ^ n
<1>1. PICK a \in Nat \ {0} : a = 2 ^ n /\ 2 ^ (n + 1) = 2 * a
  BY PowersOfTwo
<1>2. PICK q \in Nat, e \in Nat : q = k \div a /\ e = k % a /\ k = a * q + e /\ e < a
  <2>1. PICK q \in Nat : q = k \div a
    BY DividedTwice, 1 \in Nat \ {0}
  <2>2. PICK e \in Nat : e = k % a /\ e < a
    OBVIOUS
  <2>3. k = a * q + e
    BY <2>1, <2>2
  <2> QED BY <2>1, <2>2, <2>3
<1>3. PICK h \in Int, w \in Nat : w = q % 2 /\ q = 2 * h + w /\ w \in {0, 1}
  OBVIOUS
<1>4. PICK m \in Nat \ {0}, c \in Nat : m = 2 * a /\ c = e + w * a /\ c < m
  <2>1. CASE w = 0
    BY <1>2, <2>1
  <2>2. CASE w = 1
    BY <1>2, <2>2
  <2> QED BY <1>3, <2>1, <2>2
<1>5. h * m + c = k
  <2>1. h * (2 * a) + (e + w * a) = a * (2 * h + w) + e
    OBVIOUS
  <2> QED BY <1>2, <1>3, <1>4, <2>1
<1>6. (h * m + c) % m = c
  <2>1. c \in 0..m - 1
    BY <1>4
  <2> QED BY ONLY <2>1, h \in Int, m \in Nat \ {0}, RemainderUnique
<1>7. k % m = c
  BY <1>5, <1>6
<1>8. (k \div 2 ^ n) % 2 = w /\ k % 2 ^ n = e /\ k % 2 ^ (n + 1) = c
  BY <1>1, <1>2, <1>3, <1>4, <1>7
<1>9. (k % 2 ^ n) + ((k \div 2 ^ n) % 2) * 2 ^ n = c
  BY <1>1, <1>4, <1>8
<1> QED BY <1>3, <1>8, <1>9

THEOREM ScalarIsTimes ==
    ASSUME NEW P \in CurvePoints, NEW k \in Nat
    PROVE  Curve!Scalar(P, k) = Times(P, k)
<1> DEFINE bits == CHOOSE n \in 0..k : k < 2 ^ n
           Doubles(v) == v = [n \in 0..bits |-> IF n = 0 THEN P ELSE Curve!Double(v[n - 1])]
           d == CHOOSE v : Doubles(v)
           Adds(v) == v = [n \in 0..bits |->
                             IF n = 0 THEN Curve!Identity
                             ELSE IF (k \div 2 ^ (n - 1)) % 2 = 1
                             THEN Curve!Plus(v[n - 1], d[n - 1]) ELSE v[n - 1]]
           a == CHOOSE v : Adds(v)
<1>1. bits \in Nat /\ k < 2 ^ bits
  <2>1. k \in 0..k /\ k < 2 ^ k
    BY BelowPower
  <2>2. bits \in 0..k /\ k < 2 ^ bits
    BY <2>1
  <2> QED BY <2>2
<1>2. Curve!Scalar(P, k) = a[bits]
  BY DEF Curve!Scalar
<1> HIDE DEF bits
<1>3. \A n \in 0..bits : n # 0 => /\ n - 1 \in Nat /\ n - 1 \in 0..bits
                                  /\ n = (n - 1) + 1 /\ n \in Nat
  BY <1>1
<1>4. \A n \in 0..bits : n # 0 => Times(P, 2 ^ n) = Curve!Double(Times(P, 2 ^ (n - 1)))
  <2> SUFFICES ASSUME NEW n \in 0..bits, n # 0
               PROVE  Times(P, 2 ^ n) = Curve!Double(Times(P, 2 ^ (n - 1)))
    OBVIOUS
  <2>1. PICK m \in Nat : m = n - 1 /\ n = m + 1
    BY <1>3
  <2>2. PICK c \in Nat : c = 2 ^ m /\ 2 ^ (m + 1) = c + c
    <3>1. PICK c \in Nat : c = 2 ^ m /\ 2 ^ (m + 1) = 2 * c
      BY PowersOfTwo
    <3> QED BY <3>1
  <2>3. Times(P, c + c) = Curve!Double(Times(P, c))
    BY TimesSum, TimesDefined, DoubleIsPlus
  <2> QED BY <2>1, <2>2, <2>3
<1>5. \A n \in 0..bits : d[n] = Times(P, 2 ^ n)
  <2> DEFINE f == [n \in 0..bits |-> Times(P, 2 ^ n)]
             T == {n \in 0..bits : d[n] = Times(P, 2 ^ n)}
  <2>0. Times(P, 2 ^ 0) = P
    BY PowersOfTwo, TimesOne
  <2>1. Doubles(f)
    <3>1. ASSUME NEW n \in 0..bits
          PROVE  f[n] = IF n = 0 THEN P ELSE Curve!Double(f[n - 1])
      <4>1. CASE n = 0
        BY <2>0, <4>1
      <4>2. CASE n # 0
        BY <1>3, <1>4, <4>2
      <4> QED BY <4>1, <4>2
    <3> QED BY <3>1
  <2>2. Doubles(d)
    <3> HIDE DEF f, Doubles
    <3> QED BY <2>1
  <2>3. \A n \in 0..bits : d[n] = IF n = 0 THEN P ELSE Curve!Double(d[n - 1])
    <3> HIDE DEF d
    <3> QED BY <2>2
  <2> HIDE DEF d
  <2>4. 0 \in T
    BY <1>1, <2>0, <2>3
  <2>5. ASSUME NEW n \in 0..bits - 1, n \in T PROVE n + 1 \in T
    <3>1. n + 1 \in 0..bits /\ n + 1 # 0 /\ (n + 1) - 1 = n
      BY <1>1
    <3>2. d[n + 1] = Curve!Double(d[n])
      BY <2>3, <3>1
    <3>3. Times(P, 2 ^ (n + 1)) = Curve!Double(Times(P, 2 ^ n))
      BY <1>4, <3>1
    <3> QED BY <2>5, <3>1, <3>2, <3>3
  <2>6. 0..bits \subseteq T
    <3> HIDE DEF T
    <3> QED BY <1>1, <2>4, <2>5, InductionUpTo
  <2> QED BY <2>6
<1> HIDE DEF d
<1>6. ASSUME NEW n \in 0..bits, n # 0
      PROVE  Times(P, k % 2 ^ n) = IF (k \div 2 ^ (n - 1)) % 2 = 1
                                   THEN Curve!Plus(Times(P, k % 2 ^ (n - 1)), d[n - 1])
                                   ELSE Times(P, k % 2 ^ (n - 1))
  <2>1. PICK m \in Nat : m = n - 1 /\ n = m + 1 /\ m \in 0..bits
    BY <1>3, <1>6
  <2>2. PICK c \in Nat, e \in Nat, w \in {0, 1} :
            /\ c = 2 ^ m /\ e = k % 2 ^ m /\ w = (k \div 2 ^ m) % 2
            /\ k % 2 ^ (m + 1) = e + w * c
    <3>1. PICK c \in Nat : c = 2 ^ m
      BY PowersOfTwo
    <3>2. PICK e \in Nat : e = k % 2 ^ m
      BY BitsBelow
    <3>3. PICK w \in {0, 1} : w = (k \div 2 ^ m) % 2
      BY BitsBelow
    <3>4. k % 2 ^ (m + 1) = (k % 2 ^ m) + ((k \div 2 ^ m) % 2) * 2 ^ m
      BY BitsBelow
    <3> QED BY <3>1, <3>2, <3>3, <3>4
  <2>3. CASE w = 0
    <3>1. e + w * c = e
      BY <2>3
    <3> QED BY <2>1, <2>2, <2>3, <3>1
  <2>4. CASE w = 1
    <3>1. e + w * c = e + c
      BY <2>4
    <3>2. Times(P, e + c) = Curve!Plus(Times(P, e), Times(P, c))
      BY TimesSum
    <3>3. d[m] = Times(P, c)
      BY <1>5, <2>1, <2>2
    <3> QED BY <2>1, <2>2, <2>4, <3>1, <3>2, <3>3
  <2> QED BY <2>3, <2>4
<1>7. \A n \in 0..bits : a[n] = Times(P, k % 2 ^ n)
  <2> DEFINE f == [n \in 0..bits |-> Times(P, k % 2 ^ n)]
             T == {n \in 0..bits : a[n] = Times(P, k % 2 ^ n)}
  <2>0. Times(P, k % 2 ^ 0) = Curve!Identity
    <3>1. 2 ^ 0 = 1 /\ k % 1 = 0
      BY PowersOfTwo
    <3> QED BY <3>1, TimesDefined
  <2>1. Adds(f)
    <3>1. ASSUME NEW n \in 0..bits
          PROVE  f[n] = IF n = 0 THEN Curve!Identity
                        ELSE IF (k \div 2 ^ (n - 1)) % 2 = 1
                        THEN Curve!Plus(f[n - 1], d[n - 1]) ELSE f[n - 1]
      <4>1. CASE n = 0
        BY <2>0, <4>1
      <4>2. CASE n # 0
        <5>1. f[n] = Times(P, k % 2 ^ n) /\ f[n - 1] = Times(P, k % 2 ^ (n - 1))
          BY <1>3, <4>2
        <5> HIDE DEF f
        <5> QED BY <1>6, <4>2, <5>1
      <4> QED BY <4>1, <4>2
    <3>2. f = [n \in 0..bits |-> f[n]]
      OBVIOUS
    <3> HIDE DEF f
    <3> QED BY <3>1, <3>2
  <2>2. Adds(a)
    <3> HIDE DEF f, Adds
    <3> QED BY <2>1
  <2>3. \A n \in 0..bits : a[n] = IF n = 0 THEN Curve!Identity
                                  ELSE IF (k \div 2 ^ (n - 1)) % 2 = 1
                                  THEN Curve!Plus(a[n - 1], d[n - 1]) ELSE a[n - 1]
    <3> HIDE DEF a
    <3> QED BY <2>2
  <2> HIDE DEF a
  <2>4. 0 \in T
    BY <1>1, <2>0, <2>3
  <2>5. ASSUME NEW n \in 0..bits - 1, n \in T PROVE n + 1 \in T
    <3>1. n + 1 \in 0..bits /\ n + 1 # 0 /\ (n + 1) - 1 = n
      BY <1>1
    <3>2. a[n + 1] = IF (k \div 2 ^ n) % 2 = 1 THEN Curve!Plus(a[n], d[n]) ELSE a[n]
      BY <2>3, <3>1
    <3>3. Times(P, k % 2 ^ (n + 1)) = IF (k \div 2 ^ n) % 2 = 1
                                      THEN Curve!Plus(Times(P, k % 2 ^ n), d[n])
                                      ELSE Times(P, k % 2 ^ n)
      BY <1>6, <3>1
    <3> QED BY <2>5, <3>1, <3>2, <3>3
  <2>6. 0..bits \subseteq T
    <3> HIDE DEF T
    <3> QED BY <1>1, <2>4, <2>5, InductionUpTo
  <2> QED BY <2>6
<1>8. k % 2 ^ bits = k
  <2>1. PICK m \in Nat \ {0} : m = 2 ^ bits /\ k < m
    BY <1>1, PowersOfTwo
  <2>2. (0 * m + k) % m = k
    <3>1. k \in 0..m - 1 /\ 0 \in Int
      BY <2>1
    <3> QED BY ONLY <3>1, m \in Nat \ {0}, RemainderUnique
  <2> QED BY <2>1, <2>2
<1> QED BY <1>1, <1>2, <1>7, <1>8

(* The affine point of a representative, and its normal form.              *)
LEMMA OfRepresented ==
    ASSUME NEW p, NEW P, Represents(p, P)
    PROVE  /\ Affine(p) = P
           /\ P = Curve!Identity => Normalize(p) = ZERO
           /\ P # Curve!Identity =>
                 /\ P[1] \in Residue /\ P[2] \in Residue
                 /\ Normalize(p) = [x |-> P[1], y |-> P[2], z |-> 1]
           /\ Represents(Normalize(p), P)
<1>1. CASE p \in Point /\ IsZero(p) /\ P = Curve!Identity
  <2>1. Normalize(p) = ZERO
    BY <1>1 DEF Normalize, IsZero, ZERO
  <2> QED BY <1>1, <2>1, ZeroStands DEF Affine
<1>2. ASSUME NEW X \in Residue, NEW Y \in Residue, P = <<X, Y>>, OnCurve(X, Y), Stands(p, X, Y)
      PROVE  /\ Affine(p) = P /\ P # Curve!Identity
             /\ P[1] = X /\ P[2] = Y
             /\ Normalize(p) = [x |-> X, y |-> Y, z |-> 1]
  <2>1. PICK z \in Int, x \in Int, y \in Int :
            /\ z = p.z /\ x = p.x /\ y = p.y
            /\ ~Vanishes(z) /\ Vanishes(x - X * z) /\ Vanishes(y - Y * z)
    BY <1>2, ResiduesAreInts DEF Stands, Point
  <2>2. z # 0
    BY <2>1, BIsInt, NonzeroResidue
  <2>3. ASSUME NEW n \in Int, NEW N \in Residue, Vanishes(n - N * z)
        PROVE  Curve!Over(n, z) = N
    <3>1. PICK o \in Int : o = Curve!Over(n, z) /\ o \in Residue /\ Vanishes(o * z - n)
      BY <2>1, OverDivides
    <3>2. N \in Int
      BY ResiduesAreInts
    <3>3. PICK a \in Int, b \in Int : /\ a = o * z - n /\ Vanishes(a)
                                      /\ b = n - N * z /\ Vanishes(b)
      BY <2>3, <3>1, <3>2
    <3>4. Vanishes(1 * a + 1 * b)
      BY ONLY <3>3, 1 \in Int, Combine2
    <3>5. 1 * a + 1 * b = (o - N) * z
      BY <3>2, <3>3
    <3>6. Vanishes(o - N)
      <4>1. PICK c \in Int : c = o - N
        BY <3>2
      <4>2. Vanishes(c * z)
        BY <3>4, <3>5, <4>1
      <4> QED BY <2>1, <4>1, <4>2, NoZeroDivisors
    <3> QED BY <3>1, <3>6, SameResidue
  <2>4. Curve!Over(x, z) = X /\ Curve!Over(y, z) = Y
    BY <2>1, <2>3
  <2>5. ~IsZero(p)
    BY <2>1, <2>2 DEF IsZero
  <2> QED BY <1>2, <2>1, <2>2, <2>4, <2>5 DEF Affine, Normalize, Curve!Identity
<1>3. ASSUME NEW X \in Residue, NEW Y \in Residue, P = <<X, Y>>, OnCurve(X, Y), Stands(p, X, Y)
      PROVE  Represents(Normalize(p), P)
  BY <1>2, <1>3, Represented
<1> QED BY <1>1, <1>2, <1>3 DEF Represents

---------------------------------------------------------------------------
(* The base point, and the points a key stands for.                        *)

LEMMA OnCurveMod ==
    ASSUME NEW X \in Residue, NEW Y \in Residue
    PROVE  Mod(Y * Y) = Mod(Mod(X * X) * X + B) <=> OnCurve(X, Y)
<1>1. PICK b \in Int, x \in Int, y \in Int : b = B /\ x = X /\ y = Y
  BY BIsInt, ResiduesAreInts
<1>2. PICK k \in Int : k = Mod(x * x) /\ Vanishes(k - x * x)
  BY ModVanishes, x * x \in Int
<1>3. PICK m \in Int : m = Mod(y * y) /\ m \in Residue /\ Vanishes(m - y * y)
  BY ModVanishes, ModIsResidue, y * y \in Int
<1>4. PICK n \in Int : n = Mod(k * x + b) /\ n \in Residue /\ Vanishes(n - (k * x + b))
  BY ModVanishes, ModIsResidue, k * x + b \in Int
<1>5. PICK c \in Int, d \in Int, e \in Int, f \in Int :
          /\ c = k - x * x /\ Vanishes(c)
          /\ d = m - y * y /\ Vanishes(d)
          /\ e = n - (k * x + b) /\ Vanishes(e)
          /\ f = y * y - x * x * x - b
  BY <1>2, <1>3, <1>4
<1>6. ASSUME m = n PROVE Vanishes(f)
  <2>1. Vanishes((-1) * d + 1 * e + x * c)
    BY ONLY <1>5, -1 \in Int, 1 \in Int, x \in Int, Combine3
  <2>2. (-1) * d + 1 * e + x * c = f
    BY <1>5, <1>6
  <2> QED BY <2>1, <2>2
<1>7. ASSUME Vanishes(f) PROVE m = n
  <2>1. Vanishes(1 * d + (-1) * e + (-x) * c + 1 * f)
    BY ONLY <1>5, <1>7, -1 \in Int, 1 \in Int, -x \in Int, Combine4
  <2>2. 1 * d + (-1) * e + (-x) * c + 1 * f = m - n
    BY <1>5
  <2> QED BY <1>3, <1>4, <2>1, <2>2, SameResidue
<1> QED BY <1>1, <1>2, <1>3, <1>4, <1>5, <1>6, <1>7 DEF OnCurve

Base == Affine(G)

LEMMA BaseRepresented ==
    /\ Represents(G, Base) /\ Base \in CurvePoints /\ Base # Curve!Identity
    /\ Times(Base, ORDER) = Curve!Identity
<1>1. G.x \in Residue /\ G.y \in Residue /\ G = [x |-> G.x, y |-> G.y, z |-> 1]
  BY BaseAssumption DEF Point
<1>2. OnCurve(G.x, G.y)
  BY <1>1, BaseAssumption, OnCurveMod DEF IsOnCurve
<1>3. Represents(G, <<G.x, G.y>>)
  BY <1>1, <1>2, Represented
<1>4. Base = <<G.x, G.y>>
  BY <1>3, OfRepresented DEF Base
<1>5. Base \in CurvePoints /\ Base # Curve!Identity
  BY <1>3, <1>4, RepresentsPoint DEF Curve!Identity
<1>6. Times(Base, ORDER) = Curve!Identity
  BY <1>5, BaseAssumption, Primes, ScalarIsTimes DEF Base
<1> QED BY <1>3, <1>4, <1>5, <1>6

(* Multiples of the identity are the identity.                             *)
LEMMA TimesIdentity == \A n \in Nat : Times(Curve!Identity, n) = Curve!Identity
<1> DEFINE T == {n \in Nat : Times(Curve!Identity, n) = Curve!Identity}
<1>0. Curve!Identity \in CurvePoints
  BY DEF CurvePoints
<1>1. 0 \in T
  BY <1>0, TimesDefined
<1>2. \A n \in Nat : n \in T => n + 1 \in T
  BY <1>0, TimesDefined, PlusIdentity
<1> HIDE DEF T
<1>3. Nat \subseteq T
  BY <1>1, <1>2, Induction
<1> QED BY <1>3 DEF T

(* Multiples of the base point depend on the number modulo the order only, *)
(* and the order is the smallest that is the identity.                     *)
LEMMA OfOrder ==
    ASSUME NEW j \in Nat, NEW e \in Nat
    PROVE  Times(Base, j * ORDER + e) = Times(Base, e)
<1>1. PICK m \in Nat : m = ORDER /\ Times(Base, m) = Curve!Identity
  BY BaseRepresented, Primes
<1>2. PICK n \in Nat : n = m * j /\ n = j * m
  OBVIOUS
<1>3. Times(Base, n) = Curve!Identity
  <2>1. Times(Times(Base, m), j) = Times(Base, m * j)
    BY BaseRepresented, TimesProduct
  <2> QED BY <1>1, <1>2, <2>1, TimesIdentity
<1>4. Times(Base, n + e) = Curve!Plus(Times(Base, n), Times(Base, e))
  BY BaseRepresented, TimesSum
<1> QED BY <1>1, <1>2, <1>3, <1>4, BaseRepresented, TimesDefined, PlusIdentity

(* No multiple of the base point below the order is the identity.          *)
LEMMA NotIdentity == \A n \in 1..ORDER - 1 : Times(Base, n) # Curve!Identity
<1> SUFFICES ASSUME NEW n \in 1..ORDER - 1, Times(Base, n) = Curve!Identity PROVE FALSE
  OBVIOUS
<1>1. PICK m \in Nat \ {0}, i \in Nat : m = ORDER /\ (n * i) % m = 1
  <2>1. PICK i : i = InverseOfOrder[n] /\ (n * i) % ORDER = 1
    BY OfOrderDefined
  <2>2. n \in 0..ORDER - 1
    BY Primes
  <2>3. i \in 0..ORDER - 1
    BY <2>1, <2>2, OfOrderDefined
  <2>4. i \in Nat /\ ORDER \in Nat \ {0}
    BY <2>3, Primes
  <2> QED BY <2>1, <2>4
<1>2. n \in Nat
  OBVIOUS
<1>3. PICK j \in Nat : n * i = j * m + 1
  <2>1. PICK v \in Nat : v = n * i
    BY <1>2
  <2>2. PICK j \in Nat : j = v \div m
    BY DividedTwice, 1 \in Nat \ {0}
  <2>3. v = m * j + (v % m)
    BY <2>2
  <2>4. m * j = j * m
    OBVIOUS
  <2> QED BY <1>1, <2>1, <2>3, <2>4
<1>4. Times(Base, n * i) = Curve!Identity
  <2>1. Times(Times(Base, n), i) = Times(Base, n * i)
    BY <1>2, BaseRepresented, TimesProduct
  <2>2. Times(Base, n) = Curve!Identity
    OBVIOUS
  <2> QED BY <2>1, <2>2, TimesIdentity
<1>5. Times(Base, j * m + 1) = Base
  BY <1>1, OfOrder, BaseRepresented, TimesOne
<1> QED BY <1>3, <1>4, <1>5, BaseRepresented

(* Two points whose sum is the identity have the same x.                   *)
LEMMA OppositePoints ==
    ASSUME NEW P \in CurvePoints, NEW Q \in CurvePoints,
           Curve!Plus(P, Q) = Curve!Identity, Q # Curve!Identity
    PROVE  P[1] = Q[1]
<1>1. \A X, Y : <<X, Y>> # Curve!Identity
  BY DEF Curve!Identity
<1>2. \A slope : Curve!OnLine(P, Q, slope) # Curve!Identity
                 /\ Curve!OnLine(P, P, slope) # Curve!Identity
  BY <1>1 DEF Curve!OnLine
<1>3. CASE P = Curve!Inverted(Q)
  BY <1>3 DEF Curve!Inverted
<1>4. CASE P # Curve!Inverted(Q)
  <2>1. CASE P = Curve!Identity
    BY <1>4, <2>1 DEF Curve!Plus
  <2>2. CASE P # Curve!Identity /\ P = Q
    <3>1. Curve!Plus(P, Q) = Curve!Double(P)
      BY <1>4, <2>2 DEF Curve!Plus
    <3>2. Curve!Double(P) # Curve!Identity
      BY <1>2, <1>4, <2>2 DEF Curve!Double
    <3> QED BY <3>1, <3>2
  <2>3. CASE P # Curve!Identity /\ P # Q
    <3>1. Curve!Plus(P, Q) = Curve!OnLine(P, Q, Curve!Over(Q[2] - P[2], Q[1] - P[1]))
      BY <1>4, <2>3 DEF Curve!Plus
    <3> QED BY <1>2, <3>1
  <2> QED BY <2>1, <2>2, <2>3
<1> QED BY <1>3, <1>4

---------------------------------------------------------------------------
(* Signatures.                                                             *)

LEMMA Points == ZERO \in Point /\ G \in Point
BY Primes, BaseAssumption DEF ZERO, Point, Residue

LEMMA PublicPointIsPoint ==
    ASSUME NEW n \in Nat
    PROVE  PublicPoint(n) \in Point
BY Points, MultiplyIsPoint, NormalizeIsPoint DEF PublicPoint

(* One subtraction makes an x coordinate a residue of the order, and the   *)
(* sum of a residue and a hash.                                            *)
LEMMA XModOrderIsResidue ==
    ASSUME NEW p \in Point
    PROVE  XModOrder(p) \in 0..ORDER - 1
<1>1. p.x \in 0..Prime - 1
  BY DEF Point, Residue
<1> QED BY <1>1, Primes DEF XModOrder

LEMMA WrapOnce ==
    /\ \A n \in 0..Width - 1 : Wrap(n) = n
    /\ \A n \in Width..2 * Width - 1 : Wrap(n) = n - Width
    /\ \A n \in -Width..-1 : Wrap(n) = n + Width
<1>1. Width \in Nat \ {0}
  BY Primes
<1>2. \A n \in 0..Width - 1 : Wrap(n) = n
  BY <1>1 DEF Wrap
<1>3. ASSUME NEW n \in Width..2 * Width - 1 PROVE Wrap(n) = n - Width
  <2>1. PICK e \in 0..Width - 1, m \in Nat \ {0} : e = n - Width /\ m = Width
    BY <1>1
  <2>2. (1 * m + e) % m = e
    <3>1. 1 \in Int /\ e \in 0..m - 1
      BY <2>1
    <3> QED BY ONLY <3>1, m \in Nat \ {0}, RemainderUnique
  <2> QED BY <2>1, <2>2 DEF Wrap
<1>4. ASSUME NEW n \in -Width..-1 PROVE Wrap(n) = n + Width
  <2>1. PICK e \in 0..Width - 1, m \in Nat \ {0} : e = n + Width /\ m = Width
    BY <1>1
  <2>2. ((-1) * m + e) % m = e
    <3>1. -1 \in Int /\ e \in 0..m - 1
      BY <2>1
    <3> QED BY ONLY <3>1, m \in Nat \ {0}, RemainderUnique
  <2>3. (-1) * m + e = n
    BY <2>1
  <2> QED BY <2>1, <2>2, <2>3 DEF Wrap
<1> QED BY <1>2, <1>3, <1>4

LEMMA ReducedIsResidue ==
    ASSUME NEW n \in Nat
    PROVE  /\ Reduced(n) \in Int
           /\ n < Width + ORDER => Reduced(n) = IF n < ORDER THEN n ELSE n - ORDER
<1>1. \A m \in Int : Wrap(m) \in Int
  BY Primes DEF Wrap
<1>2. Reduced(n) \in Int
  BY <1>1, Primes DEF Reduced
<1>3. ASSUME n < Width + ORDER PROVE Reduced(n) = IF n < ORDER THEN n ELSE n - ORDER
  <2>1. CASE n < Width
    <3>1. Wrap(n) = n
      BY <2>1, WrapOnce, Primes
    <3>2. n >= ORDER => Wrap(n - ORDER) = n - ORDER
      BY <2>1, WrapOnce, Primes
    <3> QED BY <2>1, <3>1, <3>2, Primes DEF Reduced
  <2>2. CASE n >= Width
    <3>1. Wrap(n) = n - Width
      BY <1>3, <2>2, WrapOnce, Primes
    <3>2. Wrap((n - Width) - ORDER) = n - ORDER
      <4>1. (n - Width) - ORDER \in -Width..-1
        BY <1>3, <2>2, Primes
      <4> QED BY <4>1, WrapOnce, Primes
    <3> QED BY <2>2, <3>1, <3>2, Primes DEF Reduced
  <2> QED BY <2>1, <2>2, Primes
<1> QED BY <1>2, <1>3

(* No residue is half the order, which is odd.                             *)
LEMMA LowIsLow ==
    ASSUME NEW n \in 0..ORDER - 1
    PROVE  LowS(n) \in 0..ORDER - 1 /\ 2 * LowS(n) < ORDER
<1>1. ORDER % 2 # 0
  BY Primes
<1>2. 2 * n # ORDER
  BY <1>1, Primes
<1> QED BY <1>2, Primes DEF LowS

---------------------------------------------------------------------------
(* What the steps preserve: only a user's signature is created, and its    *)
(* key passed the assertion of User::AssignPrivatePublicKey.               *)
Made ==
    /\ phase = "creating" => byUser /\ r = 0 /\ s = 0
    /\ phase = "arrived" => ~byUser
    /\ byUser => InRange(key)

(* The signature has the lower of the two values s may have.               *)
Low == byUser /\ phase \in {"created", "checking", "checked"} => 2 * s < ORDER

IInv == TypeOK /\ Made /\ Low /\ AbortsBeyondOrder

LEMMA KeysAreNumbers == \A k \in Keys : k \in 0..Width - 1 /\ k \in Nat
BY InputsAssumption, Primes

LEMMA SignParts ==
    ASSUME TypeOK
    PROVE  /\ NonceInRange => SignR \in 0..ORDER - 1
           /\ NonceInRange => SignS \in 0..ORDER - 1
           /\ NonceInRange /\ hash < ORDER => HashSum < ORDER
<1> SUFFICES ASSUME NonceInRange
             PROVE  /\ SignR \in 0..ORDER - 1 /\ SignS \in 0..ORDER - 1
                    /\ hash < ORDER => HashSum < ORDER
  OBVIOUS
<1>1. hmac \in 1..ORDER - 1
  BY Primes DEF TypeOK, NonceInRange
<1>2. SignR \in 0..ORDER - 1
  <2>1. PublicPoint(hmac) \in Point
    BY <1>1, PublicPointIsPoint
  <2> QED BY <2>1, XModOrderIsResidue DEF SignR
<1>3. key \in Nat /\ hash \in Nat
  BY KeysAreNumbers, InputsAssumption, Primes DEF TypeOK
<1>4. PICK a \in 0..ORDER - 1 : a = (SignR * key) % ORDER
  <2>1. PICK n \in Int, m \in Nat \ {0} : n = SignR * key /\ m = ORDER
    BY <1>2, <1>3, Primes
  <2>2. n % m \in 0..m - 1
    BY ONLY n \in Int, m \in Nat \ {0}, Division
  <2> QED BY <2>1, <2>2
<1>5. a + hash \in Nat /\ HashSum = Reduced(a + hash)
  BY <1>3, <1>4, Primes DEF HashSum
<1>6. HashSum \in Int
  BY <1>5, ReducedIsResidue
<1>7. hash < ORDER => HashSum < ORDER
  <2> SUFFICES ASSUME hash < ORDER PROVE HashSum < ORDER
    OBVIOUS
  <2>1. a + hash < 2 * ORDER /\ a + hash < Width + ORDER
    BY <1>3, <1>4, Primes
  <2>2. Reduced(a + hash) = IF a + hash < ORDER THEN a + hash ELSE (a + hash) - ORDER
    BY <1>5, <2>1, ReducedIsResidue
  <2> QED BY <1>3, <1>4, <1>5, <2>1, <2>2, Primes
<1>8. SignS \in 0..ORDER - 1
  <2>1. InverseOfOrder[hmac] \in Int
    BY <1>1, OfOrderDefined, Primes
  <2>2. PICK n \in Int, m \in Nat \ {0} : n = HashSum * InverseOfOrder[hmac] /\ m = ORDER
    BY <1>6, <2>1, Primes
  <2>3. n % m \in 0..m - 1
    BY ONLY n \in Int, m \in Nat \ {0}, Division
  <2> QED BY <2>2, <2>3 DEF SignS
<1> QED BY <1>2, <1>7, <1>8

(* The two factors of verify are residues.                                 *)
LEMMA FactorsAreNumbers ==
    ASSUME TypeOK, InRange(r), InRange(s)
    PROVE  FirstFactor \in 0..ORDER - 1 /\ SecondFactor \in 0..ORDER - 1
<1>1. s \in 0..ORDER - 1 /\ r \in Int /\ hash \in Int
  BY InputsAssumption, Primes DEF TypeOK, InRange
<1>2. PICK i \in Int : i = InverseOfOrder[s]
  BY <1>1, OfOrderDefined, Primes
<1>3. PICK m \in Nat \ {0} : m = ORDER
  BY Primes
<1>4. i * hash \in Int /\ i * r \in Int
  BY <1>1, <1>2
<1>5. (i * hash) % m \in 0..m - 1 /\ (i * r) % m \in 0..m - 1
  BY ONLY <1>4, m \in Nat \ {0}, Division
<1> QED BY <1>2, <1>3, <1>5 DEF FirstFactor, SecondFactor

LEMMA InitInv == Init => IInv
<1> SUFFICES ASSUME Init PROVE IInv
  OBVIOUS
<1>1. 0 \in 0..Width - 1 /\ 0 \in 0..MaxDepth /\ 0 < ORDER
  BY InputsAssumption, Primes
<1>2. TypeOK
  BY <1>1, Points DEF Init, TypeOK
<1>3. Made /\ Low /\ AbortsBeyondOrder
  BY DEF Init, Made, Low, AbortsBeyondOrder
<1> QED BY <1>2, <1>3 DEF IInv

LEMMA StepInv == IInv /\ [Next]_vars => IInv'
<1> SUFFICES ASSUME IInv, [Next]_vars PROVE IInv'
  OBVIOUS
<1> USE DEF IInv
<1>1. CASE CreateSignature
  <2>1. /\ NonceInRange /\ phase' = "created"
        /\ r' \in {0, SignR} /\ s' \in {0, LowS(SignS)}
        /\ UNCHANGED <<key, hash, hmac, depth, sum, verdict, byUser>>
    BY <1>1 DEF CreateSignature, SignSucceeds
  <2>2. /\ SignR \in 0..ORDER - 1
        /\ LowS(SignS) \in 0..ORDER - 1 /\ 2 * LowS(SignS) < ORDER
    BY <2>1, SignParts, LowIsLow
  <2>3. /\ r' \in 0..Width - 1 /\ r' < ORDER
        /\ s' \in 0..Width - 1 /\ s' < ORDER /\ 2 * s' < ORDER
    <3>1. PICK a \in 0..ORDER - 1, b \in 0..ORDER - 1 :
              a = SignR /\ b = LowS(SignS) /\ 2 * b < ORDER
      BY <2>2
    <3>2. r' \in {0, a} /\ s' \in {0, b}
      BY <2>1, <3>1
    <3>3. \A n \in 0..ORDER - 1 : n \in 0..Width - 1 /\ n < ORDER
      BY Primes
    <3>4. 0 \in 0..ORDER - 1 /\ 2 * 0 < ORDER
      BY Primes
    <3> QED BY <3>1, <3>2, <3>3, <3>4
  <2> QED BY <2>1, <2>3 DEF TypeOK, Made, Low, AbortsBeyondOrder, InRange
<1>2. CASE CreateAgain
  BY <1>2, InputsAssumption
     DEF CreateAgain, TypeOK, Made, Low, AbortsBeyondOrder, InRange
<1>3. CASE CreateAborts
  <2>1. hash >= ORDER
    <3>1. NonceInRange /\ HashSum >= ORDER
      BY <1>3 DEF CreateAborts, SignAborts
    <3>2. hash \in Nat /\ HashSum \in Int
      <4>1. hash \in Nat /\ key \in Nat /\ SignR \in Nat
        BY <3>1, SignParts, KeysAreNumbers, InputsAssumption, Primes DEF TypeOK
      <4>2. PICK n \in Int, m \in Nat \ {0} : n = SignR * key /\ m = ORDER
        BY <4>1, Primes
      <4>3. n % m \in 0..m - 1
        BY ONLY n \in Int, m \in Nat \ {0}, Division
      <4>4. ((SignR * key) % ORDER) + hash \in Nat
        BY <4>1, <4>2, <4>3
      <4> QED BY <4>1, <4>4, ReducedIsResidue DEF HashSum
    <3> QED BY <3>1, <3>2, SignParts, Primes
  <2> QED BY <1>3, <2>1 DEF CreateAborts, TypeOK, Made, Low, AbortsBeyondOrder, InRange
<1>4. CASE CheckAborts
  BY <1>4 DEF CheckAborts, TypeOK, Made, Low, AbortsBeyondOrder, InRange
<1>5. CASE CheckRefuses
  BY <1>5 DEF CheckRefuses, TypeOK, Made, Low, AbortsBeyondOrder, InRange
<1>6. CASE CheckComputes
  <2>1. sum' \in Point
    <3>1. key \in Nat /\ InRange(r) /\ InRange(s)
      BY <1>6, KeysAreNumbers DEF CheckComputes, TypeOK
    <3>2. FirstFactor \in Nat /\ SecondFactor \in Nat
      BY <3>1, FactorsAreNumbers, Primes
    <3>3. PublicKey \in Point
      BY <3>1, PublicPointIsPoint DEF PublicKey
    <3>4. Multiply(G, FirstFactor) \in Point /\ Multiply(PublicKey, SecondFactor) \in Point
      BY <3>2, <3>3, Points, MultiplyIsPoint
    <3> QED BY <1>6, <3>4, AddIsPoint DEF CheckComputes
  <2> QED BY <1>6, <2>1 DEF CheckComputes, TypeOK, Made, Low, AbortsBeyondOrder, InRange
<1>7. CASE CheckCompares
  BY <1>7 DEF CheckCompares, TypeOK, Made, Low, AbortsBeyondOrder, InRange
<1>8. CASE UNCHANGED vars
  BY <1>8 DEF vars, TypeOK, Made, Low, AbortsBeyondOrder, InRange
<1> QED BY <1>1, <1>2, <1>3, <1>4, <1>5, <1>6, <1>7, <1>8 DEF Next

LEMMA Inductive == Spec => []IInv
BY InitInv, StepInv, PTL DEF Spec

---------------------------------------------------------------------------
(* What verify computes.                                                   *)

LEMMA PublicPointStands ==
    ASSUME NEW n \in Nat, n < Width
    PROVE  /\ Represents(PublicPoint(n), Times(Base, n))
           /\ Times(Base, n) # Curve!Identity =>
                 /\ Times(Base, n)[1] \in Residue /\ Times(Base, n)[2] \in Residue
                 /\ PublicPoint(n) = [x |-> Times(Base, n)[1], y |-> Times(Base, n)[2], z |-> 1]
<1>1. Represents(Multiply(G, n), Times(Base, n))
  BY BaseRepresented, MultiplyRepresents, Primes
<1> QED BY <1>1, OfRepresented DEF PublicPoint

LEMMA RepresentsZero ==
    ASSUME NEW p, NEW P, Represents(p, P)
    PROVE  IsZero(p) <=> P = Curve!Identity
<1>1. \A X, Y : <<X, Y>> # Curve!Identity
  BY DEF Curve!Identity
<1>2. ASSUME NEW X \in Residue, NEW Y \in Residue, Stands(p, X, Y) PROVE ~IsZero(p)
  BY <1>2, BIsInt, NonzeroResidue DEF Stands, IsZero
<1> QED BY <1>1, <1>2 DEF Represents

(* Every key in the range passes the checks of verify.                     *)
LEMMA KeysAreUsable ==
    ASSUME key \in Nat, InRange(key)
    PROVE  KeyIsUsable /\ Represents(PublicKey, Times(Base, key))
<1>1. key \in 1..ORDER - 1 /\ key < Width /\ ORDER \in 0..Width - 1
  BY Primes DEF InRange
<1>2. PICK X \in Residue, Y \in Residue :
          /\ X = Times(Base, key)[1] /\ Y = Times(Base, key)[2]
          /\ PublicKey = [x |-> X, y |-> Y, z |-> 1]
  BY <1>1, NotIdentity, PublicPointStands DEF PublicKey
<1>3. Represents(PublicKey, Times(Base, key))
  BY <1>1, PublicPointStands DEF PublicKey
<1>4. Times(Base, key) # Curve!Identity /\ Times(Base, key) \in CurvePoints
  BY <1>1, NotIdentity, <1>3, RepresentsPoint
<1>5. ~IsZero(PublicKey) /\ PublicKey.z = 1
  BY <1>2, <1>3, <1>4, RepresentsZero
<1>6. IsOnCurve(PublicKey)
  <2>1. OnCurve(X, Y)
    BY <1>2, <1>4 DEF CurvePoints
  <2> QED BY <1>2, <1>5, <2>1, OnCurveMod DEF IsOnCurve
<1>7. IsZero(Multiply(PublicKey, ORDER))
  <2>1. Represents(Multiply(PublicKey, ORDER), Times(Times(Base, key), ORDER))
    BY <1>1, <1>3, <1>4, MultiplyRepresents
  <2>2. PICK n \in Nat : n = ORDER
    BY Primes
  <2>3. Times(Times(Base, key), n) = Times(Base, key * n)
    BY BaseRepresented, TimesProduct
  <2>4. Times(Base, key * n + 0) = Times(Base, 0)
    BY <2>2, 0 \in Nat, OfOrder
  <2>5. key * n + 0 = key * n
    BY <2>2
  <2> QED BY <2>1, <2>2, <2>3, <2>4, <2>5, BaseRepresented, TimesDefined, RepresentsZero
<1> QED BY <1>3, <1>5, <1>6, <1>7 DEF KeyIsUsable

VerifySum == Add(Multiply(G, FirstFactor), Multiply(PublicKey, SecondFactor))

(* What verify adds up stands for the sum of the two multiples.            *)
LEMMA VerifySumStands ==
    ASSUME TypeOK, InRange(key), InRange(r), InRange(s)
    PROVE  Represents(VerifySum, Curve!Plus(Times(Base, FirstFactor),
                                            Times(Times(Base, key), SecondFactor)))
<1>1. key \in Nat
  BY KeysAreNumbers DEF TypeOK
<1>2. PICK a \in Nat, b \in Nat :
          /\ a = FirstFactor /\ a \in 0..Width - 1
          /\ b = SecondFactor /\ b \in 0..Width - 1
  <2>1. \A n \in 0..ORDER - 1 : n \in Nat /\ n \in 0..Width - 1
    BY Primes
  <2> QED BY <2>1, FactorsAreNumbers
<1>3. Represents(Multiply(G, a), Times(Base, a))
  BY <1>2, BaseRepresented, MultiplyRepresents
<1>4. Represents(PublicKey, Times(Base, key)) /\ Times(Base, key) \in CurvePoints
  BY <1>1, KeysAreUsable, RepresentsPoint
<1>5. Represents(Multiply(PublicKey, b), Times(Times(Base, key), b))
  BY <1>2, <1>4, MultiplyRepresents
<1> QED BY <1>2, <1>3, <1>5, AddRepresents DEF VerifySum

(* It is a multiple of the base point, by the one residue that solves the  *)
(* signature equation.                                                     *)
Solves(k) == (s * k - hash - r * key) % ORDER = 0

LEMMA DivisibleByOrder ==
    ASSUME NEW n \in Int
    PROVE  n % ORDER = 0 <=> \E k \in Int : n = k * ORDER
<1>1. PICK m \in Nat \ {0} : m = ORDER
  BY Primes
<1>2. n % m \in 0..m - 1 /\ \E k \in Int : n = k * m + (n % m)
  BY ONLY n \in Int, m \in Nat \ {0}, Division
<1>3. ASSUME n % m = 0 PROVE \E k \in Int : n = k * m
  <2>1. PICK k \in Int : n = k * m + (n % m)
    BY <1>2
  <2>2. n = k * m
    BY <1>3, <2>1
  <2> QED BY <2>2
<1>4. ASSUME NEW k \in Int, n = k * m PROVE n % m = 0
  <2>1. (k * m + 0) % m = 0
    BY ONLY k \in Int, m \in Nat \ {0}, 0 \in 0..m - 1, RemainderUnique
  <2>2. k * m + 0 = n
    BY <1>4
  <2> QED BY <2>1, <2>2
<1> QED BY <1>1, <1>3, <1>4

LEMMA ModuloOrder == \A n \in Int : /\ n % ORDER \in 0..ORDER - 1 /\ n % ORDER \in Nat
                                 /\ \E k \in Int : n % ORDER = n - k * ORDER
<1> SUFFICES ASSUME NEW n \in Int
             PROVE  /\ n % ORDER \in 0..ORDER - 1 /\ n % ORDER \in Nat
                    /\ \E k \in Int : n % ORDER = n - k * ORDER
  OBVIOUS
<1>1. PICK m \in Nat \ {0} : m = ORDER
  BY Primes
<1>2. n % m \in 0..m - 1 /\ \E k \in Int : n = k * m + (n % m)
  BY ONLY n \in Int, m \in Nat \ {0}, Division
<1>3. PICK e \in Nat, k \in Int : e = n % m /\ n = k * m + e
  BY <1>2
<1>4. e = n - k * m
  BY <1>3
<1> QED BY <1>1, <1>2, <1>3, <1>4

LEMMA InverseOf ==
    ASSUME NEW t \in 1..ORDER - 1
    PROVE  \E i \in Nat, c \in Int : i = InverseOfOrder[t] /\ t * i = 1 + c * ORDER
<1>1. PICK i : i = InverseOfOrder[t] /\ (t * i) % ORDER = 1
  BY OfOrderDefined
<1>2. i \in Nat
  <2>1. t \in 0..ORDER - 1
    BY Primes
  <2>2. i \in 0..ORDER - 1
    BY <1>1, <2>1, OfOrderDefined
  <2> QED BY <2>2, Primes
<1>3. PICK v \in Int : v = t * i
  BY <1>2, Primes
<1>4. PICK c \in Int : v % ORDER = v - c * ORDER
  BY ModuloOrder
<1>5. t * i = 1 + c * ORDER
  BY <1>1, <1>3, <1>4, Primes
<1> QED BY <1>1, <1>2, <1>5

(* Equations of a signature have one solution modulo the order.            *)
LEMMA SolutionIsUnique ==
    ASSUME TypeOK, key \in Nat, InRange(s),
           NEW k \in 0..ORDER - 1, Solves(k), NEW j \in 0..ORDER - 1, Solves(j)
    PROVE  k = j
<1>1. PICK m \in Nat, t \in Nat, h \in Int, w \in Int :
          m = ORDER /\ t = s /\ h = hash /\ w = r * key /\ t \in 1..m - 1
  <2>1. s \in Nat /\ hash \in Int /\ r \in Nat /\ s \in 1..ORDER - 1 /\ ORDER \in Nat
    BY InputsAssumption, Primes DEF TypeOK, InRange
  <2>2. r * key \in Int
    BY <2>1
  <2> QED BY <2>1, <2>2
<1>2. PICK i \in Nat, c \in Int : i = InverseOfOrder[t] /\ t * i = 1 + c * m
  BY <1>1, InverseOf
<1>3. PICK a \in Int, b \in Int : t * k - h - w = a * m /\ t * j - h - w = b * m
  <2>1. t * k - h - w \in Int /\ t * j - h - w \in Int /\ k \in Int /\ j \in Int
    BY Primes
  <2>2. (t * k - h - w) % ORDER = 0 /\ (t * j - h - w) % ORDER = 0
    BY <1>1 DEF Solves
  <2>3. PICK u \in Int, v \in Int : u = t * k - h - w /\ v = t * j - h - w
    BY <2>1
  <2>4. PICK a \in Int : u = a * ORDER
    BY <2>2, <2>3, DivisibleByOrder
  <2>5. PICK b \in Int : v = b * ORDER
    BY <2>2, <2>3, DivisibleByOrder
  <2> QED BY <1>1, <2>3, <2>4, <2>5
<1>4. PICK d \in Int, e \in Int : d = k - j /\ -m < d /\ d < m /\ e = i * (a - b) - c * d
  <2>1. k - j \in Int /\ -m < k - j /\ k - j < m
    BY <1>1
  <2> QED BY <2>1
<1>5. d = e * m
  <2>1. t * d = (a - b) * m
    BY <1>1, <1>3, <1>4
  <2>2. i * (t * d) = i * ((a - b) * m)
    BY <2>1
  <2>3. i * (t * d) = (t * i) * d
    OBVIOUS
  <2>4. (1 + c * m) * d = i * ((a - b) * m)
    BY <1>2, <2>2, <2>3
  <2> QED BY <1>4, <2>4
<1>6. e = 0
  <2>1. e >= 1 => e * m >= m
    OBVIOUS
  <2>2. e <= -1 => e * m <= -m
    OBVIOUS
  <2> QED BY <1>4, <1>5, <2>1, <2>2
<1>7. d = 0
  BY <1>5, <1>6
<1> QED BY <1>1, <1>4, <1>7

Total == (FirstFactor + key * SecondFactor) % ORDER

LEMMA TotalSolves ==
    ASSUME TypeOK, InRange(key), InRange(r), InRange(s)
    PROVE  /\ Total \in 0..ORDER - 1 /\ Solves(Total)
           /\ Represents(VerifySum, Times(Base, Total))
<1>1. PICK m \in Nat, t \in Nat, h \in Int, w \in Nat, x \in Nat :
          m = ORDER /\ t = s /\ h = hash /\ w = r /\ x = key /\ t \in 1..m - 1
  BY KeysAreNumbers, InputsAssumption, Primes DEF TypeOK, InRange
<1>2. PICK i \in Int, c \in Int : i = InverseOfOrder[t] /\ t * i = 1 + c * m
  BY <1>1, InverseOf
<1>3. PICK f \in Nat, a \in Int : f = FirstFactor /\ f = i * h - a * m
  <2>1. i * h \in Int
    OBVIOUS
  <2>2. PICK a \in Int : (i * h) % ORDER = i * h - a * ORDER /\ (i * h) % ORDER \in Nat
    BY <2>1, ModuloOrder
  <2> QED BY <1>1, <1>2, <2>2 DEF FirstFactor
<1>4. PICK g \in Nat, b \in Int : g = SecondFactor /\ g = i * w - b * m
  <2>1. i * w \in Int
    OBVIOUS
  <2>2. PICK b \in Int : (i * w) % ORDER = i * w - b * ORDER /\ (i * w) % ORDER \in Nat
    BY <2>1, ModuloOrder
  <2> QED BY <1>1, <1>2, <2>2 DEF SecondFactor
<1>5. PICK n \in Nat : n = f + x * g
  OBVIOUS
<1>6. PICK k \in Nat, d \in Int : k = Total /\ k \in 0..m - 1 /\ k = n - d * m
  <2>1. PICK d \in Int :
          n % ORDER = n - d * ORDER /\ n % ORDER \in Nat /\ n % ORDER \in 0..ORDER - 1
    BY ModuloOrder
  <2>2. Total = n % ORDER
    BY <1>1, <1>3, <1>4, <1>5 DEF Total
  <2> QED BY <1>1, <2>1, <2>2
<1>7. Solves(k)
  <2>1. PICK e \in Int : e = c * h + x * (c * w) - t * a - x * (t * b) - t * d
    OBVIOUS
  <2>2. t * f = (t * i) * h - (t * a) * m
    BY <1>3
  <2>3. t * g = (t * i) * w - (t * b) * m
    BY <1>4
  <2>4. t * k = t * f + x * (t * g) - (t * d) * m
    BY <1>5, <1>6
  <2>5. t * k - h - w * x = e * m
    <3>1. t * f = h + (c * h) * m - (t * a) * m
      BY <1>2, <2>2
    <3>2. t * g = w + (c * w) * m - (t * b) * m
      <4>1. (1 + c * m) * w = w + (c * w) * m
        OBVIOUS
      <4>2. (t * i) * w = (1 + c * m) * w
        BY <1>2
      <4>3. PICK l1 \in Int, l2 \in Int, l3 \in Int :
                l1 = (t * i) * w /\ l2 = (t * b) * m /\ l3 = (c * w) * m
        OBVIOUS
      <4>4. l1 = w + l3
        BY <4>1, <4>2, <4>3
      <4>5. t * g = l1 - l2
        BY <2>3, <4>3
      <4> QED BY <4>3, <4>4, <4>5
    <3>3. x * (t * g) = w * x + (x * (c * w)) * m - (x * (t * b)) * m
      BY <3>2
    <3>4. PICK l1 \in Int, l2 \in Int, l3 \in Int, l4 \in Int, l5 \in Int :
              /\ l1 = c * h /\ l2 = t * a /\ l3 = x * (c * w) /\ l4 = x * (t * b) /\ l5 = t * d
      OBVIOUS
    <3>5. t * k = h + l1 * m - l2 * m + w * x + l3 * m - l4 * m - l5 * m
      BY <2>4, <3>1, <3>3, <3>4
    <3>6. e = l1 + l3 - l2 - l4 - l5
      BY <2>1, <3>4
    <3> QED BY <3>5, <3>6
  <2>6. t * k - h - w * x \in Int
    OBVIOUS
  <2>7. (t * k - h - w * x) % ORDER = 0
    BY <1>1, <2>1, <2>5, <2>6, DivisibleByOrder
  <2> QED BY <1>1, <2>7 DEF Solves
<1>8. Curve!Plus(Times(Base, f), Times(Times(Base, x), g)) = Times(Base, k)
  <2>1. Times(Times(Base, x), g) = Times(Base, x * g)
    BY BaseRepresented, TimesProduct
  <2>2. x * g \in Nat
    OBVIOUS
  <2>3. Times(Base, f + x * g) = Curve!Plus(Times(Base, f), Times(Base, x * g))
    BY <2>2, BaseRepresented, TimesSum
  <2>4. PICK q \in Nat : q = d
    <3>1. d >= 0
      <4>1. d <= -1 => d * m <= -m
        OBVIOUS
      <4> QED BY <1>5, <1>6, <4>1
    <3> QED BY <3>1
  <2>5. n = q * ORDER + k
    BY <1>1, <1>6, <2>4
  <2>6. Times(Base, q * ORDER + k) = Times(Base, k)
    BY OfOrder
  <2> QED BY <1>5, <2>1, <2>3, <2>5, <2>6
<1>9. Represents(VerifySum, Curve!Plus(Times(Base, f), Times(Times(Base, x), g)))
  BY <1>1, <1>3, <1>4, VerifySumStands
<1> QED BY <1>1, <1>6, <1>7, <1>8, <1>9

LEMMA XOfMultiple ==
    ASSUME NEW p, NEW k \in 1..ORDER - 1, Represents(p, Times(Base, k))
    PROVE  /\ ~IsZero(Normalize(p))
           /\ XModOrder(Normalize(p)) = Times(Base, k)[1] % ORDER
           /\ Curve!Scalar(Base, k)[1] = Times(Base, k)[1]
<1>1. PICK X \in Residue, Y \in Residue :
          X = Times(Base, k)[1] /\ Normalize(p) = [x |-> X, y |-> Y, z |-> 1]
  <2>1. Times(Base, k) # Curve!Identity
    BY NotIdentity
  <2> QED BY <2>1, OfRepresented
<1>2. XModOrder(Normalize(p)) = IF X >= ORDER THEN X - ORDER ELSE X
  BY <1>1 DEF XModOrder
<1>3. PICK m \in Nat \ {0}, x \in Nat : m = ORDER /\ x = X /\ x < 2 * m
  <2>1. ORDER \in Nat \ {0} /\ X \in Nat /\ X < 2 * ORDER
    BY Primes DEF Residue
  <2> QED BY <2>1
<1>4. x % m = IF x >= m THEN x - m ELSE x
  <2>1. CASE x < m
    <3>1. (0 * m + x) % m = x
      <4>1. x \in 0..m - 1 /\ 0 \in Int
        BY <2>1
      <4> QED BY ONLY <4>1, m \in Nat \ {0}, RemainderUnique
    <3> QED BY <2>1, <3>1
  <2>2. CASE x >= m
    <3>1. PICK e \in Nat : e = x - m /\ e \in 0..m - 1
      BY <1>3, <2>2
    <3>2. (1 * m + e) % m = e
      BY ONLY <3>1, 1 \in Int, m \in Nat \ {0}, RemainderUnique
    <3>3. 1 * m + e = x
      BY <3>1
    <3> QED BY <2>2, <3>1, <3>2, <3>3
  <2> QED BY <2>1, <2>2
<1>5. ~IsZero(Normalize(p))
  BY <1>1 DEF IsZero
<1>6. Curve!Scalar(Base, k) = Times(Base, k)
  BY BaseRepresented, ScalarIsTimes
<1> QED BY <1>1, <1>2, <1>3, <1>4, <1>5, <1>6

(* What CheckSignature returns.                                            *)
Accepted ==
    /\ InRange(r) /\ InRange(s) /\ KeyIsUsable
    /\ ~IsZero(Normalize(VerifySum)) /\ r = XModOrder(Normalize(VerifySum))

LEMMA AcceptedIsSignature ==
    ASSUME TypeOK, InRange(key)
    PROVE  Accepted <=> IsSignature
<1>1. key \in Nat /\ r \in Nat
  BY KeysAreNumbers, Primes DEF TypeOK
<1>2. ASSUME Accepted PROVE IsSignature
  <2>1. InRange(r) /\ InRange(s)
    BY <1>2 DEF Accepted
  <2>2. Total \in 0..ORDER - 1 /\ Solves(Total) /\ Represents(VerifySum, Times(Base, Total))
    BY <2>1, TotalSolves
  <2>3. Total # 0
    <3> SUFFICES ASSUME Total = 0 PROVE FALSE
      OBVIOUS
    <3>1. Represents(VerifySum, Curve!Identity)
      BY <2>2, BaseRepresented, TimesDefined
    <3>2. IsZero(Normalize(VerifySum))
      BY <3>1, OfRepresented, RepresentsZero
    <3> QED BY <1>2, <3>2 DEF Accepted
  <2>4. PICK k \in 1..ORDER - 1 : k = Total
    BY <2>2, <2>3
  <2>5. r = Curve!Scalar(Base, k)[1] % ORDER /\ r # 0
    BY <1>2, <2>1, <2>2, <2>4, XOfMultiple DEF Accepted, InRange
  <2> QED BY <2>1, <2>2, <2>4, <2>5 DEF IsSignature, Solves, Base
<1>3. ASSUME IsSignature PROVE Accepted
  <2>1. PICK k \in 1..ORDER - 1 :
            Solves(k) /\ r # 0 /\ r = Curve!Scalar(Base, k)[1] % ORDER
    BY <1>3 DEF IsSignature, Solves, Base
  <2>2. InRange(s)
    BY <1>3 DEF IsSignature
  <2>3. InRange(r)
    <3>1. Times(Base, k) \in CurvePoints /\ Times(Base, k) # Curve!Identity
      BY <2>1, BaseRepresented, TimesDefined, NotIdentity
    <3>2. Times(Base, k)[1] \in Int
      BY <3>1, ResiduesAreInts DEF CurvePoints
    <3>3. r = Times(Base, k)[1] % ORDER
      BY <2>1, BaseRepresented, ScalarIsTimes
    <3>4. r \in 0..ORDER - 1
      BY <3>2, <3>3, ModuloOrder
    <3> QED BY <2>1, <3>4, Primes DEF InRange
  <2>4. Total \in 0..ORDER - 1 /\ Solves(Total) /\ Represents(VerifySum, Times(Base, Total))
    BY <2>2, <2>3, TotalSolves
  <2>5. Total = k
    BY <1>1, <2>1, <2>2, <2>4, k \in 0..ORDER - 1, SolutionIsUnique
  <2>6. /\ ~IsZero(Normalize(VerifySum))
        /\ XModOrder(Normalize(VerifySum)) = Times(Base, k)[1] % ORDER
        /\ Curve!Scalar(Base, k)[1] = Times(Base, k)[1]
    BY <2>4, <2>5, XOfMultiple
  <2>7. KeyIsUsable
    BY <1>1, KeysAreUsable
  <2> QED BY <2>1, <2>2, <2>3, <2>6, <2>7 DEF Accepted
<1> QED BY <1>2, <1>3

(* Negating the number negates the point.                                  *)
LEMMA NegatedMultiple ==
    ASSUME NEW k \in 1..ORDER - 1
    PROVE  ORDER - k \in 1..ORDER - 1 /\ Times(Base, ORDER - k)[1] = Times(Base, k)[1]
<1>1. PICK j \in Nat : j = ORDER - k /\ j \in 1..ORDER - 1 /\ j + k = ORDER
  BY Primes
<1>2. Curve!Plus(Times(Base, j), Times(Base, k)) = Curve!Identity
  <2>1. Times(Base, j + k) = Curve!Plus(Times(Base, j), Times(Base, k))
    BY BaseRepresented, TimesSum
  <2> QED BY <1>1, <2>1, BaseRepresented
<1>3. Times(Base, j)[1] = Times(Base, k)[1]
  BY <1>1, <1>2, BaseRepresented, TimesDefined, NotIdentity, OppositePoints
<1> QED BY <1>1, <1>3

(* What sign computes solves the equation, with either of the values of s. *)
Signed == SignSucceeds /\ r = SignR /\ s = LowS(SignS)

LEMMA SignedIsSignature ==
    ASSUME TypeOK, InRange(key), Signed
    PROVE  IsSignature
<1>1. /\ key \in Nat /\ hash \in Nat /\ hmac \in 1..ORDER - 1
      /\ hash < 2 * ORDER
      /\ SignR \in 1..ORDER - 1 /\ SignS \in 1..ORDER - 1
  <2>1. hmac \in 1..ORDER - 1
    BY Primes DEF TypeOK, Signed, SignSucceeds, NonceInRange
  <2>2. SignR \in 0..ORDER - 1 /\ SignS \in 0..ORDER - 1 /\ SignR # 0 /\ SignS # 0
    BY SignParts DEF Signed, SignSucceeds
  <2>3. key \in Nat /\ hash \in Nat /\ hash < 2 * ORDER
    BY KeysAreNumbers, InputsAssumption, Primes DEF TypeOK
  <2> QED BY <2>1, <2>2, <2>3, Primes
<1>2. PICK m \in Nat, k \in Nat, g \in Nat, w \in Nat, h \in Nat, x \in Nat :
          /\ m = ORDER /\ k = hmac /\ g = SignS /\ w = r /\ h = hash /\ x = key
          /\ k \in 1..m - 1 /\ g \in 1..m - 1 /\ w \in 1..m - 1
  BY <1>1, Primes DEF Signed
<1>3. PICK i \in Nat, c \in Int : i = InverseOfOrder[k] /\ k * i = 1 + c * m
  BY <1>2, InverseOf
<1>4. PICK u \in Int, a \in Int : u = HashSum /\ u = w * x + h - a * m
  <2>1. PICK v \in Int : v = w * x
    OBVIOUS
  <2>2. PICK e \in Nat, b \in Int : e = v % ORDER /\ e = v - b * ORDER /\ e \in 0..ORDER - 1
    BY <2>1, ModuloOrder
  <2>3. HashSum = Reduced(e + h)
    BY <1>2, <2>1, <2>2 DEF HashSum, Signed
  <2>4. HashSum \in Int /\ HashSum < ORDER
    <3>1. e + h \in Nat
      OBVIOUS
    <3> QED BY <2>3, <3>1, ReducedIsResidue DEF Signed, SignSucceeds
  <2>5. PICK q \in Int : HashSum = e + h - q * m
    <3>1. e + h < Width + ORDER
      <4>1. h < Width /\ h \in Nat /\ e < ORDER
        BY <1>2, <2>2, InputsAssumption, Primes DEF TypeOK
      <4> QED BY <4>1, Primes
    <3>2. Reduced(e + h) = IF e + h < ORDER THEN e + h ELSE (e + h) - ORDER
      BY <3>1, e + h \in Nat, ReducedIsResidue
    <3>3. HashSum = e + h - 0 * m \/ HashSum = e + h - 1 * m
      BY <1>2, <2>3, <3>2
    <3> QED BY <3>3, 0 \in Int, 1 \in Int
  <2>6. e + h - q * m = w * x + h - (b + q) * m
    <3>1. (b + q) * m = b * m + q * m
      OBVIOUS
    <3>2. PICK l1 \in Int, l2 \in Int : l1 = b * m /\ l2 = q * m
      OBVIOUS
    <3>3. e = v - l1
      BY <1>2, <2>2, <3>2
    <3> QED BY <2>1, <3>1, <3>2, <3>3
  <2> QED BY <1>2, <2>4, <2>5, <2>6, b + q \in Int
<1>5. PICK b \in Int : g = u * i - b * m
  <2>1. u * i \in Int
    OBVIOUS
  <2>2. SignS = (u * i) % ORDER
    BY <1>2, <1>3, <1>4 DEF SignS
  <2> QED BY <1>2, <2>1, <2>2, ModuloOrder
<1>6. PICK d \in Int : g * k - h - w * x = d * m
  <2>1. PICK d \in Int : d = u * c - a - b * k
    OBVIOUS
  <2>2. g * k = u * (k * i) - (b * k) * m
    BY <1>5
  <2>3. u * (k * i) = u + (u * c) * m
    <3>1. u * (1 + c * m) = u + (u * c) * m
      OBVIOUS
    <3> QED BY <1>3, <3>1
  <2>4. PICK l1 \in Int, l2 \in Int, l3 \in Int, l4 \in Int :
            l1 = b * k /\ l2 = u * c /\ l3 = w * x /\ l4 = g * k
    OBVIOUS
  <2>5. l4 = u + l2 * m - l1 * m
    BY <2>2, <2>3, <2>4
  <2>6. u = l3 + h - a * m
    BY <1>4, <2>4
  <2>7. d = l2 - a - l1
    BY <2>1, <2>4
  <2>8. l4 - h - l3 = d * m
    BY <2>5, <2>6, <2>7
  <2> QED BY <2>4, <2>8
<1>7. r = Times(Base, k)[1] % ORDER
  <2>1. k < Width /\ k \in 1..ORDER - 1
    BY <1>2, Primes
  <2>2. Represents(Multiply(G, k), Times(Base, k))
    BY <2>1, BaseRepresented, MultiplyRepresents, Primes
  <2>3. XModOrder(PublicPoint(k)) = Times(Base, k)[1] % ORDER
    BY <2>1, <2>2, XOfMultiple DEF PublicPoint
  <2> QED BY <1>2, <2>3 DEF Signed, SignR
<1>8. ASSUME NEW j \in 1..ORDER - 1, Times(Base, j)[1] = Times(Base, k)[1],
             NEW e \in Int, s * j - h - w * x = e * m, InRange(s)
      PROVE  IsSignature
  <2>1. s \in Nat /\ j \in Nat
    BY <1>8, Primes DEF TypeOK
  <2>2. s * j - h - w * x \in Int
    BY <2>1
  <2>3. (s * j - hash - r * key) % ORDER = 0
    BY <1>2, <1>8, <2>2, DivisibleByOrder
  <2>4. Curve!Scalar(Base, j) = Times(Base, j)
    BY <2>1, BaseRepresented, ScalarIsTimes
  <2>5. r # 0 /\ r = Curve!Scalar(Affine(G), j)[1] % ORDER
    BY <1>2, <1>7, <1>8, <2>4 DEF Base
  <2> QED BY <1>8, <2>3, <2>5 DEF IsSignature
<1>9. s = g \/ s = m - g
  BY <1>2 DEF Signed, LowS
<1>10. InRange(s)
  BY <1>2, <1>9, Primes DEF InRange
<1>11. CASE s = g
  BY <1>2, <1>6, <1>8, <1>10, <1>11
<1>12. CASE s = m - g
  <2>1. PICK j \in Nat : j = m - k
    BY <1>2
  <2>2. j \in 1..ORDER - 1 /\ Times(Base, j)[1] = Times(Base, k)[1]
    BY <1>2, <2>1, NegatedMultiple
  <2>3. PICK e \in Int : e = d + m - k - g
    OBVIOUS
  <2>4. (m - g) * (m - k) - h - w * x = e * m
    <3>1. (m - g) * (m - k) = g * k + (m - k - g) * m
      OBVIOUS
    <3>2. (d + m - k - g) * m = d * m + (m - k - g) * m
      OBVIOUS
    <3>3. PICK l1 \in Int, l2 \in Int, l3 \in Int, l4 \in Int :
              l1 = (m - k - g) * m /\ l2 = g * k /\ l3 = w * x /\ l4 = d * m
      OBVIOUS
    <3>4. l2 - h - l3 = l4
      BY <1>6, <3>3
    <3>5. (m - g) * (m - k) - h - l3 = l4 + l1
      BY <3>1, <3>3, <3>4
    <3> QED BY <2>3, <3>2, <3>3, <3>5
  <2> QED BY <1>8, <1>10, <1>12, <2>1, <2>2, <2>4
<1> QED BY <1>9, <1>11, <1>12

---------------------------------------------------------------------------
(* What the steps keep of signing and verifying.  A retry finds what the   *)
(* first call found, so only an outermost call creates a signature.        *)
Retried == depth > 0 => ~SignSucceeds

Created == byUser /\ phase \in {"created", "checking", "checked"} => Signed

Computed ==
    phase = "checking" =>
        /\ InRange(key) /\ InRange(r) /\ InRange(s) /\ KeyIsUsable
        /\ sum = VerifySum

Concluded == phase = "checked" => InRange(key) /\ (verdict <=> Accepted)

Verified == Retried /\ Created /\ Computed /\ Concluded

LEMMA SameSigning ==
    ASSUME UNCHANGED <<key, hash, hmac>>
    PROVE  /\ SignSucceeds' <=> SignSucceeds
           /\ SignR' = SignR /\ LowS(SignS)' = LowS(SignS)
           /\ UNCHANGED <<r, s>> => (Signed' <=> Signed)
<1>1. PublicPoint(hmac)' = PublicPoint(hmac)
  BY DEF PublicPoint
<1>2. SignR' = SignR
  BY <1>1 DEF SignR, XModOrder
<1>3. HashSum' = HashSum
  BY <1>2 DEF HashSum, Reduced, Wrap, Width
<1>4. SignS' = SignS
  BY <1>3 DEF SignS, InverseOfOrder
<1>5. NonceInRange' <=> NonceInRange
  BY DEF NonceInRange
<1>6. SignSucceeds' <=> SignSucceeds
  BY <1>2, <1>3, <1>4, <1>5 DEF SignSucceeds
<1>7. LowS(SignS)' = LowS(SignS)
  BY <1>4 DEF LowS
<1>8. ASSUME UNCHANGED <<r, s>> PROVE Signed' <=> Signed
  BY <1>2, <1>6, <1>7, <1>8 DEF Signed
<1> QED BY <1>2, <1>6, <1>7, <1>8

LEMMA SameVerifying ==
    ASSUME UNCHANGED <<key, hash, r, s>>
    PROVE  /\ VerifySum' = VerifySum
           /\ KeyIsUsable' <=> KeyIsUsable
           /\ Accepted' <=> Accepted
<1>1. PublicKey' = PublicKey
  BY DEF PublicKey, PublicPoint
<1>2. FirstFactor' = FirstFactor /\ SecondFactor' = SecondFactor
  BY DEF FirstFactor, SecondFactor, InverseOfOrder
<1>3. VerifySum' = VerifySum
  BY <1>1, <1>2 DEF VerifySum
<1>4. KeyIsUsable' <=> KeyIsUsable
  BY <1>1 DEF KeyIsUsable
<1> QED BY <1>3, <1>4 DEF Accepted, InRange

LEMMA InitVerified == Init => Verified
BY DEF Init, Verified, Retried, Created, Computed, Concluded

LEMMA StepVerified == IInv /\ Verified /\ [Next]_vars => Verified'
<1> SUFFICES ASSUME IInv, Verified, [Next]_vars PROVE Verified'
  OBVIOUS
<1> USE DEF Verified
<1>1. CASE CreateSignature
  <2>1. SignSucceeds /\ phase' = "created" /\ UNCHANGED <<key, hash, hmac, depth>>
    BY <1>1 DEF CreateSignature
  <2>2. depth = 0
    <3>1. depth \in Nat
      BY InputsAssumption DEF IInv, TypeOK
    <3> QED BY <2>1, <3>1 DEF Retried
  <2>3. r' = SignR /\ s' = LowS(SignS)
    BY <1>1, <2>2 DEF CreateSignature
  <2>4. Signed'
    BY <2>1, <2>3, SameSigning DEF Signed
  <2> QED BY <2>1, <2>2, <2>4 DEF Retried, Created, Computed, Concluded
<1>2. CASE CreateAgain
  BY <1>2, SameSigning DEF CreateAgain, Retried, Created, Computed, Concluded
<1>3. CASE CreateAborts
  BY <1>3, SameSigning DEF CreateAborts, Retried, Created, Computed, Concluded
<1>4. CASE CheckAborts
  BY <1>4, SameSigning DEF CheckAborts, Retried, Created, Computed, Concluded
<1>5. CASE CheckRefuses
  <2>1. /\ phase = "created" \/ phase = "arrived"
        /\ phase' = "checked" /\ verdict' = FALSE /\ InRange(key)
        /\ UNCHANGED <<key, hash, hmac, depth, r, s, sum, byUser>>
    BY <1>5 DEF CheckRefuses
  <2>2. ~Accepted'
    BY <1>5, <2>1, SameVerifying DEF CheckRefuses, Accepted
  <2>3. Created'
    BY <2>1, SameSigning DEF Created, IInv, Made
  <2> QED BY <2>1, <2>2, <2>3, SameSigning DEF Retried, Computed, Concluded, InRange
<1>6. CASE CheckComputes
  <2>1. /\ phase = "created" \/ phase = "arrived"
        /\ phase' = "checking" /\ sum' = VerifySum
        /\ InRange(key) /\ InRange(r) /\ InRange(s) /\ KeyIsUsable
        /\ UNCHANGED <<key, hash, hmac, depth, r, s, verdict, byUser>>
    BY <1>6 DEF CheckComputes, VerifySum
  <2>2. Computed'
    BY <2>1, SameVerifying DEF Computed, InRange
  <2>3. Created'
    BY <2>1, SameSigning DEF Created, IInv, Made
  <2> QED BY <2>1, <2>2, <2>3, SameSigning DEF Retried, Concluded
<1>7. CASE CheckCompares
  <2>1. /\ phase = "checking" /\ phase' = "checked"
        /\ verdict' = (~IsZero(Normalize(sum)) /\ r = XModOrder(Normalize(sum)))
        /\ UNCHANGED <<key, hash, hmac, depth, r, s, sum, byUser>>
    BY <1>7 DEF CheckCompares
  <2>2. verdict' <=> Accepted
    BY <2>1 DEF Computed, Accepted
  <2>3. Concluded'
    BY <2>1, <2>2, SameVerifying DEF Computed, Concluded, InRange
  <2>4. Created'
    BY <2>1, SameSigning DEF Created
  <2> QED BY <2>1, <2>3, <2>4, SameSigning DEF Retried, Computed
<1>8. CASE UNCHANGED vars
  <2>1. UNCHANGED <<key, hash, hmac, depth, phase, r, s, sum, verdict, byUser>>
    BY <1>8 DEF vars
  <2>2. Retried' /\ Created'
    BY <2>1, SameSigning DEF Retried, Created
  <2>3. Computed' /\ Concluded'
    BY <2>1, SameVerifying DEF Computed, Concluded, InRange
  <2> QED BY <2>2, <2>3
<1> QED BY <1>1, <1>2, <1>3, <1>4, <1>5, <1>6, <1>7, <1>8 DEF Next

LEMMA VerifiedInductive == Spec => [](IInv /\ Verified)
BY InitInv, StepInv, InitVerified, StepVerified, PTL DEF Spec

LEMMA PointsOfSum == IInv /\ Verified => PointsAgree
<1> SUFFICES ASSUME IInv, Verified, phase = "checking"
             PROVE  LET expected == Curve!Plus(Curve!Scalar(Affine(G), FirstFactor),
                                               Curve!Scalar(Affine(PublicKey), SecondFactor))
                    IN  /\ Affine(sum) = expected
                        /\ IF expected = Curve!Identity THEN Normalize(sum) = ZERO
                           ELSE Normalize(sum) = [x |-> expected[1], y |-> expected[2], z |-> 1]
  BY DEF PointsAgree
<1>1. TypeOK /\ InRange(key) /\ InRange(r) /\ InRange(s) /\ sum = VerifySum
  BY DEF IInv, Verified, Computed
<1>2. key \in Nat
  BY <1>1, KeysAreNumbers DEF TypeOK
<1>3. FirstFactor \in Nat /\ SecondFactor \in Nat
  BY <1>1, FactorsAreNumbers, Primes
<1>4. Affine(PublicKey) = Times(Base, key) /\ Times(Base, key) \in CurvePoints
  BY <1>1, <1>2, KeysAreUsable, OfRepresented, RepresentsPoint
<1>5. /\ Curve!Scalar(Affine(G), FirstFactor) = Times(Base, FirstFactor)
      /\ Curve!Scalar(Affine(PublicKey), SecondFactor) = Times(Times(Base, key), SecondFactor)
  BY <1>3, <1>4, BaseRepresented, ScalarIsTimes DEF Base
<1> DEFINE E == Curve!Plus(Curve!Scalar(Affine(G), FirstFactor),
                           Curve!Scalar(Affine(PublicKey), SecondFactor))
<1>6. Represents(sum, E)
  BY <1>1, <1>5, VerifySumStands
<1> HIDE DEF E
<1>7. /\ Affine(sum) = E
      /\ IF E = Curve!Identity THEN Normalize(sum) = ZERO
         ELSE Normalize(sum) = [x |-> E[1], y |-> E[2], z |-> 1]
  BY <1>6, OfRepresented
<1> QED BY <1>7 DEF E

(* Whoever signs and whoever sends: coordinates stay field elements,       *)
(* numbers keep their width, and what a user creates has an r and an s     *)
(* below the order (Ecdsa.cpp:35).                                         *)
THEOREM SignatureTypes == Spec => []TypeOK
BY Inductive, PTL DEF IInv

(* Of the s and the order minus s a user's signature has the lower one     *)
(* (Ecdsa.cpp:50-52).                                                      *)
THEOREM CreatedIsLow == Spec => []Low
BY Inductive, PTL DEF IInv

(* No assertion fails for a user, unless the hash is no residue of the     *)
(* order (Ecdsa.cpp:129).                                                  *)
THEOREM AbortsOnlyBeyondOrder == Spec => []AbortsBeyondOrder
BY Inductive, PTL DEF IInv

(* The projective formulas, the windows of multiply and the special cases  *)
(* of add agree with the affine group law, and normalize finds the         *)
(* representative with z = 1 (CurvePoint.hpp).                             *)
THEOREM SumsAgree == Spec => []PointsAgree
BY VerifiedInductive, PointsOfSum, PTL

(* verify accepts the solutions of the signature equation and nothing else *)
(* (Ecdsa.cpp:78-97).                                                      *)
THEOREM SignaturesAccepted == Spec => []AcceptsExactlySignatures
<1>1. IInv /\ Verified => AcceptsExactlySignatures
  BY AcceptedIsSignature DEF IInv, Verified, Concluded, AcceptsExactlySignatures
<1> QED BY <1>1, VerifiedInductive, PTL

(* What a user creates is accepted, whatever the key, the hash and the     *)
(* nonce, and its s is the lower one (Tests.cpp:186, Ecdsa.cpp:51).        *)
THEOREM CreatedAreAccepted == Spec => []CreatedVerifies
<1>1. IInv /\ Verified => CreatedVerifies
  BY SignedIsSignature, AcceptedIsSignature
     DEF IInv, Low, Verified, Created, Concluded, CreatedVerifies
<1> QED BY <1>1, VerifiedInductive, PTL

=============================================================================
