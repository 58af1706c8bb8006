--------------------------- MODULE ModOrderProofs ---------------------------
(***************************************************************************)
(* Proofs about the loops of ModOrder, for every width, every number of    *)
(* bits and every odd modulus below the width.                             *)
(***************************************************************************)
EXTENDS ModOrder, Facts

(* What an odd number divides and what is twice something: the half of it  *)
(* is divided as well.                                                     *)
LEMMA HalfOfMultiple ==
    ASSUME NEW m \in Nat, m % 2 = 1, NEW u \in Int, NEW k \in Int, 2 * u = k * m
    PROVE  \E j \in Int : u = j * m
<1>1. PICK p \in Nat : m = 2 * p + 1
  <2>1. m = 2 * (m \div 2) + 1 /\ m \div 2 \in Nat
    OBVIOUS
  <2> QED BY <2>1
<1>2. k * m = 2 * (k * p) + k
  BY <1>1
<1>3. k = 2 * (u - k * p)
  BY <1>1, <1>2
<1> DEFINE j == u - k * p
<1>4. j \in Int /\ k = 2 * j
  BY <1>1, <1>3
<1> HIDE DEF j
<1>5. 2 * u = 2 * (j * m)
  BY <1>4
<1>6. u = j * m
  BY <1>4, <1>5
<1> QED BY <1>4, <1>6

(* A sum of two residues is reduced to a residue: the carry says when what *)
(* is left in the Uint256 is too small, the comparison when it is too      *)
(* large (Ecdsa.cpp:131-139).                                              *)
LEMMA ReducedIsResidue ==
    ASSUME modulus \in Moduli, NEW s \in 0..2 * modulus - 1
    PROVE  /\ Reduced(s) = IF s >= modulus THEN s - modulus ELSE s
           /\ Reduced(s) \in 0..modulus - 1
<1>1. modulus \in Nat /\ Width \in Nat /\ modulus + 1 < Width
  BY ModuliAssumption
<1> QED BY <1>1 DEF Reduced, Wrap

(* A difference of residues, with the borrow made good.                    *)
LEMMA MinusIsResidue ==
    ASSUME modulus \in Moduli, NEW u \in 0..modulus - 1, NEW v \in 0..modulus - 1
    PROVE  /\ Minus(u, v) = IF u < v THEN u - v + modulus ELSE u - v
           /\ Minus(u, v) \in 0..modulus - 1
<1>1. modulus \in Nat /\ Width \in Nat /\ modulus + 1 < Width
  BY ModuliAssumption
<1> QED BY <1>1 DEF Minus, Wrap

-----------------------------------------------------------------------------
(* What % says, with the quotient named: the form in which the turns keep  *)
(* it.                                                                     *)
ProductCongruence == \E k \in Int : number * top = z + k * modulus
Multiple(d)       == \E k \in Int : d = k * modulus
XCongruence       == Multiple(a * number - x)
YCongruence       == Multiple(b * number - y)

IInv == TypeOK /\ ProductCongruence /\ XCongruence /\ YCongruence

LEMMA InitIInv == Init => IInv
<1> SUFFICES ASSUME Init PROVE IInv
  OBVIOUS
<1>1. /\ modulus \in Moduli /\ modulus \in Nat /\ 1 < modulus /\ modulus % 2 = 1
      /\ Bits \in Nat
  BY ModuliAssumption DEF Init
<1>2. TypeOK
  BY <1>1 DEF Init, TypeOK
<1>3. number \in Int /\ number * 0 = 0 /\ number * 0 = 0 + 0 * modulus
  BY <1>1 DEF Init
<1>4. ProductCongruence
  BY <1>3 DEF Init, ProductCongruence
<1>5. 0 * number - modulus = (-1) * modulus
  BY <1>1, <1>3
<1>6. XCongruence
  BY <1>5 DEF Init, XCongruence, Multiple
<1>7. 1 * number - number = 0 * modulus
  BY <1>1, <1>3
<1>8. YCongruence
  BY <1>7 DEF Init, YCongruence, Multiple
<1> QED BY <1>2, <1>4, <1>6, <1>8 DEF IInv

(* A turn of the multiplication takes off at most twice the modulus.       *)
LEMMA MultiplyTurnKeeps == IInv /\ MultiplyTurn => IInv'
<1> SUFFICES ASSUME IInv, MultiplyTurn PROVE IInv'
  OBVIOUS
<1> DEFINE bit     == factor[i - 1]
           doubled == Reduced(2 * z)
<1>1. /\ modulus \in Moduli /\ modulus \in Nat /\ Bits \in Nat
      /\ z \in 0..modulus - 1 /\ number \in 0..modulus - 1
      /\ top \in Nat
  BY ModuliAssumption DEF IInv, TypeOK
<1>2. bit \in {0, 1}
  <2>1. i - 1 \in 0..Bits - 1
    BY <1>1 DEF IInv, TypeOK, MultiplyTurn
  <2> QED BY <2>1 DEF IInv, TypeOK
<1>3. z' = Reduced(doubled + bit * number) /\ top' = 2 * top + bit /\ i' = i - 1
  BY DEF MultiplyTurn
<1> HIDE DEF bit
<1>4. /\ doubled = IF 2 * z >= modulus THEN 2 * z - modulus ELSE 2 * z
      /\ doubled \in 0..modulus - 1
  BY <1>1, ReducedIsResidue
<1> HIDE DEF doubled
<1> DEFINE s == doubled + bit * number
<1>5. s \in 0..2 * modulus - 1 /\ s = IF bit = 1 THEN doubled + number ELSE doubled
  BY <1>1, <1>2, <1>4
<1> HIDE DEF s
<1>6. /\ z' = IF s >= modulus THEN s - modulus ELSE s
      /\ z' \in 0..modulus - 1
  BY <1>1, <1>3, <1>5, ReducedIsResidue DEF s
<1>7. TypeOK'
  <2>1. i' \in 0..Bits /\ top' \in Nat
    BY <1>1, <1>2, <1>3 DEF IInv, TypeOK, MultiplyTurn
  <2>2. /\ UNCHANGED <<call, modulus, number, factor>>
        /\ UNCHANGED <<x, y, a, b>>
        /\ call = "multiply"
    BY DEF MultiplyTurn, gcd
  <2> QED BY <1>6, <2>1, <2>2 DEF IInv, TypeOK
<1>8. ProductCongruence'
  <2>1. PICK k \in Int : number * top = z + k * modulus
    BY DEF IInv, ProductCongruence
  <2>2. number * top' = 2 * (number * top) + (IF bit = 1 THEN number ELSE 0)
    BY <1>1, <1>2, <1>3
  <2>3. PICK e \in {0, 1} : doubled = 2 * z - e * modulus
    BY <1>1, <1>4
  <2>4. PICK f \in {0, 1} : z' = s - f * modulus
    BY <1>1, <1>5, <1>6
  <2> DEFINE n == 2 * k + e + f
  <2>5. n \in Int
    BY <2>1, <2>3, <2>4
  <2>6. number * top' = z' + n * modulus
    <3>1. 2 * (number * top) = 2 * z + 2 * (k * modulus)
      BY <1>1, <2>1
    <3>2. n * modulus = 2 * (k * modulus) + e * modulus + f * modulus
      BY <1>1, <2>1, <2>3, <2>4
    <3>3. e * modulus \in Int /\ f * modulus \in Int /\ k * modulus \in Int
      BY <1>1, <2>1, <2>3, <2>4
    <3> QED BY <1>1, <1>5, <2>2, <2>3, <2>4, <3>1, <3>2, <3>3
  <2>7. number' = number /\ modulus' = modulus
    BY DEF MultiplyTurn
  <2> QED BY <2>5, <2>6, <2>7 DEF ProductCongruence
<1>9. XCongruence' /\ YCongruence'
  <2>1. UNCHANGED <<x, y, a, b, number, modulus>>
    BY DEF MultiplyTurn, gcd
  <2> QED BY <2>1 DEF IInv, XCongruence, YCongruence, Multiple
<1> QED BY <1>7, <1>8, <1>9 DEF IInv

(* Halving y and b keeps their congruence: twice the difference is still a *)
(* multiple of the modulus, which is odd.                                  *)
LEMMA HalvingKeeps ==
    ASSUME TypeOK, YCongruence
    PROVE  /\ HalvedY \in 0..modulus /\ HalvedB \in 0..modulus - 1
           /\ Multiple(HalvedB * number - HalvedY)
<1>1. /\ modulus \in Moduli /\ modulus \in Nat /\ Width \in Nat
      /\ 1 < modulus /\ modulus + 1 < Width /\ modulus % 2 = 1
      /\ number \in 0..modulus - 1 /\ y \in 0..modulus /\ b \in 0..modulus - 1
  BY ModuliAssumption DEF TypeOK
<1>2. PICK k \in Int : b * number - y = k * modulus
  BY DEF YCongruence, Multiple
<1>3. CASE y % 2 = 1
  <2>1. HalvedY = y /\ HalvedB = b
    BY <1>1, <1>3 DEF HalvedY, HalvedB
  <2> QED BY <1>1, <1>2, <2>1 DEF Multiple
<1>4. CASE y % 2 = 0
  <2>1. HalvedY = y \div 2 /\ 2 * HalvedY = y /\ HalvedY \in 0..modulus
    BY <1>1, <1>4 DEF HalvedY
  <2>2. PICK odd \in {0, 1} :
           2 * HalvedB = b + odd * modulus /\ HalvedB \in 0..modulus - 1
    <3>1. CASE b % 2 = 0
      <4>1. HalvedB = b \div 2
        BY <1>4, <3>1 DEF HalvedB
      <4>2. 2 * HalvedB = b + 0 * modulus /\ HalvedB \in 0..modulus - 1
        BY <1>1, <3>1, <4>1
      <4> QED BY <4>2
    <3>2. CASE b % 2 = 1
      <4>1. 2 * HalfModulus = modulus + 1 /\ HalfModulus \in Nat
        BY <1>1 DEF HalfModulus, Wrap
      <4>2. HalvedB = Wrap(b \div 2 + HalfModulus)
        BY <1>4, <3>2 DEF HalvedB
      <4>3. 2 * (b \div 2) = b - 1 /\ b \div 2 \in Nat
        BY <1>1, <3>2
      <4>4. b \div 2 + HalfModulus \in 0..modulus - 1
        BY <1>1, <4>1, <4>3
      <4>5. HalvedB = b \div 2 + HalfModulus
        BY <1>1, <4>2, <4>4 DEF Wrap
      <4>6. 2 * HalvedB = b + 1 * modulus /\ HalvedB \in 0..modulus - 1
        BY <1>1, <4>1, <4>3, <4>4, <4>5
      <4> QED BY <4>6
    <3> QED BY <1>1, <3>1, <3>2
  <2> DEFINE u == HalvedB * number - HalvedY
             n == k + odd * number
  <2>3. u \in Int /\ n \in Int
    BY <1>1, <1>2, <2>1, <2>2
  <2>4. 2 * u = n * modulus
    <3>1. 2 * u = (2 * HalvedB) * number - y
      BY <1>1, <2>1, <2>2
    <3>2. (b + odd * modulus) * number = b * number + (odd * number) * modulus
      BY <1>1, <2>2
    <3>3. n * modulus = k * modulus + (odd * number) * modulus
      BY <1>1, <1>2, <2>2
    <3> QED BY <1>1, <1>2, <2>2, <3>1, <3>2, <3>3
  <2>5. \E j \in Int : u = j * modulus
    BY <1>1, <2>3, <2>4, HalfOfMultiple
  <2> QED BY <2>1, <2>2, <2>5 DEF Multiple
<1> QED BY <1>1, <1>3, <1>4

(* The difference of two congruences, b taken modulo the modulus.          *)
LEMMA DifferenceCongruent ==
    ASSUME modulus \in Moduli, NEW n \in Int,
           NEW u \in 0..modulus - 1, NEW v \in 0..modulus - 1,
           NEW p \in Int, NEW q \in Int,
           Multiple(u * n - p),
           Multiple(v * n - q)
    PROVE  Multiple(Minus(u, v) * n - (p - q))
<1>1. modulus \in Nat
  BY ModuliAssumption
<1>2. PICK k \in Int : u * n - p = k * modulus
  BY DEF Multiple
<1>3. PICK l \in Int : v * n - q = l * modulus
  BY DEF Multiple
<1>4. PICK e \in {0, 1} : Minus(u, v) = u - v + e * modulus
  <2>1. u - v = u - v + 0 * modulus /\ u - v + modulus = u - v + 1 * modulus
    BY <1>1
  <2> QED BY <2>1, MinusIsResidue
<1> DEFINE j == k - l + e * n
<1>5. j \in Int
  BY <1>2, <1>3, <1>4
<1>6. j * modulus = k * modulus - l * modulus + e * n * modulus
  BY <1>1, <1>2, <1>3, <1>4
<1>7. (u - v + e * modulus) * n = u * n - v * n + e * n * modulus
  BY <1>1, <1>4
<1>8. Minus(u, v) * n - (p - q) = j * modulus
  BY <1>1, <1>2, <1>3, <1>4, <1>6, <1>7
<1> QED BY <1>5, <1>8 DEF Multiple

LEMMA ReciprocalTurnKeeps == IInv /\ ReciprocalTurn => IInv'
<1> SUFFICES ASSUME IInv, ReciprocalTurn PROVE IInv'
  OBVIOUS
<1>1. /\ modulus \in Moduli /\ modulus \in Nat
      /\ x \in 1..modulus /\ x % 2 = 1 /\ a \in 0..modulus - 1
      /\ number \in 0..modulus - 1
      /\ Width \in Nat /\ modulus + 1 < Width /\ Bits \in Nat
  BY ModuliAssumption DEF IInv, TypeOK
<1>2. /\ HalvedY \in 0..modulus /\ HalvedB \in 0..modulus - 1
      /\ Multiple(HalvedB * number - HalvedY)
  BY HalvingKeeps DEF IInv
<1>3. Multiple(a * number - x)
  BY DEF IInv, XCongruence
<1>4. /\ UNCHANGED <<call, modulus, number, factor>>
      /\ UNCHANGED <<z, top>>
  BY DEF ReciprocalTurn, product
<1>5. i' \in 0..2 * Bits /\ call = "reciprocal"
  BY <1>1 DEF ReciprocalTurn, Turns, IInv, TypeOK
<1>6. /\ x' \in 1..modulus /\ x' % 2 = 1 /\ y' \in 0..modulus
      /\ a' \in 0..modulus - 1 /\ b' \in 0..modulus - 1
      /\ Multiple(a' * number - x')
      /\ Multiple(b' * number - y')
  <2>1. CASE HalvedY % 2 = 0
    <3>1. x' = x /\ a' = a /\ y' = HalvedY /\ b' = HalvedB
      BY <1>2, <2>1 DEF ReciprocalTurn
    <3> QED BY <1>1, <1>2, <1>3, <3>1
  <2>2. CASE HalvedY % 2 = 1 /\ x <= HalvedY
    <3>1. x' = x /\ a' = a /\ y' = Wrap(HalvedY - x) /\ b' = Minus(HalvedB, a)
      BY <1>1, <1>2, <2>2 DEF ReciprocalTurn
    <3>2. y' = HalvedY - x /\ y' \in 0..modulus
      BY <1>1, <1>2, <2>2, <3>1 DEF Wrap
    <3>3. b' \in 0..modulus - 1
      BY <1>1, <1>2, <3>1, MinusIsResidue
    <3>4. Multiple(b' * number - y')
      <4>1. Multiple(Minus(HalvedB, a) * number - (HalvedY - x))
        <5>1. /\ modulus \in Moduli /\ number \in Int
              /\ HalvedB \in 0..modulus - 1 /\ a \in 0..modulus - 1
              /\ HalvedY \in Int /\ x \in Int
          BY <1>1, <1>2
        <5>2. /\ Multiple(HalvedB * number - HalvedY)
              /\ Multiple(a * number - x)
          BY <1>2, <1>3
        <5> QED BY <5>1, <5>2, DifferenceCongruent
      <4> QED BY <3>1, <3>2, <4>1
    <3> QED BY <1>1, <1>3, <3>1, <3>2, <3>3, <3>4
  <2>3. CASE HalvedY % 2 = 1 /\ x > HalvedY
    <3>1. x' = HalvedY /\ a' = HalvedB /\ y' = Wrap(x - HalvedY)
          /\ b' = Minus(a, HalvedB)
      BY <1>1, <1>2, <2>3 DEF ReciprocalTurn
    <3>2. y' = x - HalvedY /\ y' \in 0..modulus /\ HalvedY \in 1..modulus
      BY <1>1, <1>2, <2>3, <3>1 DEF Wrap
    <3>3. b' \in 0..modulus - 1
      BY <1>1, <1>2, <3>1, MinusIsResidue
    <3>4. Multiple(b' * number - y')
      <4>1. Multiple(Minus(a, HalvedB) * number - (x - HalvedY))
        <5>1. /\ modulus \in Moduli /\ number \in Int
              /\ a \in 0..modulus - 1 /\ HalvedB \in 0..modulus - 1
              /\ x \in Int /\ HalvedY \in Int
          BY <1>1, <1>2
        <5>2. /\ Multiple(a * number - x)
              /\ Multiple(HalvedB * number - HalvedY)
          BY <1>2, <1>3
        <5> QED BY <5>1, <5>2, DifferenceCongruent
      <4> QED BY <3>1, <3>2, <4>1
    <3> QED BY <1>2, <2>3, <3>1, <3>2, <3>3, <3>4
  <2>4. HalvedY % 2 \in {0, 1} /\ (x <= HalvedY \/ x > HalvedY)
    BY <1>1, <1>2
  <2> QED BY <2>1, <2>2, <2>3, <2>4
<1>7. TypeOK'
  BY <1>4, <1>5, <1>6 DEF IInv, TypeOK
<1>8. ProductCongruence'
  BY <1>4 DEF IInv, ProductCongruence
<1>9. XCongruence' /\ YCongruence'
  BY <1>4, <1>6 DEF XCongruence, YCongruence, Multiple
<1> QED BY <1>7, <1>8, <1>9 DEF IInv

-----------------------------------------------------------------------------
LEMMA Inductive == Spec => []IInv
<1>1. IInv /\ [Next]_vars => IInv'
  <2> SUFFICES ASSUME IInv, [Next]_vars PROVE IInv'
    OBVIOUS
  <2>1. CASE MultiplyTurn
    BY <2>1, MultiplyTurnKeeps
  <2>2. CASE ReciprocalTurn
    BY <2>2, ReciprocalTurnKeeps
  <2>3. CASE MultiplyReturns
    BY <2>3 DEF MultiplyReturns, product, gcd, IInv, TypeOK,
                ProductCongruence, XCongruence, YCongruence, Multiple
  <2>4. CASE ReciprocalReturns
    BY <2>4 DEF ReciprocalReturns, product, gcd, IInv, TypeOK,
                ProductCongruence, XCongruence, YCongruence, Multiple
  <2>5. CASE UNCHANGED vars
    BY <2>5 DEF vars, IInv, TypeOK, ProductCongruence, XCongruence, YCongruence,
                Multiple
  <2> QED BY <2>1, <2>2, <2>3, <2>4, <2>5 DEF Next
<1> QED BY <1>1, InitIInv, PTL DEF Spec

(* What the code asserts of its residues, and that none of the sums and    *)
(* differences leaves them, for every odd modulus below the width.         *)
THEOREM ResiduesStay == Spec => []TypeOK
<1>1. IInv => TypeOK
  BY DEF IInv
<1> QED BY <1>1, Inductive, PTL

(* The doubling and the addition of multiplyModOrder, each followed by one *)
(* conditional subtraction, compute the product modulo the order.          *)
THEOREM MultipliesModOrder == Spec => []ProductSoFar
<1>1. IInv => ProductSoFar
  <2> SUFFICES ASSUME IInv PROVE ProductSoFar
    OBVIOUS
  <2>1. modulus \in Nat \ {0} /\ z \in 0..modulus - 1
    BY ModuliAssumption DEF IInv, TypeOK
  <2>2. PICK k \in Int : number * top = k * modulus + z
    <3>1. PICK k \in Int : number * top = z + k * modulus
      BY DEF IInv, ProductCongruence
    <3>2. z + k * modulus = k * modulus + z
      BY <2>1, <3>1
    <3> QED BY <3>1, <3>2
  <2>3. (k * modulus + z) % modulus = z
    BY <2>1, RemainderUnique
  <2> QED BY <2>2, <2>3 DEF ProductSoFar
<1> QED BY <1>1, Inductive, PTL

(* The loop invariant of reciprocal that its comment states.               *)
THEOREM ReciprocalInvariant == Spec => []LoopInvariant
<1>1. IInv => LoopInvariant
  <2> SUFFICES ASSUME IInv PROVE LoopInvariant
    OBVIOUS
  <2>1. modulus \in Nat \ {0} /\ 0 \in 0..modulus - 1
    BY ModuliAssumption DEF IInv, TypeOK
  <2>2. ASSUME NEW k \in Int PROVE (k * modulus) % modulus = 0
    <3>1. (k * modulus + 0) % modulus = 0
      BY <2>1, RemainderUnique
    <3>2. k * modulus + 0 = k * modulus
      BY <2>1
    <3> QED BY <3>1, <3>2
  <2>3. (a * number - x) % modulus = 0
    BY <2>2 DEF IInv, XCongruence, Multiple
  <2>4. (b * number - y) % modulus = 0
    BY <2>2 DEF IInv, YCongruence, Multiple
  <2> QED BY <2>3, <2>4 DEF LoopInvariant
<1> QED BY <1>1, Inductive, PTL


-----------------------------------------------------------------------------
(* What multiplyModOrder has read of its factor.                           *)

(* FactorValue is the function that its definition describes.              *)
LEMMA FactorValueDefined ==
    ASSUME Bits \in Nat, factor \in [0..Bits - 1 -> {0, 1}]
    PROVE  /\ FactorValue[0] = 0
           /\ \A k \in 1..Bits : FactorValue[k] = FactorValue[k - 1] + factor[k - 1] * 2 ^ (k - 1)
           /\ \A k \in 0..Bits : FactorValue[k] \in Nat
<1> DEFINE step == [k \in 1..Bits |-> [v \in Nat |-> v + factor[k - 1] * 2 ^ (k - 1)]]
<1>1. \A k \in 1..Bits : factor[k - 1] * 2 ^ (k - 1) \in Nat
  <2> SUFFICES ASSUME NEW k \in 1..Bits PROVE factor[k - 1] * 2 ^ (k - 1) \in Nat
    OBVIOUS
  <2>1. k - 1 \in 0..Bits - 1 /\ k - 1 \in Nat
    OBVIOUS
  <2>2. factor[k - 1] \in {0, 1} /\ 2 ^ (k - 1) \in Nat
    BY <2>1, PowersOfTwo
  <2> HIDE DEF step
  <2> QED BY <2>2
<1>2. step \in [1..Bits -> [Nat -> Nat]]
  BY <1>1
<1>3. \A k \in 1..Bits, v \in Nat : step[k][v] = v + factor[k - 1] * 2 ^ (k - 1)
  OBVIOUS
<1> HIDE DEF step
<1>4. PICK f : Iterates(f, 0..Bits, Nat, 0, step)
  BY <1>2, FiniteRecursion
<1>5. f = [k \in 0..Bits |-> IF k = 0 THEN 0 ELSE f[k - 1] + factor[k - 1] * 2 ^ (k - 1)]
  <2>1. f \in [0..Bits -> Nat]
    BY <1>4 DEF Iterates
  <2>2. ASSUME NEW k \in 0..Bits, k # 0
        PROVE  f[k] = f[k - 1] + factor[k - 1] * 2 ^ (k - 1)
    <3>1. k \in 1..Bits /\ f[k - 1] \in Nat
      BY <2>1, <2>2
    <3> QED BY <2>2, <3>1, <1>3, <1>4 DEF Iterates
  <2>3. f[0] = 0
    BY <1>4 DEF Iterates
  <2> QED BY <2>1, <2>2, <2>3
<1>6. FactorValue = [k \in 0..Bits |->
         IF k = 0 THEN 0 ELSE FactorValue[k - 1] + factor[k - 1] * 2 ^ (k - 1)]
  BY <1>5 DEF FactorValue
<1> HIDE DEF FactorValue
<1>7. /\ FactorValue[0] = 0
      /\ \A k \in 1..Bits : FactorValue[k] = FactorValue[k - 1] + factor[k - 1] * 2 ^ (k - 1)
  BY <1>6
<1> DEFINE T == {k \in 0..Bits : FactorValue[k] \in Nat}
<1>8. 0 \in T
  BY <1>7
<1>9. ASSUME NEW k \in 0..Bits - 1, k \in T PROVE k + 1 \in T
  <2>1. k + 1 \in 1..Bits /\ (k + 1) - 1 = k
    OBVIOUS
  <2>2. FactorValue[k + 1] = FactorValue[k] + factor[k] * 2 ^ k
    BY <1>7, <2>1
  <2>3. factor[k] * 2 ^ k \in Nat
    BY <1>1, <2>1
  <2> QED BY <1>9, <2>1, <2>2, <2>3
<1> HIDE DEF T
<1>10. 0..Bits \subseteq T
  BY <1>8, <1>9, InductionUpTo
<1> QED BY <1>7, <1>10 DEF T

(* The bits read, shifted up by those that are not, and the rest.          *)
FactorInv ==
    call \in {"multiply", "product"} =>
        /\ top * 2 ^ i + FactorValue[i] = FactorValue[Bits]
        /\ call = "product" => i = 0

LEMMA FactorInductive ==
    /\ Init => FactorInv
    /\ IInv /\ FactorInv /\ [Next]_vars => FactorInv'
<1>1. ASSUME Init PROVE FactorInv
  <2>1. Bits \in Nat /\ 0 * 2 ^ Bits = 0
    BY ModuliAssumption, PowersOfTwo
  <2>2. CASE call = "multiply"
    <3>1. factor \in [0..Bits - 1 -> {0, 1}] /\ i = Bits /\ top = 0
      BY <1>1, <2>2 DEF Init
    <3>2. FactorValue[Bits] \in Nat
      BY <2>1, <3>1, FactorValueDefined
    <3> HIDE DEF FactorValue
    <3> QED BY <2>1, <2>2, <3>1, <3>2 DEF FactorInv
  <2>3. CASE call # "multiply"
    BY <1>1, <2>3 DEF Init, FactorInv
  <2> QED BY <2>2, <2>3
<1>2. ASSUME IInv, FactorInv, MultiplyTurn PROVE FactorInv'
  <2>1. /\ call = "multiply" /\ call' = call /\ factor' = factor
        /\ i \in 1..Bits /\ i' = i - 1 /\ top \in Nat /\ Bits \in Nat
        /\ top' = 2 * top + factor[i - 1]
        /\ factor \in [0..Bits - 1 -> {0, 1}]
    BY <1>2, ModuliAssumption DEF MultiplyTurn, IInv, TypeOK
  <2>2. FactorValue' = FactorValue
    BY <2>1 DEF FactorValue
  <2>3. /\ FactorValue[i] = FactorValue[i - 1] + factor[i - 1] * 2 ^ (i - 1)
        /\ FactorValue[i - 1] \in Nat
    BY <2>1, FactorValueDefined
  <2>4. top * 2 ^ i + FactorValue[i] = FactorValue[Bits]
    BY <1>2, <2>1 DEF FactorInv
  <2> HIDE DEF FactorValue
  <2>5. /\ 2 ^ ((i - 1) + 1) = 2 * 2 ^ (i - 1) /\ 2 ^ (i - 1) \in Nat
        /\ (i - 1) + 1 = i /\ factor[i - 1] \in {0, 1}
    BY <2>1, PowersOfTwo, i - 1 \in Nat, i - 1 \in 0..Bits - 1
  <2> DEFINE bit   == factor[i - 1]
             place == 2 ^ (i - 1)
  <2>6. bit \in Int /\ place \in Int /\ 2 ^ i = 2 * place
    BY <2>5
  <2> HIDE DEF bit, place
  <2>7. (2 * top + bit) * place = top * (2 * place) + bit * place
    BY <2>1, <2>6
  <2>8. top' * place + FactorValue[i - 1] = FactorValue[Bits]
    <3>1. FactorValue[i] = FactorValue[i - 1] + bit * place /\ top' = 2 * top + bit
      BY <2>1, <2>3 DEF bit, place
    <3>2. bit * place \in Int /\ top * (2 * place) \in Int
      BY <2>1, <2>6
    <3> QED BY <2>3, <2>4, <2>6, <2>7, <3>1, <3>2
  <2>9. top' * 2 ^ i' + FactorValue'[i'] = FactorValue'[Bits]
    BY <2>1, <2>2, <2>8 DEF place
  <2> QED BY <2>1, <2>9 DEF FactorInv
<1>3. ASSUME FactorInv, MultiplyReturns PROVE FactorInv'
  <2>1. FactorValue' = FactorValue
    BY <1>3 DEF MultiplyReturns, FactorValue
  <2> HIDE DEF FactorValue
  <2> QED BY <1>3, <2>1 DEF MultiplyReturns, FactorInv, product
<1>4. ASSUME ReciprocalTurn \/ ReciprocalReturns PROVE FactorInv'
  BY <1>4 DEF ReciprocalTurn, ReciprocalReturns, FactorInv
<1>5. ASSUME FactorInv, UNCHANGED vars PROVE FactorInv'
  <2>1. FactorValue' = FactorValue
    BY <1>5 DEF vars, FactorValue
  <2> HIDE DEF FactorValue
  <2> QED BY <1>5, <2>1 DEF vars, FactorInv
<1> QED BY <1>1, <1>2, <1>3, <1>4, <1>5 DEF Next

(* multiplyModOrder reads every bit of its factor, at its place.           *)
THEOREM WholeFactor == Spec => []WholeFactorRead
<1>1. IInv /\ FactorInv => WholeFactorRead
  <2> SUFFICES ASSUME IInv, FactorInv, call = "product"
               PROVE  top = FactorValue[Bits]
    BY DEF WholeFactorRead
  <2>1. /\ top \in Nat /\ i = 0 /\ Bits \in Nat
        /\ top * 2 ^ 0 + FactorValue[0] = FactorValue[Bits]
        /\ factor \in [0..Bits - 1 -> {0, 1}]
    BY ModuliAssumption DEF IInv, TypeOK, FactorInv
  <2>2. FactorValue[0] = 0 /\ 2 ^ 0 = 1
    BY <2>1, FactorValueDefined, PowersOfTwo
  <2> HIDE DEF FactorValue
  <2> QED BY <2>1, <2>2
<1> QED BY <1>1, Inductive, FactorInductive, PTL DEF Spec

-----------------------------------------------------------------------------
(* Why the turns of reciprocal are enough, and what it leaves.             *)

Divides(d, n) == \E q \in Nat : n = d * q

(* A turn takes at least one bit off the product of x and y: y was even,   *)
(* or it is the first turn.                                                *)
Shrinks ==
    /\ x * y * 2 ^ i < Width * Width
    /\ y % 2 = 0 \/ (i = 0 /\ x = modulus)

(* No turn makes a common divisor that was not there.                      *)
DivisorsStay ==
    \A d \in Nat : Divides(d, x) /\ Divides(d, y) =>
                   Divides(d, modulus) /\ Divides(d, number)

GcdInv ==
    /\ call \in {"reciprocal", "inverse", "aborted"} =>
          Shrinks /\ DivisorsStay /\ (number = 0 => y = 0 /\ x = modulus)
    /\ call \in {"inverse", "aborted"} =>
          i = Turns /\ (call = "inverse" <=> x = 1 \/ x = modulus)

(* What a turn does to x and y, as numbers.                                *)
LEMMA TurnOfNumbers ==
    ASSUME TypeOK, ReciprocalTurn
    PROVE  \E h \in Nat :
              /\ y = 2 * h \/ (y = h /\ y % 2 = 1)
              /\ \/ y = 2 * h /\ x' = x /\ y' = h /\ h % 2 = 0
                 \/ h % 2 = 1 /\ x <= h /\ x' = x /\ y' = h - x
                 \/ h % 2 = 1 /\ h < x /\ x' = h /\ y' = x - h
<1>1. /\ modulus \in Nat /\ Width \in Nat /\ modulus + 1 < Width
      /\ x \in 1..modulus /\ y \in 0..modulus
  BY ModuliAssumption DEF TypeOK
<1>2. /\ HalvedY \in Nat /\ HalvedY <= modulus
      /\ y = 2 * HalvedY \/ (y = HalvedY /\ y % 2 = 1)
  BY <1>1 DEF HalvedY
<1> DEFINE h == HalvedY
<1>3. CASE h % 2 = 0
  <2>1. x' = x /\ y' = h /\ y = 2 * h
    BY <1>1, <1>2, <1>3 DEF ReciprocalTurn
  <2> HIDE DEF h
  <2> QED BY <1>2, <1>3, <2>1 DEF h
<1>4. CASE h % 2 = 1 /\ x <= h
  <2>1. x' = x /\ y' = Wrap(h - x)
    BY <1>1, <1>2, <1>4 DEF ReciprocalTurn
  <2>2. y' = h - x
    BY <1>1, <1>2, <1>4, <2>1 DEF Wrap
  <2> HIDE DEF h
  <2> QED BY <1>2, <1>4, <2>1, <2>2 DEF h
<1>5. CASE h % 2 = 1 /\ h < x
  <2>1. x' = h /\ y' = Wrap(x - h)
    BY <1>1, <1>2, <1>5 DEF ReciprocalTurn
  <2>2. y' = x - h
    BY <1>1, <1>2, <1>5, <2>1 DEF Wrap
  <2> HIDE DEF h
  <2> QED BY <1>2, <1>5, <2>1, <2>2 DEF h
<1>6. h % 2 \in {0, 1} /\ (x <= h \/ h < x)
  BY <1>1, <1>2
<1> QED BY <1>3, <1>4, <1>5, <1>6

(* Sums and differences of multiples are multiples.                        *)
LEMMA DividesSum ==
    ASSUME NEW d \in Nat, NEW m \in Nat, NEW n \in Nat, Divides(d, m), Divides(d, n)
    PROVE  Divides(d, m + n)
<1>1. PICK q \in Nat : m = d * q
  BY DEF Divides
<1>2. PICK r \in Nat : n = d * r
  BY DEF Divides
<1>3. m + n = d * (q + r) /\ q + r \in Nat
  BY <1>1, <1>2
<1> QED BY <1>3 DEF Divides

LEMMA TurnKeepsDivisors ==
    ASSUME TypeOK, ReciprocalTurn, DivisorsStay
    PROVE  DivisorsStay'
<1>1. x \in Nat /\ y \in Nat
  BY ModuliAssumption DEF TypeOK
<1>2. PICK h \in Nat :
              /\ y = 2 * h \/ (y = h /\ y % 2 = 1)
              /\ \/ y = 2 * h /\ x' = x /\ y' = h /\ h % 2 = 0
                 \/ h % 2 = 1 /\ x <= h /\ x' = x /\ y' = h - x
                 \/ h % 2 = 1 /\ h < x /\ x' = h /\ y' = x - h
  BY TurnOfNumbers
<1>3. modulus' = modulus /\ number' = number
  BY DEF ReciprocalTurn
<1>4. ASSUME NEW d \in Nat, Divides(d, x'), Divides(d, y')
      PROVE  Divides(d, modulus) /\ Divides(d, number)
  <2>1. Divides(d, x) /\ Divides(d, h)
    <3>1. CASE x' = x /\ y' = h
      BY <1>4, <3>1
    <3>2. CASE x <= h /\ x' = x /\ y' = h - x
      <4>1. x' \in Nat /\ y' \in Nat /\ x' + y' = h
        BY <1>1, <3>2
      <4>2. Divides(d, x' + y')
        BY <1>4, <4>1, DividesSum
      <4> QED BY <1>4, <3>2, <4>1, <4>2
    <3>3. CASE h < x /\ x' = h /\ y' = x - h
      <4>1. x' \in Nat /\ y' \in Nat /\ x' + y' = x
        BY <1>1, <3>3
      <4>2. Divides(d, x' + y')
        BY <1>4, <4>1, DividesSum
      <4> QED BY <1>4, <3>3, <4>1, <4>2
    <3> QED BY <1>2, <3>1, <3>2, <3>3
  <2>2. Divides(d, h + h)
    BY <2>1, DividesSum
  <2>3. y = h + h \/ y = h
    BY <1>2
  <2>4. Divides(d, y)
    BY <2>1, <2>2, <2>3
  <2> QED BY <2>1, <2>4 DEF DivisorsStay
<1> QED BY <1>3, <1>4 DEF DivisorsStay

(* Either y was even, and half of it takes its place or is taken apart, or *)
(* x and y were at most the modulus, and a product of two numbers is at    *)
(* most a fourth of the square of their sum.                               *)
LEMMA TurnHalves ==
    ASSUME NEW u \in Nat, NEW v \in Nat, NEW h \in Nat, NEW u2 \in Nat, NEW v2 \in Nat,
           v = 2 * h,
           \/ u2 = u /\ v2 = h
           \/ u <= h /\ u2 = u /\ v2 = h - u
           \/ h < u /\ u2 = h /\ v2 = u - h
    PROVE  2 * (u2 * v2) <= u * v
<1>1. u * v = 2 * (u * h)
  OBVIOUS
<1>2. u2 * v2 <= u * h
  <2>1. CASE u2 = u /\ v2 = h
    BY <2>1
  <2>2. CASE u <= h /\ u2 = u /\ v2 = h - u
    <3>1. u * (h - u) = u * h - u * u /\ u * u \in Nat /\ u * h \in Nat
      BY <2>2
    <3> QED BY <2>2, <3>1
  <2>3. CASE h < u /\ u2 = h /\ v2 = u - h
    <3>1. h * (u - h) = u * h - h * h /\ h * h \in Nat /\ u * h \in Nat
      BY <2>3
    <3> QED BY <2>3, <3>1
  <2> QED BY <2>1, <2>2, <2>3
<1>3. u2 * v2 \in Nat /\ u * h \in Nat
  OBVIOUS
<1> QED BY <1>1, <1>2, <1>3

LEMMA ProductOfParts ==
    ASSUME NEW u \in Nat, NEW v \in Nat, v <= u
    PROVE  4 * (v * (u - v)) <= u * u
<1> DEFINE d == u - 2 * v
<1>1. d \in Int /\ u = d + 2 * v
  OBVIOUS
<1>2. d * d >= 0
  <2> HIDE DEF d
  <2>1. d \in Nat \/ -d \in Nat
    BY <1>1
  <2> QED BY <1>1, <2>1
<1>3. d * d = u * u - 4 * (v * (u - v))
  OBVIOUS
<1>4. u * u \in Int /\ v * (u - v) \in Int /\ d * d \in Int
  OBVIOUS
<1> HIDE DEF d
<1> QED BY <1>2, <1>3, <1>4

LEMMA TurnShrinks ==
    ASSUME TypeOK, ReciprocalTurn, Shrinks
    PROVE  Shrinks'
<1>1. /\ modulus \in Nat /\ Width \in Nat /\ modulus + 1 < Width
      /\ x \in 1..modulus /\ y \in 0..modulus /\ i \in Nat /\ i' = i + 1
      /\ x % 2 = 1
  <2>1. i \in 0..Bits \/ i \in 0..2 * Bits
    BY DEF TypeOK
  <2> QED BY <2>1, ModuliAssumption DEF TypeOK, ReciprocalTurn
<1>2. PICK h \in Nat :
              /\ y = 2 * h \/ (y = h /\ y % 2 = 1)
              /\ \/ y = 2 * h /\ x' = x /\ y' = h /\ h % 2 = 0
                 \/ h % 2 = 1 /\ x <= h /\ x' = x /\ y' = h - x
                 \/ h % 2 = 1 /\ h < x /\ x' = h /\ y' = x - h
  BY TurnOfNumbers
<1>3. y' % 2 = 0 /\ x' \in Nat /\ y' \in Nat
  BY <1>1, <1>2
<1>4. 2 ^ i \in Nat \ {0} /\ 2 ^ (i + 1) = 2 * 2 ^ i
  BY <1>1, PowersOfTwo
<1> DEFINE power == 2 ^ i
           new   == x' * y'
<1>5. power \in Nat \ {0} /\ new \in Nat /\ new * 2 ^ (i + 1) = 2 * new * power
  <2>1. power \in Nat \ {0} /\ new \in Nat /\ 2 ^ (i + 1) = 2 * power
    <3>1. new \in Nat
      <4>1. PICK u \in Nat, v \in Nat : u = x' /\ v = y'
        BY <1>3
      <4>2. u * v \in Nat
        OBVIOUS
      <4> QED BY <4>1, <4>2
    <3> QED BY <1>4, <3>1
  <2> HIDE DEF power, new
  <2>2. new * (2 * power) = 2 * new * power
    BY <2>1
  <2> QED BY <2>1, <2>2
<1>6. x * y \in Nat /\ Width * Width \in Nat
  BY <1>1
<1>7. new * 2 ^ (i + 1) < Width * Width
  <2>1. CASE y = 2 * h
    <3>1. 2 * new <= x * y
      <4>1. PICK u \in Nat, v \in Nat, u2 \in Nat, v2 \in Nat :
                u = x /\ v = y /\ u2 = x' /\ v2 = y'
        BY <1>1, <1>3
      <4>2. /\ v = 2 * h
            /\ \/ u2 = u /\ v2 = h
               \/ u <= h /\ u2 = u /\ v2 = h - u
               \/ h < u /\ u2 = h /\ v2 = u - h
        BY <1>2, <2>1, <4>1
      <4>3. 2 * (u2 * v2) <= u * v
        BY <4>2, TurnHalves
      <4> QED BY <4>1, <4>3
    <3>2. (2 * new) * power <= (x * y) * power
      <4> HIDE DEF new, power
      <4> DEFINE m == x * y
      <4>1. m \in Nat /\ 2 * new <= m
        BY <1>6, <3>1
      <4> HIDE DEF m
      <4>2. (2 * new) * power <= m * power
        BY <4>1, <1>5
      <4> QED BY <4>2 DEF m
    <3>3. (x * y) * power < Width * Width
      BY DEF Shrinks
    <3> HIDE DEF new, power
    <3>4. (2 * new) * power \in Nat /\ (x * y) * power \in Nat
      BY <1>5, <1>6
    <3> QED BY <1>5, <1>6, <3>2, <3>3, <3>4
  <2>2. CASE y = h /\ y % 2 = 1
    <3>1. i = 0 /\ x = modulus /\ power = 1
      BY <1>1, <2>2, PowersOfTwo DEF Shrinks
    <3>2. new = y * (x - y) \/ new = 0
      <4>1. CASE h < x /\ x' = h /\ y' = x - h
        BY <2>2, <4>1
      <4>2. CASE x <= h /\ y' = h - x
        <5>1. y' = 0
          BY <1>1, <1>3, <2>2, <3>1, <4>2
        <5>2. PICK u \in Nat : u = x'
          BY <1>3
        <5>3. u * 0 = 0
          OBVIOUS
        <5> QED BY <5>1, <5>2, <5>3
      <4>3. h % 2 # 0
        BY <2>2
      <4> QED BY <1>2, <4>1, <4>2, <4>3
    <3>3. 4 * new <= x * x
      <4>1. 4 * (y * (x - y)) <= x * x
        BY <1>1, <3>1, ProductOfParts
      <4>2. 0 <= x * x
        BY <1>1
      <4> HIDE DEF new
      <4> QED BY <3>2, <4>1, <4>2
    <3>4. x * x < Width * Width
      <4>1. x < Width /\ x \in Nat
        BY <1>1
      <4>2. x * x <= x * Width /\ x * Width < Width * Width
        BY <1>1, <4>1
      <4> QED BY <1>1, <4>2
    <3> HIDE DEF new, power
    <3>5. x * x \in Nat
      BY <1>1
    <3> QED BY <1>5, <1>6, <3>1, <3>3, <3>4, <3>5
  <2> QED BY <1>2, <2>1, <2>2
<1> QED BY <1>1, <1>3, <1>7 DEF Shrinks

LEMMA GcdInductive ==
    /\ Init => GcdInv
    /\ IInv /\ GcdInv /\ [Next]_vars => GcdInv'
<1>1. ASSUME Init PROVE GcdInv
  <2>1. /\ modulus \in Nat /\ 1 < modulus /\ modulus + 1 < Width
        /\ number \in 0..modulus - 1 /\ x = modulus /\ y = number
        /\ call \in {"multiply", "reciprocal"} /\ Width \in Nat
    BY <1>1, ModuliAssumption DEF Init
  <2>2. ASSUME call = "reciprocal" PROVE Shrinks
    <3>1. i = 0 /\ 2 ^ 0 = 1
      BY <1>1, <2>2, PowersOfTwo DEF Init
    <3>2. modulus * number <= modulus * Width /\ modulus * Width < Width * Width
      BY <2>1
    <3>3. (modulus * number) * 1 = modulus * number
      BY <2>1
    <3>4. modulus * number \in Nat /\ modulus * Width \in Nat /\ Width * Width \in Nat
      BY <2>1
    <3>5. x * y * 2 ^ i < Width * Width
      BY <2>1, <3>1, <3>2, <3>3, <3>4
    <3> QED BY <2>1, <3>1, <3>5 DEF Shrinks
  <2>3. DivisorsStay
    BY <2>1 DEF DivisorsStay
  <2> QED BY <2>1, <2>2, <2>3 DEF GcdInv
<1>2. ASSUME IInv, GcdInv, ReciprocalTurn PROVE GcdInv'
  <2>1. /\ TypeOK /\ call = "reciprocal" /\ call' = "reciprocal"
        /\ Shrinks /\ DivisorsStay /\ (number = 0 => y = 0 /\ x = modulus)
        /\ number' = number /\ modulus' = modulus
    BY <1>2 DEF IInv, GcdInv, ReciprocalTurn
  <2>2. Shrinks' /\ DivisorsStay'
    BY <1>2, <2>1, TurnShrinks, TurnKeepsDivisors
  <2>3. number' = 0 => y' = 0 /\ x' = modulus'
    <3> SUFFICES ASSUME number = 0 PROVE y' = 0 /\ x' = modulus
      BY <2>1
    <3>1. y = 0 /\ x = modulus
      BY <2>1
    <3>2. HalvedY = 0
      BY <3>1 DEF HalvedY
    <3> QED BY <1>2, <3>1, <3>2 DEF ReciprocalTurn
  <2> QED BY <2>1, <2>2, <2>3 DEF GcdInv
<1>3. ASSUME GcdInv, ReciprocalReturns PROVE GcdInv'
  BY <1>3 DEF ReciprocalReturns, GcdInv, Shrinks, DivisorsStay, Divides, product, gcd,
              Turns
<1>4. ASSUME GcdInv, MultiplyTurn \/ MultiplyReturns PROVE GcdInv'
  BY <1>4 DEF MultiplyTurn, MultiplyReturns, GcdInv
<1>5. ASSUME GcdInv, UNCHANGED vars PROVE GcdInv'
  BY <1>5 DEF vars, GcdInv, Shrinks, DivisorsStay, Divides, product, gcd, Turns
<1> QED BY <1>1, <1>2, <1>3, <1>4, <1>5 DEF Next

(* Once x times y, shifted up by all the turns, is less than the square of *)
(* the width, there is nothing left of y.                                  *)
LEMMA NothingLeft ==
    ASSUME IInv, GcdInv, call \in {"reciprocal", "inverse", "aborted"}, i = Turns
    PROVE  y = 0
<1>1. /\ Bits \in Nat /\ Width = 2 ^ Bits /\ Width \in Nat
      /\ x \in Nat /\ 1 <= x /\ y \in Nat /\ i = 2 * Bits
  BY ModuliAssumption DEF IInv, TypeOK, GcdInv, Turns
<1>2. x * y * 2 ^ (2 * Bits) < Width * Width
  BY <1>1 DEF GcdInv, Shrinks
<1>3. 2 ^ (Bits + Bits) = Width * Width
  BY <1>1, PowersAdd
<1>4. 2 * Bits = Bits + Bits
  BY <1>1
<1> DEFINE square == Width * Width
           m      == x * y
<1>5. m * square < square /\ m \in Nat /\ square \in Nat
  BY <1>1, <1>2, <1>3, <1>4
<1>6. m = 0
  <2> HIDE DEF m, square
  <2>1. CASE 1 <= m
    <3>1. square <= m * square
      BY <1>5, <2>1
    <3>2. m * square \in Nat
      BY <1>5
    <3> QED BY <1>5, <3>1, <3>2
  <2> QED BY <1>5, <2>1
<1>7. CASE 1 <= y
  <2>1. 1 <= x * y
    BY <1>1, <1>7
  <2> QED BY <1>6, <2>1
<1> QED BY <1>1, <1>7

(* A number that divides itself and zero: x, at the end, is a common       *)
(* divisor of the modulus and the number.                                  *)
LEMMA CommonDivisor ==
    ASSUME IInv, GcdInv, call \in {"reciprocal", "inverse", "aborted"}, i = Turns
    PROVE  Divides(x, modulus) /\ Divides(x, number)
<1>1. x \in Nat /\ y = 0
  BY NothingLeft, ModuliAssumption DEF IInv, TypeOK
<1>2. x = x * 1 /\ 0 = x * 0
  BY <1>1
<1>3. Divides(x, x) /\ Divides(x, y)
  BY <1>1, <1>2 DEF Divides
<1>4. DivisorsStay
  BY DEF GcdInv
<1> QED BY <1>1, <1>3, <1>4 DEF DivisorsStay

(* The turns are enough for every width and every odd modulus; the         *)
(* assertion fails only for a number that has no inverse, and what is      *)
(* returned is the inverse.                                                *)
THEOREM ReciprocalFinds == Spec => []InverseFound
<1>1. IInv /\ GcdInv => InverseFound
  <2> SUFFICES ASSUME IInv, GcdInv, call \in {"inverse", "aborted"}
               PROVE  /\ y = 0
                      /\ call = "aborted" => number # 0 /\ ~Coprime(modulus, number)
                      /\ call = "inverse" => IF number = 0 THEN Returned = 0
                                             ELSE (Returned * number) % modulus = 1
    BY DEF InverseFound
  <2>t. i = Turns
    BY DEF GcdInv
  <2>1. y = 0
    BY <2>t, NothingLeft
  <2>2. /\ modulus \in Nat /\ 1 < modulus /\ x \in 1..modulus
        /\ number \in 0..modulus - 1 /\ a \in 0..modulus - 1
    BY ModuliAssumption DEF IInv, TypeOK
  <2>3. PICK p \in Nat, q \in Nat : modulus = x * p /\ number = x * q
    BY <2>t, CommonDivisor DEF Divides
  <2>4. ASSUME call = "aborted" PROVE number # 0 /\ ~Coprime(modulus, number)
    <3>1. x \notin {1, modulus} /\ number # 0
      BY <2>4 DEF GcdInv
    <3>2. x \in 2..modulus
      BY <2>2, <3>1
    <3>3. modulus % x = 0 /\ number % x = 0
      <4>1. ASSUME NEW k \in Nat PROVE (x * k) % x = 0
        <5>1. (k * x + 0) % x = 0
          BY <2>2, RemainderUnique, 0 \in 0..x - 1, x \in Nat \ {0}
        <5>2. k * x + 0 = x * k
          BY <2>2
        <5> QED BY <5>1, <5>2
      <4> QED BY <2>3, <4>1
    <3> QED BY <3>1, <3>2, <3>3 DEF Coprime
  <2>5. ASSUME call = "inverse", number = 0 PROVE Returned = 0
    BY <2>5 DEF Returned
  <2>6. ASSUME call = "inverse", number # 0 PROVE (Returned * number) % modulus = 1
    <3>1. x = 1
      <4>1. CASE x = modulus
        <5>1. CASE q = 0
          BY <2>2, <2>3, <2>6, <5>1
        <5>2. CASE q >= 1
          <6>1. x * q >= x
            BY <2>2, <5>2
          <6> QED BY <2>2, <2>3, <4>1, <6>1
        <5> QED BY <5>1, <5>2
      <4> QED BY <2>6, <4>1 DEF GcdInv
    <3>2. PICK k \in Int : a * number - x = k * modulus
      BY DEF IInv, XCongruence, Multiple
    <3>3. a * number = k * modulus + 1
      BY <2>2, <3>1, <3>2
    <3>4. (k * modulus + 1) % modulus = 1
      <4>1. modulus \in Nat \ {0} /\ 1 \in 0..modulus - 1
        BY <2>2
      <4> QED BY <4>1, RemainderUnique
    <3> QED BY <2>6, <3>3, <3>4 DEF Returned
  <2> QED BY <2>1, <2>4, <2>5, <2>6
<1> QED BY <1>1, Inductive, GcdInductive, PTL DEF Spec

=============================================================================
