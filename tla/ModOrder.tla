------------------------------ MODULE ModOrder ------------------------------
(***************************************************************************)
(* The two loops behind a signature: Ecdsa::multiplyModOrder, Russian      *)
(* peasant multiplication, and Uint256::reciprocal, the extended binary    *)
(* GCD.  A step is one turn of a loop.  Numbers are below Width, and what  *)
(* add, subtract and shiftLeft1 return beyond it is the carry; the         *)
(* module FieldInt has the words they are made of.                         *)
(***************************************************************************)
EXTENDS Integers

CONSTANTS
  Width,   \* how many numbers a Uint256 can be, 2^256 in the code
  Bits,    \* their bits, NUM_WORDS * 32
  Moduli   \* CurvePoint::ORDER; reciprocal is called with other moduli too

(* The width is that of the bits.  A modulus is what reciprocal asserts    *)
(* (Uint256.cpp:128), and adding one to it does not overflow: its callers  *)
(* pass the field's prime and the order of the curve, which are not the    *)
(* largest Uint256.                                                        *)
ASSUME ModuliAssumption ==
    /\ Width \in Nat /\ Bits \in Nat /\ Width = 2 ^ Bits
    /\ \A m \in Moduli : /\ m \in Nat /\ 1 < m /\ m + 1 < Width
                         /\ m % 2 = 1

VARIABLES
  call,      \* multiply, reciprocal; then product; inverse or aborted
  modulus,
  number,    \* x of multiplyModOrder, *this of reciprocal
  factor,    \* y of multiplyModOrder, by its bits
  i,         \* turns of the loop still to go, turns done
  z,         \* the product so far
  top,       \* history: the number the bits read so far make
  x, y, a, b \* the variables of reciprocal

product == <<z, top>>
gcd     == <<x, y, a, b>>
vars    == <<call, modulus, number, factor, i, z, top, x, y, a, b>>

(* A sum or difference of two numbers, as a Uint256 keeps it.              *)
Wrap(s) == IF s >= Width THEN s - Width ELSE IF s < 0 THEN s + Width ELSE s

-----------------------------------------------------------------------------
Init ==
    /\ call \in {"multiply", "reciprocal"}
    /\ modulus \in Moduli
    /\ number \in 0..modulus - 1
    /\ z = 0 /\ top = 0
    /\ x = modulus /\ y = number /\ a = 0 /\ b = 1
    /\ \/ call = "multiply"   /\ i = Bits /\ factor \in [0..Bits - 1 -> {0, 1}]
       \/ call = "reciprocal" /\ i = 0    /\ factor = [k \in 0..Bits - 1 |-> 0]

(***************************************************************************)
(* multiplyModOrder.  After a doubling and after an addition the modulus   *)
(* is taken off once, if there was a carry or if what is left is no        *)
(* residue.                                                                *)
(***************************************************************************)
(* Mutant of Reduced: the carry is forgotten.                              *)
ReducedUncarried(s) ==
    IF Wrap(s) >= modulus THEN Wrap(Wrap(s) - modulus) ELSE Wrap(s)

Reduced(s) ==
    IF s >= Width \/ Wrap(s) >= modulus
    THEN Wrap(Wrap(s) - modulus) ELSE Wrap(s)

(* Mutant of MultiplyTurn: the bits are read from the lowest on.           *)
MultiplyUpwards ==
    /\ call = "multiply" /\ i > 0
    /\ i' = i - 1
    /\ LET bit     == factor[Bits - i]
           doubled == Reduced(2 * z)
       IN  /\ z' = Reduced(doubled + bit * number)
           /\ top' = 2 * top + bit
    /\ UNCHANGED <<call, modulus, number, factor, gcd>>

MultiplyTurn ==
    /\ call = "multiply" /\ i > 0
    /\ i' = i - 1
    /\ LET bit     == factor[i - 1]
           doubled == Reduced(2 * z)
       IN  /\ z' = Reduced(doubled + bit * number)
           /\ top' = 2 * top + bit
    /\ UNCHANGED <<call, modulus, number, factor, gcd>>

MultiplyReturns ==
    /\ call = "multiply" /\ i = 0
    /\ call' = "product"
    /\ UNCHANGED <<modulus, number, factor, i, product, gcd>>

(***************************************************************************)
(* reciprocal.  A turn halves y if it is even, and then, if it is odd,     *)
(* subtracts the smaller of x and y from the larger and keeps the result   *)
(* as y.  a and b follow modulo the modulus.                               *)
(***************************************************************************)
(* Mutant of HalfModulus: without the one that is added first.             *)
HalfRoundedDown == modulus \div 2

HalfModulus == Wrap(modulus + 1) \div 2

HalvedY == IF y % 2 = 0 THEN y \div 2 ELSE y

HalvedB ==
    IF y % 2 = 0
    THEN IF b % 2 = 1 THEN Wrap(b \div 2 + HalfModulus) ELSE b \div 2
    ELSE b

(* Mutant of Minus: the borrow is not made good.                           *)
MinusUnborrowed(u, v) == Wrap(u - v)

Minus(u, v) ==
    IF u < v THEN Wrap(Wrap(u - v) + modulus) ELSE Wrap(u - v)

(* Mutant of Turns: one turn for each bit.                                 *)
TurnsOfOneNumber == Bits

Turns == 2 * Bits

ReciprocalTurn ==
    /\ call = "reciprocal" /\ i < Turns
    /\ i' = i + 1
    /\ \/ /\ HalvedY % 2 = 0
          /\ y' = HalvedY /\ b' = HalvedB
          /\ UNCHANGED <<x, a>>
       \/ /\ HalvedY % 2 = 1 /\ x <= HalvedY
          /\ y' = Wrap(HalvedY - x) /\ b' = Minus(HalvedB, a)
          /\ UNCHANGED <<x, a>>
       \/ /\ HalvedY % 2 = 1 /\ x > HalvedY
          /\ x' = HalvedY /\ a' = HalvedB
          /\ y' = Wrap(x - HalvedY) /\ b' = Minus(a, HalvedB)
    /\ UNCHANGED <<call, modulus, number, factor, product>>

(* The assertion stops the program where there is no inverse; otherwise    *)
(* the result replaces the number, unless that is zero.                    *)
ReciprocalReturns ==
    /\ call = "reciprocal" /\ i = Turns
    /\ call' = IF x = 1 \/ x = modulus THEN "inverse" ELSE "aborted"
    /\ UNCHANGED <<modulus, number, factor, i, product, gcd>>

Returned == IF number # 0 THEN a ELSE number

Next == \/ MultiplyTurn \/ MultiplyReturns
        \/ ReciprocalTurn \/ ReciprocalReturns

Spec == Init /\ [][Next]_vars

-----------------------------------------------------------------------------
(* Every number stays where the code's assertions and the fixed width need *)
(* it: residues below the modulus, x odd (Uint256.cpp:146), z below the    *)
(* modulus (Ecdsa.cpp:140).                                                *)
TypeOK ==
    /\ call \in {"multiply", "reciprocal", "product", "inverse", "aborted"}
    /\ modulus \in Moduli
    /\ number \in 0..modulus - 1
    /\ factor \in [0..Bits - 1 -> {0, 1}]
    /\ i \in 0..IF call \in {"multiply", "product"} THEN Bits ELSE 2 * Bits
    /\ z \in 0..modulus - 1
    /\ top \in Nat
    /\ x \in 1..modulus /\ x % 2 = 1
    /\ y \in 0..modulus
    /\ a \in 0..modulus - 1 /\ b \in 0..modulus - 1

(* After every turn of multiplyModOrder z is the product, modulo the       *)
(* order, of x and the bits of y that were read, although neither the      *)
(* doubled nor the added number fits in a Uint256 (Ecdsa.cpp:117-143).     *)
ProductSoFar == z = (number * top) % modulus

(* When it returns, it has read all of y.                                  *)
FactorValue[k \in 0..Bits] ==
    IF k = 0 THEN 0 ELSE FactorValue[k - 1] + factor[k - 1] * 2 ^ (k - 1)

WholeFactorRead == call = "product" => top = FactorValue[Bits]

(* The loop invariant the comment claims (Uint256.cpp:137):                *)
(* x = a*this mod modulus, and y = b*this mod modulus.                     *)
LoopInvariant ==
    /\ (a * number - x) % modulus = 0
    /\ (b * number - y) % modulus = 0

(* Two turns for each bit are enough: y has come down to zero, so x is the *)
(* divisor the assertion expects (Uint256.cpp:170), which fails for no     *)
(* number prime to the modulus; and the result is the inverse of the       *)
(* number, and zero for zero.                                              *)
Coprime(m, n) == \A d \in 2..m : ~(m % d = 0 /\ n % d = 0)

InverseFound ==
    /\ call \in {"inverse", "aborted"} => y = 0
    /\ call = "aborted" => number # 0 /\ ~Coprime(modulus, number)
    /\ call = "inverse" => IF number = 0 THEN Returned = 0
                           ELSE (Returned * number) % modulus = 1

=============================================================================
