------------------------------ MODULE FieldInt ------------------------------
(***************************************************************************)
(* A FieldInt and the methods called on it, word by word.  multiply and    *)
(* reciprocal take several steps: one for each row of the long             *)
(* multiplication, for each of the three parts of the Barrett reduction,   *)
(* and for each turn of the extended binary GCD.                           *)
(***************************************************************************)
EXTENDS HexText

CONSTANT Offset   \* MODULUS is Width - Base - Offset; 0x3D1 in the code

Width == Place(NUM_WORDS)
Prime == Width - Base - Offset
MODULUS == ToWords(Prime)
ZERO == ToWords(0)
ONE  == ToWords(1)

(* MODULUS is a prime, and so close below the largest number that it fits  *)
(* in once; the square of what is missing fits in too, which makes         *)
(* Width + Base + Offset the quotient that the Barrett reduction needs     *)
(* (FieldInt.cpp:70).                                                      *)
ASSUME OffsetAssumption ==
    /\ Offset \in Nat /\ Offset + 2 < Base
    /\ 1 < Prime /\ Width < 2 * Prime
    /\ \A d \in 2..Prime - 1 : Prime % d # 0
    /\ (Width * Width) \div Prime = Width + Base + Offset

VARIABLES
  value,     \* *this
  other,     \* the argument
  call,      \* the method under way, or none
  phase,     \* where multiply and reciprocal are
  i,         \* the counter of their loops
  product0, product1, product2,  \* the arrays of multiply
  gcd        \* the variables x, y, a, b of reciprocal

products == <<product0, product1, product2>>
vars     == <<value, other, call, phase, i, products, gcd>>

Methods == {"add", "subtract", "multiply2", "square", "multiply", "reciprocal",
            "replace", "keep"}

(* square multiplies a number by itself.                                   *)
Factor == IF call = "square" THEN value ELSE other

NoLocals ==
    /\ phase' = "start" /\ i' = 0
    /\ product0' = <<>> /\ product1' = <<>> /\ product2' = <<>>
    /\ gcd' = <<>>

-----------------------------------------------------------------------------
(* Mutants of Reduced: the modulus itself is left as it is; a carry out of *)
(* the highest word is overlooked.                                         *)
ReducedAbove(carry, u) ==
    Difference(u, MODULUS, Bit(carry # 0 \/ Less(MODULUS, u)))

ReducedUncarried(carry, u) == Difference(u, MODULUS, Bit(~Less(u, MODULUS)))

(* The conditional subtraction that ends the methods.                      *)
Reduced(carry, u) ==
    Difference(u, MODULUS, Bit(carry # 0 \/ ~Less(u, MODULUS)))

(* A FieldInt from any Uint256.                                            *)
Constructed(u) == Reduced(0, u)

Init ==
    /\ value \in {Constructed(u) : u \in Uint}
    /\ other \in {Constructed(u) : u \in Uint}
    /\ call = "none" /\ phase = "start" /\ i = 0
    /\ product0 = <<>> /\ product1 = <<>> /\ product2 = <<>>
    /\ gcd = <<>>

Call ==
    /\ call = "none"
    /\ call' \in Methods
    /\ UNCHANGED <<value, other, phase, i, products, gcd>>

Returns(method, result) ==
    /\ call = method
    /\ value' = result
    /\ call' = "none"
    /\ NoLocals
    /\ UNCHANGED other

Add == Returns("add", Reduced(SumCarry(value, other, 1), Sum(value, other, 1)))

Subtract ==
    Returns("subtract", Sum(Difference(value, other, 1), MODULUS,
                            DifferenceBorrow(value, other, 1)))

Multiply2 == Returns("multiply2", Reduced(DoubledCarry(value), Doubled(value)))

Replace == \/ Returns("replace", Replaced(value, other, 1))
           \/ Returns("keep", Replaced(value, other, 0))

-----------------------------------------------------------------------------
(* multiply: the product, one row of the long multiplication after the     *)
(* other.                                                                  *)
StartsToMultiply ==
    /\ call \in {"square", "multiply"} /\ phase = "start"
    /\ phase' = "rows"
    /\ product0' = [k \in 0..2 * NUM_WORDS - 1 |-> 0]
    /\ UNCHANGED <<value, other, call, i, product1, product2, gcd>>

RowTerm(p, r) == [j \in 0..NUM_WORDS - 1 |-> value[r] * Factor[j] + p[r + j]]

(* Mutant of RowAdded: the carry of a row is dropped.                      *)
RowWithoutCarry(p, r) ==
    LET row == Ripple(NUM_WORDS, RowTerm(p, r))
    IN  [k \in 0..2 * NUM_WORDS - 1 |->
           IF k \in r..r + NUM_WORDS - 1 THEN row[k - r] ELSE p[k]]

RowAdded(p, r) ==
    LET row == Ripple(NUM_WORDS, RowTerm(p, r))
    IN  [k \in 0..2 * NUM_WORDS - 1 |->
           IF k \in r..r + NUM_WORDS - 1 THEN row[k - r]
           ELSE IF k = r + NUM_WORDS THEN CarryInto(NUM_WORDS, RowTerm(p, r)) ELSE p[k]]

AddsRow ==
    /\ phase = "rows" /\ i < NUM_WORDS
    /\ product0' = RowAdded(product0, i)
    /\ i' = i + 1
    /\ UNCHANGED <<value, other, call, phase, product1, product2, gcd>>

(* The Barrett reduction.  A word of an array that has n of them, and zero *)
(* beyond its ends.                                                        *)
At(w, n, k) == IF k \in 0..n - 1 THEN w[k] ELSE 0

(* product1 is product0 times the quotient Width + Base + Offset.          *)
EstimateTerm(p) ==
    LET n == 2 * NUM_WORDS
    IN  [k \in 0..3 * NUM_WORDS - 1 |->
           At(p, n, k) * Offset + At(p, n, k - 1) + At(p, n, k - NUM_WORDS)]

Estimates ==
    /\ phase = "rows" /\ i = NUM_WORDS
    /\ product1' = Ripple(3 * NUM_WORDS, EstimateTerm(product0))
    /\ phase' = "estimated"
    /\ UNCHANGED <<value, other, call, i, product0, product2, gcd>>

(* Mutant of Shifted: by one word too few.                                 *)
ShiftedShort(p) == [k \in 0..NUM_WORDS - 1 |-> p[2 * NUM_WORDS - 1 + k]]

Shifted(p) == [k \in 0..NUM_WORDS - 1 |-> p[2 * NUM_WORDS + k]]

(* product2 is the modulus times what is left of product1 in its highest   *)
(* words.                                                                  *)
MultipleTerm(q) ==
    LET n == NUM_WORDS
    IN  [k \in 0..2 * n - 1 |->
           At(q, n, k - n) - At(q, n, k) * Offset - At(q, n, k - 1)]

TakesMultiple ==
    /\ phase = "estimated"
    /\ product2' = Ripple(2 * NUM_WORDS, MultipleTerm(Shifted(product1)))
    /\ phase' = "taken"
    /\ UNCHANGED <<value, other, call, i, product0, product1, gcd>>

(* product0 - product2, in one word more than a number has, is reduced     *)
(* once more.                                                              *)
RemainderTerm == [k \in 0..NUM_WORDS |-> product0[k] - product2[k]]

Remainder == Ripple(NUM_WORDS + 1, RemainderTerm)

Multiply ==
    /\ phase = "taken"
    /\ \E method \in {"square", "multiply"} :
          Returns(method, Reduced(Remainder[NUM_WORDS], Remainder))

-----------------------------------------------------------------------------
(* reciprocal.                                                             *)
StartsToInvert ==
    /\ call = "reciprocal" /\ phase = "start"
    /\ phase' = "turns"
    /\ gcd' = [x |-> MODULUS, y |-> value, a |-> ZERO, b |-> ONE]
    /\ UNCHANGED <<value, other, call, i, products>>

HalfModulus == Halved(Sum(MODULUS, ONE, 1), 1)

Turns == NUM_WORDS * WordBits * 2

Turn ==
    /\ phase = "turns" /\ i < Turns
    /\ LET yEven  == 1 - (gcd.y[0] % 2)
           bOdd   == gcd.b[0] % 2
           y      == Halved(gcd.y, yEven)
           b      == Sum(Halved(gcd.b, yEven), HalfModulus, yEven * bOdd)
           enable == y[0] % 2
           doswap == enable * Bit(Less(y, gcd.x))
           x2     == Replaced(gcd.x, y, doswap)
           y2     == Replaced(y, gcd.x, doswap)
           a2     == Replaced(gcd.a, b, doswap)
           b2     == Replaced(b, gcd.a, doswap)
       IN  gcd' = [ x |-> x2, y |-> Difference(y2, x2, enable), a |-> a2,
                    b |-> Sum(Difference(b2, a2, enable), MODULUS,
                              DifferenceBorrow(b2, a2, enable)) ]
    /\ i' = i + 1
    /\ UNCHANGED <<value, other, call, phase, products>>

(* What reciprocal asserts before it returns.                              *)
IsUnit == gcd.x \in {ONE, MODULUS}

Reciprocal ==
    /\ phase = "turns" /\ i = Turns /\ IsUnit
    /\ Returns("reciprocal", Replaced(value, gcd.a, Bit(value # ZERO)))

-----------------------------------------------------------------------------
Next == \/ Call \/ Add \/ Subtract \/ Multiply2 \/ Replace
        \/ StartsToMultiply \/ AddsRow \/ Estimates \/ TakesMultiple \/ Multiply
        \/ StartsToInvert \/ Turn \/ Reciprocal

Spec == Init /\ [][Next]_vars

-----------------------------------------------------------------------------
(* A FieldInt is below the modulus between any two calls, as constructor   *)
(* and callers assert (FieldInt.cpp:24, Uint256.cpp:128), and the locals   *)
(* of the loops are words.                                                 *)
TypeOK ==
    /\ value \in Uint /\ Less(value, MODULUS)
    /\ other \in Uint /\ Less(other, MODULUS)
    /\ call \in Methods \cup {"none"}
    /\ i \in 0..Turns
    /\ phase \in {"rows", "estimated", "taken"} => product0 \in Words(2 * NUM_WORDS)
    /\ phase \in {"estimated", "taken"} => product1 \in Words(3 * NUM_WORDS)
    /\ phase = "taken" => product2 \in Words(2 * NUM_WORDS)
    /\ phase = "turns" => gcd \in [x : Uint, y : Uint, a : Uint, b : Uint]

(* After each row of multiply (FieldInt.cpp:58-67) product0 is the factor  *)
(* times the words of the number that were read.                           *)
RowsAddUp ==
    phase = "rows" =>
        ValueOf(2 * NUM_WORDS, product0) = ValueOf(i, value) * Value(Factor)

(* The claims in the comments of the reduction (FieldInt.cpp:70, 93, 116): *)
(* neither product overflows its array, and the estimate is so good that   *)
(* what is left fits in one bit more than a number has, and one            *)
(* subtraction of the modulus is enough.                                   *)
BarrettEstimate ==
    LET p0 == ValueOf(2 * NUM_WORDS, product0)
        p1 == ValueOf(3 * NUM_WORDS, product1)
        p2 == ValueOf(2 * NUM_WORDS, product2)
    IN  /\ phase = "estimated" => p1 = p0 * (Width + Base + Offset)
        /\ phase = "taken" =>
              /\ p2 = (p1 \div (Width * Width)) * Prime
              /\ p0 - p2 \in 0..2 * Prime - 1
              /\ Value(Remainder) + Remainder[NUM_WORDS] * Width = p0 - p2

(* The carries of multiply stay where its comment and its assertions want  *)
(* them (FieldInt.cpp:62, 87, 89, 111, 113, 123): a word times a word and  *)
(* what is added is no more than two words; the carries and borrows of the *)
(* reduction are 0x3D3 at most, and none is left at the end; what is       *)
(* borrowed for the remainder is one.                                      *)
CarriesFit ==
    LET row      == RowTerm(product0, i)
        estimate == EstimateTerm(product0)
        multiple == MultipleTerm(Shifted(product1))
    IN  /\ phase = "rows" /\ i < NUM_WORDS =>
              \A k \in 0..NUM_WORDS - 1 :
                  row[k] + CarryInto(k, row) \in 0..Base * Base - 1
        /\ phase = "rows" /\ i = NUM_WORDS =>
              /\ \A k \in 0..3 * NUM_WORDS : CarryInto(k, estimate) \in 0..Offset + 2
              /\ CarryInto(3 * NUM_WORDS, estimate) = 0
        /\ phase = "estimated" =>
              /\ \A k \in 0..2 * NUM_WORDS : -CarryInto(k, multiple) \in 0..Offset + 2
              /\ CarryInto(2 * NUM_WORDS, multiple) = 0
        /\ phase = "taken" =>
              \A k \in 0..NUM_WORDS + 1 : -CarryInto(k, RemainderTerm) \in {0, 1}

(* Nor does Uint256::reciprocal run into its assertions                    *)
(* (Uint256.cpp:146, 170).                                                 *)
AssertionsHold ==
    /\ CarriesFit
    /\ phase = "turns" => gcd.x[0] % 2 = 1
    /\ phase = "turns" /\ i = Turns => IsUnit

(* A number and a hash are what their text and their bytes say, what the   *)
(* methods leave in a FieldInt, too; and by the convention of              *)
(* Sha256Hash.hpp:8-18 a hash is printed with its bytes in the reverse of  *)
(* the order in which it counts as a number (Ecdsa.cpp:38, 96).            *)
TextAgrees == ReadsBack(value) /\ ConversionsAgree

(* The methods compute what their names say, modulo the prime.             *)
Field == INSTANCE PrimeField WITH number <- Value(value), other <- Value(other)

ImplementsField == Field!Spec

=============================================================================
