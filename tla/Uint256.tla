------------------------------ MODULE Uint256 ------------------------------
(***************************************************************************)
(* Numbers of NUM_WORDS words, the lowest first, and the methods of        *)
(* Uint256.cpp on them.  A word has WordBits bits; the sums and            *)
(* differences of words are taken in 64 bits, so that the word that is     *)
(* kept and the carry that goes on are remainder and quotient by Base.     *)
(* The quotient of a negative difference is negative: a borrow.            *)
(***************************************************************************)
EXTENDS Integers

CONSTANTS
  NUM_WORDS,  \* 8 in the code
  WordBits    \* 32 in the code

ASSUME WordsAssumption == NUM_WORDS \in Nat \ {0} /\ WordBits \in Nat \ {0}

Base == 2 ^ WordBits

Word == 0..Base - 1
Words(n) == [0..n - 1 -> Word]
Uint == Words(NUM_WORDS)

(* What a one in word k counts.                                            *)
Place(k) == 2 ^ (WordBits * k)

(* The number that n parts of so many bits make, the lowest part first.    *)
Assembled(n, bits, part) ==
    LET v[k \in 0..n] ==
          IF k = 0 THEN 0 ELSE v[k - 1] + part[k - 1] * 2 ^ (bits * (k - 1))
    IN  v[n]

(* The number n words stand for, and the words of a number.                *)
ValueOf(n, w) == Assembled(n, WordBits, w)

Value(u) == ValueOf(NUM_WORDS, u)

ToWords(v) == [k \in 0..NUM_WORDS - 1 |-> (v \div Place(k)) % Base]

Bit(condition) == IF condition THEN 1 ELSE 0

(***************************************************************************)
(* The loop all methods share: at place k, term[k] and what was carried    *)
(* from the place below are added.                                         *)
(***************************************************************************)
CarryInto(n, term) ==
    LET carry[k \in 0..n] ==
          IF k = 0 THEN 0 ELSE (term[k - 1] + carry[k - 1]) \div Base
    IN  carry[n]

Ripple(n, term) == [k \in 0..n - 1 |-> (term[k] + CarryInto(k, term)) % Base]

(* add and its return value.  A carry can only be 0 or 1.                  *)
Added(u, v, enable) == [k \in 0..NUM_WORDS - 1 |-> u[k] + enable * v[k]]

Sum(u, v, enable) == Ripple(NUM_WORDS, Added(u, v, enable))

SumCarry(u, v, enable) == CarryInto(NUM_WORDS, Added(u, v, enable))

(* subtract and its return value.                                          *)
Difference(u, v, enable) == Ripple(NUM_WORDS, Added(u, v, -enable))

DifferenceBorrow(u, v, enable) == -CarryInto(NUM_WORDS, Added(u, v, -enable))

(* shiftLeft1 doubles each word; the highest bit of the word before, and   *)
(* of the last one, is the carry.                                          *)
Doubled(u) == Ripple(NUM_WORDS, Added(u, u, 1))

DoubledCarry(u) == CarryInto(NUM_WORDS, Added(u, u, 1))

(* Mutant of Halved: the bit of the word above is lost.                    *)
HalvedWordwise(u, enable) ==
    IF enable = 1 THEN [k \in 0..NUM_WORDS - 1 |-> u[k] \div 2] ELSE u

(* shiftRight1: the lowest bit of the word above comes in at the top.      *)
Halved(u, enable) ==
    LET above(k) == IF k < NUM_WORDS - 1 THEN u[k + 1] % 2 ELSE 0
    IN  IF enable = 1
        THEN [k \in 0..NUM_WORDS - 1 |-> u[k] \div 2 + above(k) * (Base \div 2)]
        ELSE u

(* replace; swap is two of them.                                           *)
Replaced(u, other, enable) == IF enable = 1 THEN other ELSE u

(* operator<: the highest words that differ decide.                        *)
Less(u, v) ==
    \E k \in 0..NUM_WORDS - 1 :
        u[k] < v[k] /\ \A j \in k + 1..NUM_WORDS - 1 : u[j] = v[j]

=============================================================================
