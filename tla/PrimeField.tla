----------------------------- MODULE PrimeField -----------------------------
(***************************************************************************)
(* What a FieldInt promises: a number below a prime on which the methods   *)
(* do what they are called for, modulo the prime.                          *)
(***************************************************************************)
EXTENDS Integers

CONSTANT Prime

VARIABLES
  number,   \* *this
  other,    \* the argument of the methods that take one
  call      \* the method under way, or none

Residue == 0..Prime - 1

Methods == {"add", "subtract", "multiply2", "square", "multiply", "reciprocal",
            "replace", "keep"}

Reciprocal(n) == IF n = 0 THEN 0 ELSE CHOOSE r \in Residue : (n * r) % Prime = 1

Result ==
    [ add        |-> (number + other) % Prime,
      subtract   |-> (number - other) % Prime,
      multiply2  |-> (2 * number) % Prime,
      square     |-> (number * number) % Prime,
      multiply   |-> (number * other) % Prime,
      reciprocal |-> Reciprocal(number),
      replace    |-> other,
      keep       |-> number ]

Init == number \in Residue /\ other \in Residue /\ call = "none"

Call ==
    /\ call = "none"
    /\ call' \in Methods
    /\ UNCHANGED <<number, other>>

Return ==
    /\ call # "none"
    /\ number' = Result[call]
    /\ call' = "none"
    /\ UNCHANGED other

Next == Call \/ Return

Spec == Init /\ [][Next]_<<number, other, call>>

=============================================================================
