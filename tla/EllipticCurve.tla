--------------------------- MODULE EllipticCurve ---------------------------
(***************************************************************************)
(* The group of the points of a curve y^2 = x^3 + A x + B in affine        *)
(* coordinates, as the earlier implementation in Ramsch/EllipticCurve.cpp  *)
(* computes it: the reference for the projective one.  A point is a pair   *)
(* <<x, y>>, or the identity.                                              *)
(***************************************************************************)
EXTENDS Integers

CONSTANTS Prime, A, B

(* Curve::isZeroDiscriminant ends the program for other parameters.        *)
IsCurve ==
    /\ Prime \in Nat /\ 3 < Prime /\ A \in 0..Prime - 1 /\ B \in 0..Prime - 1
    /\ \A d \in 2..Prime - 1 : Prime % d # 0
    /\ (4 * A * A * A + 27 * B * B) % Prime # 0

(* The inverses modulo m of all numbers that have one, and 0 for 0.        *)
Inverses(m) ==
    [n \in 0..m - 1 |-> IF n = 0 THEN 0 ELSE CHOOSE r \in 0..m - 1 : (n * r) % m = 1]

InverseInField == Inverses(Prime)

Over(n, d) == (n * InverseInField[d % Prime]) % Prime

Identity == <<>>

Inverted(P) == IF P = Identity THEN P ELSE <<P[1], (-P[2]) % Prime>>

(* The third point on a line of that slope through P and Q, inverted.      *)
OnLine(P, Q, slope) ==
    LET x == (slope * slope - P[1] - Q[1]) % Prime
    IN  <<x, (slope * (P[1] - x) - P[2]) % Prime>>

Double(P) ==
    IF P = Inverted(P) THEN Identity
    ELSE OnLine(P, P, Over(3 * P[1] * P[1] + A, 2 * P[2]))

Plus(P, Q) ==
    CASE P = Inverted(Q) -> Identity
      [] P = Identity /\ Q # Identity -> Q
      [] Q = Identity /\ P # Identity -> P
      [] P = Q /\ P # Inverted(Q) -> Double(P)
      [] OTHER -> OnLine(P, Q, Over(Q[2] - P[2], Q[1] - P[1]))

(* Double and add, from the lowest bit of k on.                            *)
Scalar(P, k) ==
    LET bits == CHOOSE n \in 0..k : k < 2 ^ n
        doubled[n \in 0..bits] == IF n = 0 THEN P ELSE Double(doubled[n - 1])
        added[n \in 0..bits] ==
          IF n = 0 THEN Identity
          ELSE IF (k \div 2 ^ (n - 1)) % 2 = 1 THEN Plus(added[n - 1], doubled[n - 1])
          ELSE added[n - 1]
    IN  added[bits]

VerifyPoint(P) ==
    P # Identity => (P[2] * P[2]) % Prime = (P[1] * P[1] * P[1] + A * P[1] + B) % Prime

(* The points, and what makes them a group: EcdsaProofs!PointsAssociate.   *)
Points ==
    {Identity} \cup {P \in (0..Prime - 1) \X (0..Prime - 1) : VerifyPoint(P)}

IsAssociative ==
    \A P, Q, R \in Points : Plus(Plus(P, Q), R) = Plus(P, Plus(Q, R))

=============================================================================
