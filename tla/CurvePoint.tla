----------------------------- MODULE CurvePoint -----------------------------
(***************************************************************************)
(* CurvePoint.cpp: points in projective coordinates and their methods, as  *)
(* functions from points to points.  The coordinates are field elements,   *)
(* on which the methods of FieldInt compute modulo the prime (module       *)
(* FieldInt).  The curve parameter A is zero: twice leaves it out.         *)
(***************************************************************************)
EXTENDS Integers

CONSTANTS
  Prime, B,    \* the curve
  Bits,        \* NUM_WORDS * 32
  tableBits    \* bits of a number that multiply takes at a time, 4 in the code

Curve == INSTANCE EllipticCurve WITH A <- 0

ASSUME CurveAssumption == Curve!IsCurve

ASSUME TableAssumption ==
    Bits \in Nat /\ tableBits \in Nat \ {0, 1} /\ Bits % tableBits = 0

Residue == 0..Prime - 1
Point == [x : Residue, y : Residue, z : Residue]

ZERO == [x |-> 0, y |-> 1, z |-> 0]

IsZero(p) == p.x = 0 /\ p.y # 0 /\ p.z = 0

(* The affine point a projective one stands for.                           *)
Affine(p) ==
    IF IsZero(p) THEN Curve!Identity
    ELSE <<Curve!Over(p.x, p.z), Curve!Over(p.y, p.z)>>

Mod(n) == n % Prime

Twice(p) ==
    LET u == Mod(2 * p.y * p.z)
        v == Mod(2 * Mod(u * p.x) * p.y)
        t == Mod(3 * p.x * p.x)
        w == Mod(t * t - 2 * v)
        uy == Mod(u * p.y)
    IN  IF IsZero(p) \/ p.y = 0 THEN ZERO
        ELSE [ x |-> Mod(u * w),
               y |-> Mod(t * (v - w) - 2 * uy * uy),
               z |-> Mod(Mod(u * u) * u) ]

(* The chord through two points with different x.                          *)
Chord(u0, u1, t0, t1, z) ==
    LET t  == Mod(t0 - t1)
        u  == Mod(u0 - u1)
        u2 == Mod(u * u)
        u3 == Mod(u2 * u)
        w  == Mod(Mod(t * t) * z - u2 * (u0 + u1))
    IN  [ x |-> Mod(u * w),
          y |-> Mod(t * Mod(u0 * u2 - w) - t0 * u3),
          z |-> Mod(u3 * z) ]

(* Mutant of Add: a point is not added to itself by doubling it.           *)
AddUndoubled(p, q) ==
    LET u0 == Mod(p.x * q.z)   u1 == Mod(q.x * p.z)
        t0 == Mod(p.y * q.z)   t1 == Mod(q.y * p.z)
    IN  IF IsZero(p) THEN q
        ELSE IF IsZero(q) THEN p
        ELSE IF u0 = u1 /\ t0 # t1 THEN ZERO
        ELSE Chord(u0, u1, t0, t1, Mod(p.z * q.z))

(* add computes all the cases and selects one.                             *)
Add(p, q) ==
    LET u0 == Mod(p.x * q.z)   u1 == Mod(q.x * p.z)
        t0 == Mod(p.y * q.z)   t1 == Mod(q.y * p.z)
    IN  IF IsZero(p) THEN q
        ELSE IF IsZero(q) THEN p
        ELSE IF u0 # u1 THEN Chord(u0, u1, t0, t1, Mod(p.z * q.z))
        ELSE IF t0 = t1 THEN Twice(p) ELSE ZERO

(* The doublings between two windows, and the table of multiples.          *)
TwiceRepeated(p, n) ==
    LET twice[k \in 0..n] == IF k = 0 THEN p ELSE Twice(twice[k - 1])
    IN  twice[n]

Table(p) ==
    LET table[k \in 0..2 ^ tableBits - 1] ==
          IF k = 0 THEN ZERO ELSE IF k = 1 THEN p
          ELSE IF k = 2 THEN Twice(p) ELSE Add(table[k - 1], p)
    IN  table

(* multiply: the number is taken in windows of tableBits, from the highest *)
(* on.  sum[k] is the point after k windows.                               *)
Multiply(p, n) ==
    LET window(k) == (n \div 2 ^ (Bits - k * tableBits)) % 2 ^ tableBits
        sum[k \in 0..Bits \div tableBits] ==
          IF k = 0 THEN ZERO
          ELSE Add(IF k = 1 THEN sum[0] ELSE TwiceRepeated(sum[k - 1], tableBits),
                   Table(p)[window(k)])
    IN  sum[Bits \div tableBits]

Normalize(p) ==
    IF p.z # 0
    THEN [x |-> Curve!Over(p.x, p.z), y |-> Curve!Over(p.y, p.z), z |-> 1]
    ELSE [x |-> IF p.x # 0 THEN 1 ELSE 0, y |-> IF p.y # 0 THEN 1 ELSE 0, z |-> 0]

IsOnCurve(p) == /\ Mod(p.y * p.y) = Mod(Mod(p.x * p.x) * p.x + B)
                /\ ~IsZero(p)

=============================================================================
