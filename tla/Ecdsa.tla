------------------------------- MODULE Ecdsa -------------------------------
(***************************************************************************)
(* The signature of one transaction: User::CreateSignature and             *)
(* Ecdsa::signWithHmacNonce make it, Block::CheckSignature and             *)
(* Ecdsa::verify check it; or a peer sends one.                            *)
(*                                                                         *)
(* multiplyModOrder and reciprocal compute products and inverses modulo    *)
(* the order (module ModOrder).  The HMAC of a key and a hash is some      *)
(* number, always the same one.                                            *)
(***************************************************************************)
EXTENDS CurvePoint

CONSTANTS
  ORDER, G,   \* the order of the base point, and the base point
  Keys,       \* private keys and addresses tried
  Hashes,     \* hashes tried
  MaxDepth    \* calls of CreateSignature inside one another, until the stack ends

Width == 2 ^ Bits

(* The order is below the prime and above its half, as the two constants   *)
(* of CurvePoint.cpp are.                                                  *)
ASSUME OrderAssumption ==
    /\ ORDER \in Nat /\ 2 < ORDER /\ ORDER < Prime /\ Prime < 2 * ORDER
    /\ Prime < Width
    /\ \A d \in 2..ORDER - 1 : ORDER % d # 0

ASSUME BaseAssumption ==
    /\ G \in Point /\ G.z = 1 /\ IsOnCurve(G)
    /\ Curve!Scalar(Affine(G), ORDER) = Curve!Identity

(* Every hash is less than twice the order, as 2^256 is.                   *)
ASSUME InputsAssumption ==
    /\ Keys \subseteq 0..Width - 1
    /\ \A h \in Hashes : h \in 0..Width - 1 /\ h < 2 * ORDER
    /\ MaxDepth \in Nat

VARIABLES
  key,      \* the private key, which is also the address of the sender
  hash,     \* the hash of the transaction
  hmac,     \* the HMAC of the key and the hash
  depth,    \* calls of CreateSignature that wait for an inner one
  phase,    \* creating, created, arrived, checking, checked, aborted, overflow
  r, s,     \* the signature
  sum,      \* the point verify computes, before it is normalized
  verdict,  \* what CheckSignature returns
  byUser    \* history: whether CreateSignature made the signature

vars == <<key, hash, hmac, depth, phase, r, s, sum, verdict, byUser>>

InverseOfOrder == Curve!Inverses(ORDER)

Wrap(n) == n % Width

(* Mutant of Reduced: the order itself is left as it is.                   *)
ReducedAbove(n) ==
    IF n >= Width \/ Wrap(n) > ORDER THEN Wrap(Wrap(n) - ORDER) ELSE n

(* A sum that is reduced once, if there was a carry or it is too large.    *)
Reduced(n) ==
    IF n >= Width \/ Wrap(n) >= ORDER THEN Wrap(Wrap(n) - ORDER) ELSE n

(* privateExponentToPublicPoint and the x coordinate modulo the order.     *)
PublicPoint(exponent) == Normalize(Multiply(G, exponent))

(* Mutant of XModOrder: the coordinate is taken as it is.                  *)
XUnreduced(p) == p.x

XModOrder(p) == IF p.x >= ORDER THEN p.x - ORDER ELSE p.x

-----------------------------------------------------------------------------
InRange(n) == 0 < n /\ n < ORDER

(* Either a user signs, whose key has the range that                       *)
(* User::AssignPrivatePublicKey asserts, or a peer sends any address and   *)
(* any two numbers.                                                        *)
Init ==
    /\ key \in Keys /\ hash \in Hashes
    /\ depth = 0 /\ sum = ZERO /\ verdict = FALSE
    /\ \/ /\ phase = "creating" /\ byUser = TRUE /\ InRange(key)
          /\ hmac \in 0..Width - 1 /\ r = 0 /\ s = 0
       \/ /\ phase = "arrived" /\ byUser = FALSE
          /\ hmac = 0 /\ r \in 0..Width - 1 /\ s \in 0..Width - 1

(***************************************************************************)
(* Ecdsa::sign, with the HMAC as its nonce.                                *)
(***************************************************************************)
NonceInRange == hmac # 0 /\ hmac < ORDER

SignR == XModOrder(PublicPoint(hmac))

(* The sum of the hash and the product is reduced only once; the           *)
(* multiplication that follows asserts that it is a residue.               *)
HashSum == Reduced(((SignR * key) % ORDER) + hash)

SignS == (HashSum * InverseOfOrder[hmac]) % ORDER

LowS(n) == IF ORDER - n < n THEN ORDER - n ELSE n

SignAborts == NonceInRange /\ SignR # 0 /\ HashSum >= ORDER

SignSucceeds == /\ NonceInRange /\ SignR # 0
                /\ HashSum < ORDER /\ SignS # 0

(* CreateSignature calls itself if sign fails, drops what the inner call   *)
(* returns, and goes on with its own r and s, which nobody has assigned.   *)
CreateSignature ==
    /\ phase = "creating" /\ SignSucceeds
    /\ phase' = "created"
    /\ r' = IF depth = 0 THEN SignR ELSE 0
    /\ s' = IF depth = 0 THEN LowS(SignS) ELSE 0
    /\ UNCHANGED <<key, hash, hmac, depth, sum, verdict, byUser>>

(* Mutant of CreateAgain: the inner call draws another nonce.              *)
CreateWithOtherNonce ==
    /\ phase = "creating" /\ ~SignSucceeds /\ ~SignAborts
    /\ IF depth < MaxDepth
       THEN depth' = depth + 1 /\ hmac' \in 0..Width - 1 /\ UNCHANGED phase
       ELSE phase' = "overflow" /\ UNCHANGED <<depth, hmac>>
    /\ UNCHANGED <<key, hash, r, s, sum, verdict, byUser>>

CreateAgain ==
    /\ phase = "creating" /\ ~SignSucceeds /\ ~SignAborts
    /\ IF depth < MaxDepth
       THEN depth' = depth + 1 /\ UNCHANGED phase
       ELSE phase' = "overflow" /\ UNCHANGED depth
    /\ UNCHANGED <<key, hash, hmac, r, s, sum, verdict, byUser>>

CreateAborts ==
    /\ phase = "creating" /\ SignAborts
    /\ phase' = "aborted"
    /\ UNCHANGED <<key, hash, hmac, depth, r, s, sum, verdict, byUser>>

(***************************************************************************)
(* Block::CheckSignature: Ecdsa::verify with the public point of the       *)
(* sender's address.                                                       *)
(***************************************************************************)
PublicKey == PublicPoint(key)

KeyIsUsable ==
    /\ ~IsZero(PublicKey) /\ PublicKey.z = 1 /\ IsOnCurve(PublicKey)
    /\ IsZero(Multiply(PublicKey, ORDER))

(* Mutant of FirstFactor: the hash is taken as it is.                      *)
FirstUnscaled == hash % ORDER

FirstFactor  == (InverseOfOrder[s] * hash) % ORDER
SecondFactor == (InverseOfOrder[s] * r) % ORDER

(* privateExponentToPublicPoint asserts the range of the address.          *)
CheckAborts ==
    /\ phase \in {"created", "arrived"} /\ ~InRange(key)
    /\ phase' = "aborted"
    /\ UNCHANGED <<key, hash, hmac, depth, r, s, sum, verdict, byUser>>

CheckRefuses ==
    /\ phase \in {"created", "arrived"} /\ InRange(key)
    /\ ~(InRange(r) /\ InRange(s) /\ KeyIsUsable)
    /\ phase' = "checked" /\ verdict' = FALSE
    /\ UNCHANGED <<key, hash, hmac, depth, r, s, sum, byUser>>

CheckComputes ==
    /\ phase \in {"created", "arrived"} /\ InRange(key)
    /\ InRange(r) /\ InRange(s) /\ KeyIsUsable
    /\ phase' = "checking"
    /\ sum' = Add(Multiply(G, FirstFactor), Multiply(PublicKey, SecondFactor))
    /\ UNCHANGED <<key, hash, hmac, depth, r, s, verdict, byUser>>

CheckCompares ==
    /\ phase = "checking"
    /\ phase' = "checked"
    /\ verdict' = (~IsZero(Normalize(sum)) /\ r = XModOrder(Normalize(sum)))
    /\ UNCHANGED <<key, hash, hmac, depth, r, s, sum, byUser>>

Next == \/ CreateSignature \/ CreateAgain \/ CreateAborts
        \/ CheckAborts \/ CheckRefuses \/ CheckComputes \/ CheckCompares

Spec == Init /\ [][Next]_vars

-----------------------------------------------------------------------------
(* Numbers have their width, points are points, and what a user creates    *)
(* has an r and an s below the order (Ecdsa.cpp:35).                       *)
TypeOK ==
    /\ key \in Keys /\ hash \in Hashes /\ hmac \in 0..Width - 1
    /\ depth \in 0..MaxDepth
    /\ phase \in {"creating", "created", "arrived", "checking", "checked",
                  "aborted", "overflow"}
    /\ r \in 0..Width - 1 /\ s \in 0..Width - 1
    /\ sum \in Point /\ verdict \in BOOLEAN /\ byUser \in BOOLEAN
    /\ byUser /\ phase \in {"created", "checking", "checked"} =>
          r < ORDER /\ s < ORDER

(* What a user creates, CheckSignature accepts (Tests.cpp:186), whatever   *)
(* the key, the hash and the nonce, and s is the lower of the two that     *)
(* would do (Ecdsa.cpp:51).  That depends on the retry of CreateSignature  *)
(* never coming back: its caller would go on with zeroes.                  *)
CreatedVerifies ==
    byUser =>
        /\ phase = "checked" => verdict
        /\ phase \in {"created", "checking", "checked"} => 2 * s < ORDER

(* verify accepts exactly the solutions of the signature equation          *)
(* s k = hash + r key modulo the order, where r is the x coordinate of k G *)
(* by the affine group law.                                                *)
IsSignature ==
    /\ InRange(s)
    /\ \E k \in 1..ORDER - 1 :
          /\ (s * k - hash - r * key) % ORDER = 0
          /\ r # 0 /\ r = Curve!Scalar(Affine(G), k)[1] % ORDER

AcceptsExactlySignatures == phase = "checked" => (verdict <=> IsSignature)

(* The projective formulas, the windows of multiply and all the special    *)
(* cases of add agree with the affine reference, and normalize brings      *)
(* every representative to the one with z = 1 (CurvePoint.hpp).            *)
PointsAgree ==
    phase = "checking" =>
        LET expected == Curve!Plus(Curve!Scalar(Affine(G), FirstFactor),
                                   Curve!Scalar(Affine(PublicKey), SecondFactor))
        IN  /\ Affine(sum) = expected
            /\ IF expected = Curve!Identity THEN Normalize(sum) = ZERO
               ELSE Normalize(sum) = [x |-> expected[1], y |-> expected[2], z |-> 1]

(* The assertion in multiplyModOrder (Ecdsa.cpp:129) can only fail for a   *)
(* hash that is no residue, which one in 2^128 is; nothing else ends the   *)
(* process while a user's signature is made or checked.                    *)
AbortsBeyondOrder == byUser /\ phase = "aborted" => hash >= ORDER

=============================================================================
