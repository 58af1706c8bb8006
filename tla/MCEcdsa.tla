------------------------------ MODULE MCEcdsa ------------------------------
(***************************************************************************)
(* y^2 = x^3 + B over the integers modulo 43, a group of 31 points.  Both  *)
(* primes are below 64 and more than its half, as secp256k1's are below    *)
(* 2^256, so all the carries and conditional subtractions happen.  All     *)
(* nonces, all pairs r and s, and the hashes and keys at the edges.  A     *)
(* number is taken in three windows of two bits.  B is 18 and not 7,       *)
(* because then a point has the order as its x coordinate and r can be     *)
(* zero.                                                                   *)
(***************************************************************************)
EXTENDS Ecdsa

EdgeKeys   == {0, 1, 11, 30, 31}
EdgeHashes == {0, 1, 19, 30, 31, 45, 61}
BasePoint  == [x |-> 5, y |-> 10, z |-> 1]

=============================================================================
