----------------------------- MODULE MCFieldInt -----------------------------
(***************************************************************************)
(* Three words of two bits: the prime is 59, of 64 numbers, and every pair *)
(* of field elements is tried.  Three words have a lowest, a highest and a *)
(* word between; with the offset 1 the carries of the Barrett reduction    *)
(* run over more than one place.                                           *)
(*                                                                         *)
(* For the texts a word has two bytes of two digits, of which a FieldInt   *)
(* here uses the lower; every order that could be reversed has two ends,   *)
(* and all numbers, hashes and texts of that shape are tried.              *)
(***************************************************************************)
EXTENDS FieldInt
=============================================================================
