------------------------------ MODULE MCSha256 ------------------------------
(***************************************************************************)
(* Blocks of 6 bytes with a length field of 2.  Chunks of 0, 1, 6 and 17   *)
(* bytes reach every position in a block, fill blocks exactly, and make    *)
(* messages of up to 33 bytes, whose number of bits needs both bytes of    *)
(* the field.  The bytes are values the padding uses too.                  *)
(***************************************************************************)
EXTENDS Sha256

Chunk6  == <<0, 128, 0, 0, 1, 0>>
Chunk17 == [k \in 1..17 |-> IF k % 5 = 0 THEN 128 ELSE 0]

SomeChunks  == {<<>>, <<128>>, Chunk6, Chunk17}
SomeGarbage == {[k \in 1..BLOCK_LEN |-> 128], [k \in 1..BLOCK_LEN |-> k % 2]}

=============================================================================
