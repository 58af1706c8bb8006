------------------------------ MODULE HexText ------------------------------
(***************************************************************************)
(* Numbers and hashes as bytes and as hexadecimal text: the conversions of *)
(* Uint256.cpp and Sha256Hash.cpp.  A text is the sequence of the values   *)
(* of its digits, the first one first.  The loops that set bits with |=    *)
(* are the sums of what they set.                                          *)
(***************************************************************************)
EXTENDS Uint256

CONSTANTS
  WORD_BYTES,  \* bytes of a word, 4 in the code
  DigitBits    \* bits of a digit, 4; a byte has two digits

Digit      == 2 ^ DigitBits
ByteBits   == 2 * DigitBits
ByteValues == 2 ^ ByteBits
HASH_LEN   == NUM_WORDS * WORD_BYTES
PerWord    == 2 * WORD_BYTES

(* The bytes of a word hold it.                                            *)
ASSUME TextAssumption ==
    /\ WORD_BYTES \in Nat \ {0} /\ DigitBits \in Nat \ {0}
    /\ WordBits <= ByteBits * WORD_BYTES

Numbers == [0..NUM_WORDS - 1 -> 0..2 ^ (ByteBits * WORD_BYTES) - 1]
Hashes  == [0..HASH_LEN - 1 -> 0..ByteValues - 1]
Texts   == [1..2 * HASH_LEN -> 0..Digit - 1]

(* The digits of a byte: 1 is the high one.                                *)
Nibble(byte, high) == IF high = 1 THEN byte \div Digit ELSE byte % Digit

(* Mutant of storeBigUint32: the lowest byte first.                        *)
storeLittleUint32(x) ==
    [k \in 0..WORD_BYTES - 1 |-> (x \div 2 ^ (ByteBits * k)) % ByteValues]

storeBigUint32(x) ==
    [k \in 0..WORD_BYTES - 1 |->
        (x \div 2 ^ (ByteBits * (WORD_BYTES - 1 - k))) % ByteValues]

(* Every digit is put before the ones that are there, the words from the   *)
(* lowest on.                                                              *)
Uint256ToVec(u) ==
    [p \in 1..2 * HASH_LEN |->
        LET arr == storeBigUint32(u[NUM_WORDS - 1 - (p - 1) \div PerWord])
        IN  Nibble(arr[((p - 1) % PerWord) \div 2], p % 2)]

(* The loops that shift each digit, or byte, of a word to its place.       *)
NumberOfText(str) ==
    [k \in 0..NUM_WORDS - 1 |->
        Assembled(PerWord, DigitBits,
            [j \in 0..PerWord - 1 |-> str[2 * HASH_LEN - (k * PerWord + j)]])]

NumberOfBytes(b) ==
    [k \in 0..NUM_WORDS - 1 |->
        Assembled(WORD_BYTES, ByteBits,
            [j \in 0..WORD_BYTES - 1 |-> b[HASH_LEN - 1 - (k * WORD_BYTES + j)]])]

getBigEndianBytes(u) ==
    [m \in 0..HASH_LEN - 1 |->
        storeBigUint32(u[NUM_WORDS - 1 - m \div WORD_BYTES])[m % WORD_BYTES]]

(* The last byte of a hash comes first in its text.                        *)
Sha256HashToVec(h) ==
    [p \in 1..2 * HASH_LEN |->
        Nibble(h[HASH_LEN - 1 - (p - 1) \div 2], p % 2)]

HashOfText(str) ==
    [k \in 0..HASH_LEN - 1 |->
        str[2 * HASH_LEN - 2 * k] + Digit * str[2 * HASH_LEN - (2 * k + 1)]]

(* What is printed, or stored in bytes, is read back.                      *)
ReadsBack(u) ==
    /\ NumberOfText(Uint256ToVec(u)) = u
    /\ NumberOfBytes(getBigEndianBytes(u)) = u

(* All numbers, hashes and texts, and the two orders of bytes.             *)
ConversionsAgree ==
    /\ \A u \in Numbers : ReadsBack(u)
    /\ \A h \in Hashes :
          LET Reversed == [k \in 0..HASH_LEN - 1 |-> h[HASH_LEN - 1 - k]]
          IN  /\ HashOfText(Sha256HashToVec(h)) = h
              /\ Sha256HashToVec(h) = Uint256ToVec(NumberOfBytes(Reversed))
    /\ \A str \in Texts :
          /\ Uint256ToVec(NumberOfText(str)) = str
          /\ Sha256HashToVec(HashOfText(str)) = str
=============================================================================
