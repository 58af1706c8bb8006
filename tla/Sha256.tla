------------------------------- MODULE Sha256 -------------------------------
(***************************************************************************)
(* The stateful hasher of Sha256.cpp: the block buffer, the loop of append *)
(* and the padding of getHash.  A step is one turn of a loop.              *)
(*                                                                         *)
(* compress is a fixed function of the state and the 64 bytes it is given; *)
(* what the hash depends on is the text that was compressed, so the state  *)
(* is represented by that text.                                            *)
(***************************************************************************)
EXTENDS Integers, Sequences, SequencesExt

CONSTANTS
  BLOCK_LEN,   \* bytes in a block, 64 in the code
  LENGTH_LEN,  \* bytes of the length field, 8 in the code
  Chunks,      \* arguments of append, a bound of the model
  MaxLength,   \* bytes in a message, a bound of the model
  Garbage      \* what an uninitialised buffer may hold, functions on 1..BLOCK_LEN

ASSUME LengthsAssumption ==
    /\ BLOCK_LEN \in Nat /\ LENGTH_LEN \in Nat \ {0}
    /\ LENGTH_LEN < BLOCK_LEN

Byte == 0..255

ASSUME ChunksAssumption == Chunks \subseteq Seq(Byte)

ASSUME GarbageAssumption == Garbage \subseteq [1..BLOCK_LEN -> Byte]

VARIABLES
  compressed,  \* the bytes that went through compress, in order: the state
  buffer,      \* the block being filled
  bufferLen,   \* how many bytes of it are filled
  length,      \* bytes appended, as the object counts them
  phase,       \* open, or inside append, or where getHash is
  bytes,       \* the argument of the append call under way
  i,           \* the counter of the loop under way
  bitLength,   \* the local variable of getHash
  fed,         \* history: all bytes that went into the buffer
  message      \* history: the bytes of the caller's append calls

hasher == <<compressed, buffer, bufferLen, fed>>
vars   == <<compressed, buffer, bufferLen, length, phase, bytes, i, bitLength,
            fed, message>>

-----------------------------------------------------------------------------
Init ==
    /\ compressed = <<>> /\ fed = <<>> /\ message = <<>> /\ bytes = <<>>
    /\ buffer \in Garbage
    /\ bufferLen = 0 /\ length = 0 /\ i = 0 /\ bitLength = 0
    /\ phase = "open"

(***************************************************************************)
(* The body of the loop of append: a byte goes into the buffer, a full     *)
(* buffer is compressed and counts as empty again.                         *)
(***************************************************************************)
(* Mutants of Push: a full buffer does not count as empty again; the       *)
(* buffer is compressed before the byte is stored.                         *)
PushUnreset(b) ==
    /\ buffer' = [buffer EXCEPT ![bufferLen + 1] = b]
    /\ fed' = Append(fed, b)
    /\ bufferLen' = bufferLen + 1
    /\ compressed' = IF bufferLen + 1 = BLOCK_LEN THEN compressed \o buffer' ELSE compressed

PushLate(b) ==
    /\ buffer' = [buffer EXCEPT ![bufferLen + 1] = b]
    /\ fed' = Append(fed, b)
    /\ \/ /\ bufferLen + 1 < BLOCK_LEN
          /\ bufferLen' = bufferLen + 1
          /\ UNCHANGED compressed
       \/ /\ bufferLen + 1 = BLOCK_LEN
          /\ bufferLen' = 0
          /\ compressed' = compressed \o buffer

Push(b) ==
    /\ buffer' = [buffer EXCEPT ![bufferLen + 1] = b]
    /\ fed' = Append(fed, b)
    /\ \/ /\ bufferLen + 1 # BLOCK_LEN
          /\ bufferLen' = bufferLen + 1
          /\ UNCHANGED compressed
       \/ /\ bufferLen + 1 = BLOCK_LEN
          /\ bufferLen' = 0
          /\ compressed' = compressed \o buffer'

AppendBegins(s) ==
    /\ phase = "open"
    /\ phase' = "append" /\ bytes' = s /\ i' = 0
    /\ message' = message \o s
    /\ UNCHANGED <<hasher, length, bitLength>>

AppendByte ==
    /\ phase = "append" /\ i < Len(bytes)
    /\ Push(bytes[i + 1])
    /\ i' = i + 1
    /\ UNCHANGED <<length, phase, bytes, bitLength, message>>

AppendEnds ==
    /\ phase = "append" /\ i = Len(bytes)
    /\ length' = length + Len(bytes)
    /\ phase' = "open" /\ bytes' = <<>> /\ i' = 0
    /\ UNCHANGED <<hasher, bitLength, message>>

(***************************************************************************)
(* getHash.  Its own appends are of one byte each, and count in length.    *)
(* The length field is as wide as LENGTH_LEN bytes.                        *)
(***************************************************************************)
BitsOf(n) == (n * 8) % 2 ^ (8 * LENGTH_LEN)

LengthByte(k) == (bitLength \div 2 ^ (8 * (LENGTH_LEN - 1 - k))) % 256

(* Mutant of GetHashBegins: the bits are counted after the mark.           *)
CountsTheMark ==
    /\ phase = "open"
    /\ bitLength' = BitsOf(length + 1)
    /\ Push(128)
    /\ length' = length + 1
    /\ phase' = "zeros"
    /\ UNCHANGED <<bytes, i, message>>

GetHashBegins ==
    /\ phase = "open"
    /\ bitLength' = BitsOf(length)
    /\ Push(128)
    /\ length' = length + 1
    /\ phase' = "zeros"
    /\ UNCHANGED <<bytes, i, message>>

(* Mutant of ZeroByte: the loop looks for room instead of the exact place. *)
ZeroWhileRoom ==
    /\ phase = "zeros" /\ bufferLen < BLOCK_LEN - LENGTH_LEN
    /\ Push(0)
    /\ length' = length + 1
    /\ UNCHANGED <<phase, bytes, i, bitLength, message>>

ZeroByte ==
    /\ phase = "zeros" /\ bufferLen # BLOCK_LEN - LENGTH_LEN
    /\ Push(0)
    /\ length' = length + 1
    /\ UNCHANGED <<phase, bytes, i, bitLength, message>>

ZerosEnd ==
    /\ phase = "zeros" /\ bufferLen = BLOCK_LEN - LENGTH_LEN
    /\ phase' = "length"
    /\ i' = 0
    /\ UNCHANGED <<hasher, length, bytes, bitLength, message>>

PutLength ==
    /\ phase = "length" /\ i < LENGTH_LEN
    /\ Push(LengthByte(i))
    /\ length' = length + 1
    /\ i' = i + 1
    /\ UNCHANGED <<phase, bytes, bitLength, message>>

GetHashReturns ==
    /\ phase = "length" /\ i = LENGTH_LEN
    /\ phase' = "hashed"
    /\ UNCHANGED <<hasher, length, bytes, i, bitLength, message>>

(* What goes on by itself once append or getHash has been called.          *)
Continue ==
    \/ AppendByte \/ AppendEnds
    \/ ZeroByte \/ ZerosEnd \/ PutLength \/ GetHashReturns

Next ==
    \/ \E s \in Chunks :
         Len(message) + Len(s) <= MaxLength /\ AppendBegins(s)
    \/ GetHashBegins
    \/ Continue

Spec == Init /\ [][Next]_vars

FairSpec == Spec /\ WF_vars(Continue)

-----------------------------------------------------------------------------
(* The buffer is never full between two bytes, so no byte is written       *)
(* beyond it; inside a loop the counter stays within its bounds.           *)
TypeOK ==
    /\ compressed \in Seq(Byte) /\ fed \in Seq(Byte) /\ message \in Seq(Byte)
    /\ bytes \in Seq(Byte)
    /\ buffer \in [1..BLOCK_LEN -> Byte]
    /\ bufferLen \in 0..BLOCK_LEN - 1
    /\ length \in Nat /\ bitLength \in Nat
    /\ phase \in {"open", "append", "zeros", "length", "hashed"}
    /\ phase = "append" => i \in 0..Len(bytes)
    /\ phase = "length" => i \in 0..LENGTH_LEN

(* What was compressed and what waits in the buffer is, in order and       *)
(* without a gap, what went in, however the calls of append cut it up;     *)
(* what was compressed is whole blocks.                                    *)
NothingLost ==
    /\ Len(fed) = Len(compressed) + bufferLen
    /\ \A k \in 1..Len(compressed) : fed[k] = compressed[k]
    /\ \A k \in 1..bufferLen : fed[Len(compressed) + k] = buffer[k]

WholeBlocks == \E n \in 0..Len(compressed) : Len(compressed) = n * BLOCK_LEN

Streamed == NothingLost /\ WholeBlocks

(* getHash hashes the message padded as the standard says: the mark, as    *)
(* few zeros as fill the last block, and the number of bits, whatever the  *)
(* buffer held at the start and wherever in a block the message ends.      *)
Field == SubSeq(compressed, Len(compressed) - LENGTH_LEN + 1, Len(compressed))

NumberOf(w) == FoldLeft(LAMBDA v, b : 256 * v + b, 0, w)

HashesPaddedMessage ==
    phase = "hashed" =>
        LET n    == Len(message)
            last == Len(compressed) - LENGTH_LEN
        IN  /\ bufferLen = 0
            /\ Len(compressed) % BLOCK_LEN = 0
            /\ last - BLOCK_LEN < n + 1 /\ n + 1 <= last
            /\ SubSeq(compressed, 1, n) = message
            /\ compressed[n + 1] = 128
            /\ \A k \in n + 2..last : compressed[k] = 0
            /\ NumberOf(Field) = (8 * n) % 2 ^ (8 * LENGTH_LEN)

(* The loop that looks for one exact fill of the buffer finds it: getHash  *)
(* returns, wherever in a block the mark ended up.                         *)
HashReturns == phase = "zeros" ~> phase = "hashed"

=============================================================================
