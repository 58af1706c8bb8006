---------------------------- MODULE Sha256Proofs ----------------------------
(***************************************************************************)
(* Proofs about the hasher, for every block length, every length field     *)
(* that fits in a block, every content of the fresh buffer and every way   *)
(* to cut a message into calls of append.  What does not depend on it is   *)
(* proved for opaque bytes first.                                          *)
(***************************************************************************)
EXTENDS Sha256, Facts

(* The sequences of the hasher, and the buffer, whose writes stay inside.  *)
Shape ==
    /\ IsSequence(compressed) /\ IsSequence(fed) /\ IsSequence(buffer)
    /\ Len(buffer) = BLOCK_LEN
    /\ bufferLen \in 0..BLOCK_LEN - 1

(* How far the padding is, seen from the length field on.                  *)
Aligned ==
    /\ phase = "length" =>
          /\ i \in 0..LENGTH_LEN
          /\ bufferLen = IF i = LENGTH_LEN THEN 0 ELSE BLOCK_LEN - LENGTH_LEN + i
    /\ phase = "hashed" => bufferLen = 0

IInv == Shape /\ Streamed /\ Aligned

(***************************************************************************)
(* A byte that is pushed keeps the stream whole, and fills the buffer by   *)
(* one place, modulo its length (Sha256.cpp:21-28).                        *)
(***************************************************************************)
LEMMA PushKeeps ==
    ASSUME Shape, Streamed, NEW b, Push(b)
    PROVE  /\ Shape' /\ Streamed'
           /\ bufferLen' = IF bufferLen + 1 = BLOCK_LEN THEN 0 ELSE bufferLen + 1
<1> DEFINE c == Len(compressed)
<1> USE LengthsAssumption
<1>1. /\ bufferLen \in Nat /\ bufferLen + 1 \in 1..BLOCK_LEN
      /\ BLOCK_LEN \in Nat
  BY DEF Shape
<1>2. /\ IsSequence(buffer')
      /\ Len(buffer') = BLOCK_LEN
      /\ buffer'[bufferLen + 1] = b
      /\ \A j \in 1..BLOCK_LEN : j # bufferLen + 1 => buffer'[j] = buffer[j]
  <2>1. buffer' = [buffer EXCEPT ![bufferLen + 1] = b]
    BY DEF Push
  <2>2. IsSequence(buffer) /\ Len(buffer) = BLOCK_LEN
    BY DEF Shape
  <2>3. bufferLen + 1 \in 1..Len(buffer)
    BY <1>1, <2>2
  <2>4. IsSequence(buffer')
    BY <2>1, <2>2, <2>3, ExceptSequence
  <2>5. /\ Len(buffer') = Len(buffer)
        /\ buffer'[bufferLen + 1] = b
        /\ \A j \in 1..Len(buffer) : j # bufferLen + 1 => buffer'[j] = buffer[j]
    BY <2>1, <2>2, <2>3, ExceptSequence
  <2> QED BY <2>2, <2>4, <2>5
<1>3. /\ IsSequence(fed')
      /\ Len(fed') = Len(fed) + 1
      /\ \A k \in 1..Len(fed) : fed'[k] = fed[k]
      /\ fed'[Len(fed) + 1] = b
  BY AppendToSequence DEF Shape, Push
<1>4. c \in Nat /\ IsSequence(compressed)
  BY AppendToSequence DEF Shape
<1>5. /\ Len(fed) = c + bufferLen
      /\ \A k \in 1..c : fed[k] = compressed[k]
      /\ \A k \in 1..bufferLen : fed[c + k] = buffer[k]
  BY DEF Streamed, NothingLost
<1> HIDE DEF c
(* The bytes that had gone in are where they were; the new one is behind.  *)
<1>6. /\ \A k \in 1..c : fed'[k] = compressed[k]
      /\ \A k \in 1..bufferLen + 1 : fed'[c + k] = buffer'[k]
  <2>1. \A k \in 1..c : fed'[k] = compressed[k]
    BY <1>1, <1>3, <1>4, <1>5
  <2>2. ASSUME NEW k \in 1..bufferLen + 1 PROVE fed'[c + k] = buffer'[k]
    <3>1. CASE k = bufferLen + 1
      <4>1. c + k = Len(fed) + 1
        BY <1>1, <1>4, <1>5, <3>1
      <4> QED BY <1>2, <1>3, <3>1, <4>1
    <3>2. CASE k \in 1..bufferLen
      <4>1. c + k \in 1..Len(fed) /\ k \in 1..BLOCK_LEN /\ k # bufferLen + 1
        BY <1>1, <1>4, <1>5, <3>2
      <4> QED BY <1>2, <1>3, <1>5, <3>2, <4>1
    <3> QED BY <1>1, <3>1, <3>2
  <2> QED BY <2>1, <2>2
<1>7. CASE bufferLen + 1 # BLOCK_LEN
  <2>1. bufferLen' = bufferLen + 1 /\ compressed' = compressed
    BY <1>7 DEF Push
  <2>2. Shape'
    BY <1>1, <1>2, <1>3, <1>4, <1>7, <2>1 DEF Shape
  <2>3. Len(fed') = c + (bufferLen + 1)
    BY <1>1, <1>3, <1>4, <1>5
  <2>4. NothingLost'
    BY <1>6, <2>1, <2>3 DEF NothingLost, c
  <2>5. WholeBlocks'
    BY <2>1 DEF Streamed, WholeBlocks
  <2> QED BY <1>7, <2>1, <2>2, <2>4, <2>5 DEF Streamed
<1>8. CASE bufferLen + 1 = BLOCK_LEN
  <2>1. bufferLen' = 0 /\ compressed' = compressed \o buffer'
    BY <1>8 DEF Push
  <2>2. /\ IsSequence(compressed')
        /\ Len(compressed') = c + BLOCK_LEN
        /\ \A k \in 1..c : compressed'[k] = compressed[k]
        /\ \A k \in 1..BLOCK_LEN : compressed'[c + k] = buffer'[k]
    <3>1. IsSequence(compressed')
      BY <1>2, <1>4, <2>1, ConcatSequences
    <3>2. Len(compressed') = Len(compressed) + Len(buffer')
      BY <1>2, <1>4, <2>1, ConcatSequences
    <3>3. \A k \in 1..Len(compressed) : compressed'[k] = compressed[k]
      BY <1>2, <1>4, <2>1, ConcatSequences
    <3>4. \A k \in 1..Len(buffer') :
              compressed'[Len(compressed) + k] = buffer'[k]
      BY <1>2, <1>4, <2>1, ConcatSequences
    <3> QED BY <1>2, <3>1, <3>2, <3>3, <3>4 DEF c
  <2>3. Shape'
    BY <1>1, <1>2, <1>3, <2>1, <2>2 DEF Shape
  <2>4. WholeBlocks'
    <3>1. PICK n \in 0..c : c = n * BLOCK_LEN
      BY DEF Streamed, WholeBlocks, c
    <3>2. c + BLOCK_LEN = (n + 1) * BLOCK_LEN
      BY <1>1, <1>4, <3>1
    <3>3. n + 1 \in 0..c + BLOCK_LEN
      BY <1>1, <1>4
    <3> QED BY <2>2, <3>2, <3>3 DEF WholeBlocks
  <2>5. Len(fed') = Len(compressed') + bufferLen'
    BY <1>1, <1>3, <1>4, <1>5, <1>8, <2>1, <2>2
  <2>6. ASSUME NEW k \in 1..Len(compressed') PROVE fed'[k] = compressed'[k]
    <3>1. CASE k \in 1..c
      BY <1>6, <2>2, <3>1
    <3>2. CASE k \in c + 1..c + BLOCK_LEN
      <4>1. k - c \in 1..BLOCK_LEN /\ c + (k - c) = k
        BY <1>1, <1>4, <3>2
      <4>2. compressed'[c + (k - c)] = buffer'[k - c]
        BY <2>2, <4>1
      <4>3. fed'[c + (k - c)] = buffer'[k - c]
        BY <1>6, <1>8, <4>1
      <4> QED BY <4>1, <4>2, <4>3
    <3> QED BY <1>1, <1>4, <2>2, <3>1, <3>2
  <2>7. NothingLost'
    BY <2>1, <2>5, <2>6 DEF NothingLost
  <2> QED BY <1>8, <2>1, <2>3, <2>4, <2>7 DEF Streamed
<1> QED BY <1>7, <1>8

(* The state of the hasher and its history are left alone.                 *)
LEMMA HasherUnchanged ==
    ASSUME Shape, Streamed, UNCHANGED hasher
    PROVE  Shape' /\ Streamed'
BY DEF Shape, Streamed, NothingLost, WholeBlocks, hasher

(* IInv is an inductive invariant.                                         *)
LEMMA HasherInductive ==
    /\ Init => IInv
    /\ IInv /\ [Next]_vars => IInv'
<1> USE LengthsAssumption
<1>1. ASSUME Init PROVE IInv
  <2>1. IsSequence(<<>>) /\ Len(<<>>) = 0
    BY DEF IsSequence
  <2>2. buffer \in [1..BLOCK_LEN -> Byte]
    BY <1>1, GarbageAssumption DEF Init
  <2>3. buffer \in Seq(Byte) /\ Len(buffer) = BLOCK_LEN
    BY <2>2
  <2>4. Shape
    BY <1>1, <2>1, <2>3, OfItsElements DEF Init, Shape
  <2>5. NothingLost
    BY <1>1, <2>1 DEF Init, NothingLost
  <2>6. WholeBlocks
    <3>1. 0 = 0 * BLOCK_LEN /\ 0 \in 0..0
      OBVIOUS
    <3> QED BY <1>1, <2>1, <3>1 DEF Init, WholeBlocks
  <2>7. Aligned
    BY <1>1 DEF Init, Aligned
  <2> QED BY <2>4, <2>5, <2>6, <2>7 DEF IInv, Streamed
<1>2. ASSUME IInv, [Next]_vars PROVE IInv'
  <2> USE <1>2 DEF IInv
  <2>1. CASE UNCHANGED vars
    BY <2>1, HasherUnchanged DEF vars, hasher, Aligned
  <2>2. ASSUME NEW s, AppendBegins(s) PROVE IInv'
    BY <2>2, HasherUnchanged DEF AppendBegins, Aligned
  <2>3. CASE AppendByte
    BY <2>3, PushKeeps DEF AppendByte, Aligned
  <2>4. CASE AppendEnds
    BY <2>4, HasherUnchanged DEF AppendEnds, Aligned
  <2>5. CASE GetHashBegins
    BY <2>5, PushKeeps DEF GetHashBegins, Aligned
  <2>6. CASE ZeroByte
    BY <2>6, PushKeeps DEF ZeroByte, Aligned
  <2>7. CASE ZerosEnd
    BY <2>7, HasherUnchanged DEF ZerosEnd, hasher, Aligned
  <2>8. CASE PutLength
    <3>1. Shape' /\ Streamed'
          /\ bufferLen' = IF bufferLen + 1 = BLOCK_LEN THEN 0 ELSE bufferLen + 1
      BY <2>8, PushKeeps DEF PutLength
    <3>2. i \in 0..LENGTH_LEN - 1 /\ bufferLen = BLOCK_LEN - LENGTH_LEN + i
      BY <2>8 DEF PutLength, Aligned
    <3>3. Aligned'
      BY <2>8, <3>1, <3>2 DEF PutLength, Aligned
    <3> QED BY <3>1, <3>3
  <2>9. CASE GetHashReturns
    BY <2>9, HasherUnchanged DEF GetHashReturns, hasher, Aligned
  <2> QED BY <1>2, <2>1, <2>2, <2>3, <2>4, <2>5, <2>6, <2>7, <2>8, <2>9
          DEF Next, Continue
<1> QED BY <1>1, <1>2

(* However a message is cut into calls of append, what has been compressed *)
(* is whole blocks, and together with the filled part of the buffer it is  *)
(* what went in: no byte is lost, repeated or moved where blocks meet.     *)
THEOREM NoByteLost == Spec => []Streamed
<1>1. IInv => Streamed
  BY DEF IInv
<1> QED BY <1>1, HasherInductive, PTL DEF Spec

(* When getHash returns nothing waits in the buffer: the mark, the zeros   *)
(* and the length field fill the last block exactly, whatever the length   *)
(* of the message, and the hash is of everything that went in.             *)
THEOREM HashCoversAll ==
    Spec => [](phase = "hashed" => bufferLen = 0 /\ Len(compressed) = Len(fed))
<1>1. IInv => (phase = "hashed" => bufferLen = 0 /\ Len(compressed) = Len(fed))
  <2> SUFFICES ASSUME IInv, phase = "hashed"
               PROVE  bufferLen = 0 /\ Len(compressed) = Len(fed)
    OBVIOUS
  <2>1. bufferLen = 0 /\ Len(compressed) \in Nat
    BY AppendToSequence DEF IInv, Aligned, Shape
  <2> QED BY <2>1 DEF IInv, Streamed, NothingLost
<1> QED BY <1>1, HasherInductive, PTL DEF Spec

-----------------------------------------------------------------------------
(* Bytes.                                                                  *)

LEMMA LengthByteIsByte ==
    ASSUME bitLength \in Nat, NEW k \in 0..LENGTH_LEN - 1
    PROVE  LengthByte(k) \in Byte
<1>1. PICK m \in Nat \ {0} : m = 2 ^ (8 * (LENGTH_LEN - 1 - k))
  BY LengthsAssumption, PowersOfTwo, 8 * (LENGTH_LEN - 1 - k) \in Nat
<1>2. bitLength \div m \in Nat
  BY DividedTwice, 1 \in Nat \ {0}
<1> DEFINE q == bitLength \div m
<1>3. LengthByte(k) = q % 256
  BY <1>1 DEF LengthByte
<1> HIDE DEF q
<1> QED BY <1>2, <1>3 DEF Byte, q

LEMMA BitsOfIsNumber ==
    ASSUME NEW n \in Nat
    PROVE  BitsOf(n) \in Nat /\ BitsOf(n) < 2 ^ (8 * LENGTH_LEN)
<1>1. PICK m \in Nat \ {0} : m = 2 ^ (8 * LENGTH_LEN)
  BY LengthsAssumption, PowersOfTwo, 8 * LENGTH_LEN \in Nat
<1>2. (n * 8) % m \in 0..m - 1
  OBVIOUS
<1> QED BY <1>1, <1>2 DEF BitsOf

LEMMA PushIsTyped ==
    ASSUME TypeOK, NEW b \in Byte, Push(b)
    PROVE  /\ compressed' \in Seq(Byte) /\ fed' \in Seq(Byte)
           /\ buffer' \in [1..BLOCK_LEN -> Byte]
           /\ bufferLen' \in 0..BLOCK_LEN - 1
<1> USE LengthsAssumption
<1>1. buffer' \in [1..BLOCK_LEN -> Byte]
  BY DEF Push, TypeOK
<1>2. buffer' \in Seq(Byte)
  BY <1>1
<1>3. compressed \in Seq(Byte) /\ fed \in Seq(Byte) /\ bufferLen \in 0..BLOCK_LEN - 1
  BY DEF TypeOK
<1>4. compressed' = compressed \/ compressed' = compressed \o buffer'
  BY DEF Push
<1>5. compressed' \in Seq(Byte)
  <2>1. compressed \o buffer' \in Seq(Byte)
    BY <1>2, <1>3, ConcatProperties
  <2> QED BY <1>3, <1>4, <2>1
<1>6. fed' \in Seq(Byte) /\ bufferLen' \in 0..BLOCK_LEN - 1
  BY <1>3 DEF Push
<1> QED BY <1>1, <1>5, <1>6

LEMMA Typed ==
    /\ Init => TypeOK
    /\ TypeOK /\ [Next]_vars => TypeOK'
<1> USE LengthsAssumption
<1>1. ASSUME Init PROVE TypeOK
  <2>1. <<>> \in Seq(Byte)
    OBVIOUS
  <2> QED BY <1>1, <2>1, GarbageAssumption DEF Init, TypeOK
<1>2. ASSUME TypeOK, [Next]_vars PROVE TypeOK'
  <2> USE <1>2
  <2>1. CASE UNCHANGED vars
    BY <2>1 DEF vars, TypeOK
  <2>2. ASSUME NEW s \in Chunks, AppendBegins(s) PROVE TypeOK'
    <3>1. s \in Seq(Byte)
      BY ChunksAssumption
    <3>2. message' \in Seq(Byte) /\ bytes' \in Seq(Byte) /\ i' \in 0..Len(bytes')
      BY <2>2, <3>1 DEF AppendBegins, TypeOK
    <3> QED BY <2>2, <3>2 DEF AppendBegins, TypeOK, hasher
  <2>3. CASE AppendByte
    <3>1. i + 1 \in 1..Len(bytes) /\ i' \in 0..Len(bytes)
      BY <2>3 DEF AppendByte, TypeOK
    <3>2. bytes[i + 1] \in Byte
      BY <3>1 DEF TypeOK
    <3>3. Push(bytes[i + 1])
      BY <2>3 DEF AppendByte
    <3> QED BY <2>3, <3>1, <3>2, <3>3, PushIsTyped DEF AppendByte, TypeOK
  <2>4. CASE AppendEnds
    <3>1. length' \in Nat /\ bytes' \in Seq(Byte)
      BY <2>4 DEF AppendEnds, TypeOK
    <3> QED BY <2>4, <3>1 DEF AppendEnds, TypeOK, hasher
  <2>5. CASE GetHashBegins
    <3>1. bitLength' \in Nat /\ length' \in Nat
      BY <2>5, BitsOfIsNumber DEF GetHashBegins, TypeOK
    <3>2. 128 \in Byte /\ Push(128)
      BY <2>5 DEF GetHashBegins, Byte
    <3> QED BY <2>5, <3>1, <3>2, PushIsTyped DEF GetHashBegins, TypeOK
  <2>6. CASE ZeroByte
    <3>1. 0 \in Byte /\ Push(0) /\ length' \in Nat
      BY <2>6 DEF ZeroByte, Byte, TypeOK
    <3> QED BY <2>6, <3>1, PushIsTyped DEF ZeroByte, TypeOK
  <2>7. CASE ZerosEnd
    BY <2>7 DEF ZerosEnd, hasher, TypeOK
  <2>8. CASE PutLength
    <3>1. i \in 0..LENGTH_LEN - 1 /\ i' \in 0..LENGTH_LEN /\ length' \in Nat
      BY <2>8 DEF PutLength, TypeOK
    <3>2. LengthByte(i) \in Byte /\ Push(LengthByte(i))
      BY <2>8, <3>1, LengthByteIsByte DEF PutLength, TypeOK
    <3> QED BY <2>8, <3>1, <3>2, PushIsTyped DEF PutLength, TypeOK
  <2>9. CASE GetHashReturns
    BY <2>9 DEF GetHashReturns, hasher, TypeOK
  <2> QED BY <1>2, <2>1, <2>2, <2>3, <2>4, <2>5, <2>6, <2>7, <2>8, <2>9
          DEF Next, Continue
<1> QED BY <1>1, <1>2

(* No byte is written beyond the buffer, and every byte is one.            *)
THEOREM HasherTypes == Spec => []TypeOK
BY Typed, PTL DEF Spec

-----------------------------------------------------------------------------
(* The padding.                                                            *)

(* While the message is appended: what went in is how it begins, and the   *)
(* rest of the argument is how it ends.                                    *)
Appended ==
    phase \in {"open", "append"} =>
        /\ i \in 0..Len(bytes)
        /\ phase = "open" => bytes = <<>>
        /\ length = Len(fed) - i
        /\ Len(message) = Len(fed) + Len(bytes) - i
        /\ \A k \in 1..Len(fed) : message[k] = fed[k]
        /\ \A k \in i + 1..Len(bytes) : message[Len(fed) - i + k] = bytes[k]

(* How many zeros are missing before the length field.                     *)
Missing ==
    IF bufferLen <= BLOCK_LEN - LENGTH_LEN
    THEN BLOCK_LEN - LENGTH_LEN - bufferLen
    ELSE 2 * BLOCK_LEN - LENGTH_LEN - bufferLen

(* How many bytes went in before the length field.                         *)
Before == IF phase = "zeros" THEN Len(fed) ELSE Len(fed) - i

(* The message, the mark, zeros, and the bytes of the length field.        *)
Padded ==
    phase \in {"zeros", "length", "hashed"} =>
        /\ Len(message) + 1 <= Before
        /\ \A k \in 1..Len(message) : fed[k] = message[k]
        /\ fed[Len(message) + 1] = 128
        /\ \A k \in Len(message) + 2..Before : fed[k] = 0
        /\ bitLength = BitsOf(Len(message))
        /\ phase = "zeros" => Before + Missing <= Len(message) + BLOCK_LEN
        /\ phase # "zeros" =>
              /\ i \in 0..LENGTH_LEN
              /\ Before <= Len(message) + BLOCK_LEN
              /\ \A j \in 1..i : fed[Before + j] = LengthByte(j - 1)
        /\ phase = "hashed" => i = LENGTH_LEN

PaddingInv == Appended /\ Padded

LEMMA PushAppends ==
    ASSUME Shape, NEW b, Push(b)
    PROVE  /\ Len(fed) \in Nat /\ Len(fed') = Len(fed) + 1
           /\ \A k \in 1..Len(fed) : fed'[k] = fed[k]
           /\ fed'[Len(fed) + 1] = b
BY AppendToSequence DEF Shape, Push

LEMMA PaddingBegins == Init => PaddingInv
<1> SUFFICES ASSUME Init PROVE PaddingInv
  OBVIOUS
<1>1. Len(<<>>) = 0
  OBVIOUS
<1> QED BY <1>1 DEF Init, PaddingInv, Appended, Padded

LEMMA AppendKeepsPadding ==
    ASSUME TypeOK, IInv, PaddingInv,
           (\E s \in Chunks : AppendBegins(s)) \/ AppendByte \/ AppendEnds
    PROVE  PaddingInv'
<1>1. /\ fed \in Seq(Byte) /\ message \in Seq(Byte) /\ bytes \in Seq(Byte)
      /\ Len(fed) \in Nat /\ Len(message) \in Nat /\ Len(bytes) \in Nat
  BY DEF TypeOK
<1>2. ASSUME NEW s \in Chunks, AppendBegins(s) PROVE PaddingInv'
  <2>1. s \in Seq(Byte) /\ Len(s) \in Nat
    BY ChunksAssumption
  <2>2. /\ bytes = <<>> /\ i = 0 /\ Len(bytes) = 0
        /\ length = Len(fed) /\ Len(message) = Len(fed)
        /\ \A k \in 1..Len(fed) : message[k] = fed[k]
    <3>1. bytes = <<>> /\ Len(bytes) = 0
      BY <1>2 DEF AppendBegins, PaddingInv, Appended
    <3>2. i = 0
      BY <1>2, <3>1 DEF AppendBegins, PaddingInv, Appended
    <3> QED BY <1>1, <1>2, <3>1, <3>2 DEF AppendBegins, PaddingInv, Appended
  <2>3. /\ phase' = "append" /\ bytes' = s /\ i' = 0 /\ message' = message \o s
        /\ fed' = fed /\ length' = length
    BY <1>2 DEF AppendBegins, hasher
  <2>4. /\ Len(message') = Len(message) + Len(s)
        /\ \A k \in 1..Len(message) : message'[k] = message[k]
        /\ \A k \in 1..Len(s) : message'[Len(message) + k] = s[k]
    <3>1. IsSequence(message) /\ IsSequence(s)
      BY <1>1, <2>1, OfItsElements
    <3> QED BY <2>3, <3>1, ConcatSequences
  <2>5. Appended'
    <3>1. i' \in 0..Len(bytes') /\ length' = Len(fed') - i'
      BY <1>1, <2>1, <2>2, <2>3
    <3>2. Len(message') = Len(fed') + Len(bytes') - i'
      BY <1>1, <2>1, <2>2, <2>3, <2>4
    <3>3. \A k \in 1..Len(fed') : message'[k] = fed'[k]
      BY <1>1, <2>2, <2>3, <2>4
    <3>4. \A k \in i' + 1..Len(bytes') : message'[Len(fed') - i' + k] = bytes'[k]
      <4>1. ASSUME NEW k \in i' + 1..Len(bytes')
            PROVE  message'[Len(fed') - i' + k] = bytes'[k]
        <5>1. k \in 1..Len(s)
          BY <2>1, <2>3
        <5>2. Len(fed') - i' + k = Len(message) + k
          BY <1>1, <2>2, <2>3, <5>1
        <5> QED BY <2>3, <2>4, <5>1, <5>2
      <4> QED BY <4>1
    <3> QED BY <2>3, <3>1, <3>2, <3>3, <3>4 DEF Appended
  <2>6. Padded'
    BY <2>3 DEF Padded
  <2> QED BY <2>5, <2>6 DEF PaddingInv
<1>3. CASE AppendByte
  <2>1. /\ phase = "append" /\ phase' = "append" /\ bytes' = bytes
        /\ message' = message /\ length' = length
        /\ i' = i + 1 /\ i < Len(bytes) /\ i \in 0..Len(bytes)
        /\ Push(bytes[i + 1])
    BY <1>3 DEF AppendByte, PaddingInv, Appended
  <2>2. /\ length = Len(fed) - i
        /\ Len(message) = Len(fed) + Len(bytes) - i
        /\ \A k \in 1..Len(fed) : message[k] = fed[k]
        /\ \A k \in i + 1..Len(bytes) : message[Len(fed) - i + k] = bytes[k]
    BY <2>1 DEF PaddingInv, Appended
  <2>3. /\ Len(fed') = Len(fed) + 1
        /\ \A k \in 1..Len(fed) : fed'[k] = fed[k]
        /\ fed'[Len(fed) + 1] = bytes[i + 1]
    BY <2>1, PushAppends DEF IInv
  <2>4. i' \in 0..Len(bytes') /\ length' = Len(fed') - i'
    BY <1>1, <2>1, <2>2, <2>3
  <2>5. Len(message') = Len(fed') + Len(bytes') - i'
    BY <1>1, <2>1, <2>2, <2>3
  <2>6. ASSUME NEW k \in 1..Len(fed') PROVE message'[k] = fed'[k]
    <3>1. CASE k \in 1..Len(fed)
      BY <2>1, <2>2, <2>3, <3>1
    <3>2. CASE k = Len(fed) + 1
      <4>1. i + 1 \in i + 1..Len(bytes) /\ Len(fed) - i + (i + 1) = Len(fed) + 1
        BY <1>1, <2>1
      <4>2. message[Len(fed) - i + (i + 1)] = bytes[i + 1]
        BY <2>2, <4>1
      <4> QED BY <2>1, <2>3, <3>2, <4>1, <4>2
    <3> QED BY <1>1, <2>3, <3>1, <3>2
  <2>7. ASSUME NEW k \in i' + 1..Len(bytes')
        PROVE  message'[Len(fed') - i' + k] = bytes'[k]
    <3>1. k \in (i + 1) + 1..Len(bytes) /\ i \in Nat
      BY <1>1, <2>1
    <3>2. k \in i + 1..Len(bytes) /\ (Len(fed) + 1) - (i + 1) + k = Len(fed) - i + k
      BY <1>1, <3>1
    <3>3. Len(fed') - i' + k = Len(fed) - i + k
      BY <2>1, <2>3, <3>2
    <3> QED BY <2>1, <2>2, <3>2, <3>3
  <2>8. Appended'
    BY <2>1, <2>4, <2>5, <2>6, <2>7 DEF Appended
  <2>9. Padded'
    BY <2>1 DEF Padded
  <2> QED BY <2>8, <2>9 DEF PaddingInv
<1>4. CASE AppendEnds
  <2>1. /\ phase = "append" /\ phase' = "open" /\ bytes' = <<>> /\ i' = 0
        /\ i = Len(bytes) /\ length' = length + Len(bytes)
        /\ message' = message /\ fed' = fed
    BY <1>4 DEF AppendEnds, hasher
  <2>2. /\ length = Len(fed) - i
        /\ Len(message) = Len(fed) + Len(bytes) - i
        /\ \A k \in 1..Len(fed) : message[k] = fed[k]
    BY <2>1 DEF PaddingInv, Appended
  <2>3. Len(bytes') = 0
    BY <2>1
  <2>4. i' \in 0..Len(bytes') /\ length' = Len(fed') - i'
        /\ Len(message') = Len(fed') + Len(bytes') - i'
    BY <1>1, <2>1, <2>2, <2>3
  <2>5. \A k \in i' + 1..Len(bytes') : message'[Len(fed') - i' + k] = bytes'[k]
    BY <2>1, <2>3
  <2>6. Appended'
    BY <2>1, <2>2, <2>4, <2>5 DEF Appended
  <2>7. Padded'
    BY <2>1 DEF Padded
  <2> QED BY <2>6, <2>7 DEF PaddingInv
<1> QED BY <1>2, <1>3, <1>4

LEMMA GetHashKeepsPadding ==
    ASSUME TypeOK, IInv, PaddingInv,
           GetHashBegins \/ ZeroByte \/ ZerosEnd \/ PutLength \/ GetHashReturns
    PROVE  PaddingInv'
<1> USE LengthsAssumption
<1>1. /\ Len(fed) \in Nat /\ Len(message) \in Nat /\ Len(bytes) \in Nat
      /\ bufferLen \in 0..BLOCK_LEN - 1
  BY DEF TypeOK
<1>2. \A k : bitLength' = bitLength => LengthByte(k)' = LengthByte(k)
  BY DEF LengthByte
<1>3. ASSUME NEW b, Push(b)
      PROVE  /\ Len(fed') = Len(fed) + 1
             /\ \A k \in 1..Len(fed) : fed'[k] = fed[k]
             /\ fed'[Len(fed) + 1] = b
             /\ bufferLen' = IF bufferLen + 1 = BLOCK_LEN THEN 0 ELSE bufferLen + 1
  BY <1>3, PushAppends DEF IInv, Push
<1>4. CASE GetHashBegins
  <2>1. /\ phase = "open" /\ phase' = "zeros" /\ message' = message
        /\ bitLength' = BitsOf(length) /\ Push(128)
    BY <1>4 DEF GetHashBegins
  <2>2. /\ length = Len(fed) /\ Len(message) = Len(fed)
        /\ \A k \in 1..Len(fed) : message[k] = fed[k]
    <3>1. bytes = <<>> /\ Len(bytes) = 0 /\ i \in 0..Len(bytes)
      BY <2>1 DEF PaddingInv, Appended
    <3>2. i = 0
      BY <3>1
    <3> QED BY <1>1, <2>1, <3>1, <3>2 DEF PaddingInv, Appended
  <2>3. /\ Len(fed') = Len(fed) + 1
        /\ \A k \in 1..Len(fed) : fed'[k] = fed[k]
        /\ fed'[Len(fed) + 1] = 128
        /\ bufferLen' = IF bufferLen + 1 = BLOCK_LEN THEN 0 ELSE bufferLen + 1
    BY <1>3, <2>1
  <2>4. Before' = Len(message) + 1
    BY <2>1, <2>2, <2>3 DEF Before
  <2>5. Missing' \in 0..BLOCK_LEN - 1
    BY <1>1, <2>3 DEF Missing
  <2>6. Before' + Missing' <= Len(message) + BLOCK_LEN
    BY <1>1, <2>4, <2>5
  <2>7. Len(message) + 2 > Before' /\ Len(message) + 1 <= Before'
    BY <1>1, <2>4
  <2>8. \A k \in Len(message) + 2..Before' : FALSE
    BY <1>1, <2>4
  <2>9. bitLength' = BitsOf(Len(message'))
    BY <2>1, <2>2
  <2>10. Padded'
    BY <1>1, <2>1, <2>2, <2>3, <2>6, <2>7, <2>8, <2>9 DEF Padded, BitsOf
  <2>11. Appended'
    BY <2>1 DEF Appended
  <2> QED BY <2>10, <2>11 DEF PaddingInv
<1>5. CASE ZeroByte
  <2>1. /\ phase = "zeros" /\ phase' = "zeros" /\ message' = message
        /\ bitLength' = bitLength /\ Push(0) /\ bufferLen # BLOCK_LEN - LENGTH_LEN
    BY <1>5 DEF ZeroByte
  <2>2. /\ Len(message) + 1 <= Len(fed)
        /\ \A k \in 1..Len(message) : fed[k] = message[k]
        /\ fed[Len(message) + 1] = 128
        /\ \A k \in Len(message) + 2..Len(fed) : fed[k] = 0
        /\ bitLength = BitsOf(Len(message))
        /\ Len(fed) + Missing <= Len(message) + BLOCK_LEN
    BY <2>1 DEF PaddingInv, Padded, Before
  <2>3. /\ Len(fed') = Len(fed) + 1
        /\ \A k \in 1..Len(fed) : fed'[k] = fed[k]
        /\ fed'[Len(fed) + 1] = 0
        /\ bufferLen' = IF bufferLen + 1 = BLOCK_LEN THEN 0 ELSE bufferLen + 1
    BY <1>3, <2>1
  <2>4. Before' = Len(fed) + 1
    BY <2>1, <2>3 DEF Before
  <2>5. Missing' = Missing - 1 /\ Missing \in Int
    BY <1>1, <2>1, <2>3 DEF Missing
  <2>6. Before' + Missing' <= Len(message) + BLOCK_LEN
    BY <1>1, <2>2, <2>4, <2>5
  <2>7. Len(message) + 1 <= Before' /\ Len(message) + 1 \in 1..Len(fed)
    BY <1>1, <2>2, <2>4
  <2>8. \A k \in 1..Len(message) : fed'[k] = message[k]
    BY <1>1, <2>2, <2>3
  <2>9. \A k \in Len(message) + 2..Before' : fed'[k] = 0
    <3> SUFFICES ASSUME NEW k \in Len(message) + 2..Len(fed) + 1 PROVE fed'[k] = 0
      BY <2>4
    <3>1. (k \in Len(message) + 2..Len(fed) /\ k \in 1..Len(fed)) \/ k = Len(fed) + 1
      BY <1>1
    <3> QED BY <2>2, <2>3, <3>1
  <2>10. bitLength' = BitsOf(Len(message')) /\ fed'[Len(message) + 1] = 128
    BY <2>1, <2>2, <2>3, <2>7
  <2>11. Padded'
    BY <2>1, <2>6, <2>7, <2>8, <2>9, <2>10 DEF Padded, BitsOf
  <2>12. Appended'
    BY <2>1 DEF Appended
  <2> QED BY <2>11, <2>12 DEF PaddingInv
<1>6. CASE ZerosEnd
  <2>1. /\ phase = "zeros" /\ phase' = "length" /\ message' = message /\ fed' = fed
        /\ bitLength' = bitLength /\ i' = 0 /\ bufferLen = BLOCK_LEN - LENGTH_LEN
    BY <1>6 DEF ZerosEnd, hasher
  <2>2. Missing = 0
    BY <1>1, <2>1 DEF Missing
  <2>3. Before = Len(fed) /\ Before' = Len(fed)
    BY <1>1, <2>1 DEF Before
  <2>4. Before' <= Len(message) + BLOCK_LEN
    BY <1>1, <2>1, <2>2, <2>3 DEF PaddingInv, Padded
  <2>5. i' \in 0..LENGTH_LEN /\ \A j \in 1..i' : FALSE
    BY <2>1
  <2>6. bitLength' = BitsOf(Len(message'))
    BY <2>1 DEF PaddingInv, Padded
  <2>7. Padded'
    BY <2>1, <2>3, <2>4, <2>5, <2>6 DEF PaddingInv, Padded, BitsOf
  <2>8. Appended'
    BY <2>1 DEF Appended
  <2> QED BY <2>7, <2>8 DEF PaddingInv
<1>7. CASE PutLength
  <2>1. /\ phase = "length" /\ phase' = "length" /\ message' = message
        /\ bitLength' = bitLength /\ Push(LengthByte(i))
        /\ i' = i + 1 /\ i \in 0..LENGTH_LEN - 1
    BY <1>7 DEF PutLength, TypeOK
  <2> DEFINE b == Len(fed) - i
  <2>2. /\ Len(message) + 1 <= b
        /\ \A k \in 1..Len(message) : fed[k] = message[k]
        /\ fed[Len(message) + 1] = 128
        /\ \A k \in Len(message) + 2..b : fed[k] = 0
        /\ bitLength = BitsOf(Len(message))
        /\ b <= Len(message) + BLOCK_LEN
        /\ \A j \in 1..i : fed[b + j] = LengthByte(j - 1)
    BY <2>1 DEF PaddingInv, Padded, Before
  <2>3. /\ Len(fed') = Len(fed) + 1
        /\ \A k \in 1..Len(fed) : fed'[k] = fed[k]
        /\ fed'[Len(fed) + 1] = LengthByte(i)
    BY <1>3, <2>1
  <2>4. b \in Int /\ b + i = Len(fed)
    BY <1>1, <2>1
  <2>5. Before' = b
    BY <1>1, <2>1, <2>3 DEF Before
  <2> HIDE DEF b
  <2>6. \A k \in 1..Len(message) : fed'[k] = message[k]
    BY <1>1, <2>1, <2>2, <2>3, <2>4
  <2>7. fed'[Len(message) + 1] = 128
    <3>1. Len(message) + 1 \in 1..Len(fed)
      BY <1>1, <2>1, <2>2, <2>4
    <3> QED BY <2>2, <2>3, <3>1
  <2>8. \A k \in Len(message) + 2..b : fed'[k] = 0
    <3> SUFFICES ASSUME NEW k \in Len(message) + 2..b PROVE fed'[k] = 0
      OBVIOUS
    <3>1. k \in 1..Len(fed)
      BY <1>1, <2>1, <2>4
    <3> QED BY <2>2, <2>3, <3>1
  <2>9. ASSUME NEW j \in 1..i' PROVE fed'[b + j] = LengthByte(j - 1)'
    <3>1. LengthByte(j - 1)' = LengthByte(j - 1)
      BY <1>2, <2>1
    <3>2. CASE j \in 1..i
      <4>1. b + j \in 1..Len(fed)
        BY <1>1, <2>1, <2>2, <2>4, <3>2
      <4> QED BY <2>2, <2>3, <3>1, <3>2, <4>1
    <3>3. CASE j = i + 1
      <4>1. b + j = Len(fed) + 1 /\ j - 1 = i
        BY <1>1, <2>1, <2>4, <3>3
      <4> QED BY <2>3, <3>1, <4>1
    <3> QED BY <2>1, <3>2, <3>3
  <2>10. i' \in 0..LENGTH_LEN
    BY <2>1
  <2>11. bitLength' = BitsOf(Len(message'))
    BY <2>1, <2>2
  <2>12. Padded'
    <3>1. \A j \in 1..i' : fed'[Before' + j] = LengthByte(j - 1)'
      BY <2>5, <2>9
    <3>2. /\ Len(message') + 1 <= Before' /\ Before' <= Len(message') + BLOCK_LEN
          /\ \A k \in 1..Len(message') : fed'[k] = message'[k]
          /\ fed'[Len(message') + 1] = 128
          /\ \A k \in Len(message') + 2..Before' : fed'[k] = 0
      BY <2>1, <2>2, <2>5, <2>6, <2>7, <2>8
    <3>3. bitLength' = BitsOf(Len(message))' /\ phase' = "length"
      BY <2>1, <2>11 DEF BitsOf
    <3> QED BY <2>10, <3>1, <3>2, <3>3 DEF Padded
  <2>13. Appended'
    BY <2>1 DEF Appended
  <2> QED BY <2>12, <2>13 DEF PaddingInv
<1>8. CASE GetHashReturns
  <2>1. /\ phase = "length" /\ phase' = "hashed" /\ message' = message /\ fed' = fed
        /\ bitLength' = bitLength /\ i' = i /\ i = LENGTH_LEN
    BY <1>8 DEF GetHashReturns, hasher
  <2>2. Before' = Before
    BY <2>1 DEF Before
  <2>3. \A k : LengthByte(k)' = LengthByte(k)
    BY <1>2, <2>1
  <2>4. BitsOf(Len(message))' = BitsOf(Len(message))
    BY <2>1 DEF BitsOf
  <2>5. Padded'
    BY <2>1, <2>2, <2>3, <2>4 DEF PaddingInv, Padded
  <2>6. Appended'
    BY <2>1 DEF Appended
  <2> QED BY <2>5, <2>6 DEF PaddingInv
<1> QED BY <1>4, <1>5, <1>6, <1>7, <1>8

LEMMA PaddingInductive == Spec => [](TypeOK /\ IInv /\ PaddingInv)
<1>1. TypeOK /\ PaddingInv /\ UNCHANGED vars => PaddingInv'
  BY DEF vars, PaddingInv, Appended, Padded, Before, Missing, LengthByte, BitsOf
<1>2. TypeOK /\ IInv /\ PaddingInv /\ [Next]_vars => PaddingInv'
  BY <1>1, AppendKeepsPadding, GetHashKeepsPadding DEF Next, Continue
<1>3. Init => TypeOK /\ IInv /\ PaddingInv
  BY PaddingBegins, Typed, HasherInductive
<1>4. TypeOK /\ IInv /\ PaddingInv /\ [Next]_vars => (TypeOK /\ IInv /\ PaddingInv)'
  BY <1>2, Typed, HasherInductive
<1> QED BY <1>3, <1>4, PTL DEF Spec

-----------------------------------------------------------------------------
(* The length field.                                                       *)

(* The definition of FoldLeft, for this use of it, on bytes.               *)
LEMMA NumberFold ==
    ASSUME NEW L \in Nat, NEW w, DOMAIN w = 1..L, \A k \in 1..L : w[k] \in Byte
    PROVE  \E f : /\ f[{}] = 0
                  /\ \A j \in 1..L : f[1..j] = 256 * f[1..j - 1] + w[j]
                  /\ NumberOf(w) = f[1..L]
<1> DEFINE D     == 1..L
           pick  == [s \in SUBSET D |-> Max(s)]
           step  == [k \in D |-> [v \in Nat |-> 256 * v + w[k]]]
           Is(f) == f = [s \in SUBSET D |-> IF s = {} THEN 0
                                            ELSE 256 * f[s \ {Max(s)}] + w[Max(s)]]
           iter  == CHOOSE f : Is(f)
<1>1. NumberOf(w) = iter[D]
  BY Zenon DEF NumberOf, FoldLeft, MapThenFoldSet
<1>2. ASSUME NEW s \in SUBSET D, s # {}
      PROVE  Max(s) \in s /\ \A m \in s : m <= Max(s)
  <2>1. s \in SUBSET (0..L)
    OBVIOUS
  <2>2. \E n \in s : \A m \in s : m <= n
    BY <1>2, <2>1, GreatestUpTo
  <2>3. \E n \in s : \A m \in s : n >= m
    BY <2>1, <2>2
  <2>4. Max(s) \in s /\ \A m \in s : Max(s) >= m
    BY <2>3 DEF Max
  <2> QED BY <2>1, <2>4
<1>3. IsFiniteSet(D) /\ 0 \in Nat
  BY FS_Interval
<1>4. step \in [D -> [Nat -> Nat]]
  <2>1. ASSUME NEW k \in D, NEW v \in Nat PROVE 256 * v + w[k] \in Nat
    <3>1. PICK m \in 0..255 : m = w[k]
      BY DEF Byte
    <3>2. 256 * v + m \in Nat
      OBVIOUS
    <3> QED BY <3>1, <3>2
  <2>2. \A k \in D : [v \in Nat |-> 256 * v + w[k]] \in [Nat -> Nat]
    BY <2>1
  <2> QED BY <2>2
<1>5. \A s \in SUBSET D : s # {} => pick[s] \in s
  BY <1>2
<1>6. /\ \A s \in SUBSET D : pick[s] = Max(s)
      /\ \A k \in D, v \in Nat : step[k][v] = 256 * v + w[k]
  OBVIOUS
<1> HIDE DEF D, pick, step
<1>7. PICK f : Collects(f, D, Nat, 0, pick, step)
  BY <1>3, <1>4, <1>5, FoldExists
<1>8. Is(f)
  <2>1. f \in [SUBSET D -> Nat]
    BY <1>7 DEF Collects
  <2>2. ASSUME NEW s \in SUBSET D
        PROVE  f[s] = IF s = {} THEN 0 ELSE 256 * f[s \ {Max(s)}] + w[Max(s)]
    <3>1. CASE s = {}
      BY <1>7, <3>1 DEF Collects
    <3>2. CASE s # {}
      <4>1. Max(s) \in D /\ s \ {Max(s)} \in SUBSET D
        BY <1>2, <3>2
      <4>2. f[s \ {Max(s)}] \in Nat
        BY <2>1, <4>1
      <4>3. f[s] = step[pick[s]][f[s \ {pick[s]}]] /\ pick[s] = Max(s)
        BY <1>6, <1>7, <3>2 DEF Collects
      <4>4. f[s] = step[Max(s)][f[s \ {Max(s)}]]
        BY <4>3, Zenon
      <4> QED BY <1>6, <3>2, <4>1, <4>2, <4>4
    <3> QED BY <3>1, <3>2
  <2> QED BY <2>1, <2>2
<1>9. Is(iter)
  BY <1>8
<1> HIDE DEF iter
<1>10. iter[{}] = 0
  BY <1>9
<1>11. ASSUME NEW j \in 1..L PROVE iter[1..j] = 256 * iter[1..j - 1] + w[j]
  <2> DEFINE s == 1..j
  <2>1. s \in SUBSET D /\ s # {} /\ j \in s
    <3>1. j \in s /\ \A k \in s : k \in 1..L
      OBVIOUS
    <3> QED BY <3>1 DEF D
  <2>2. Max(s) = j
    <3>1. Max(s) \in s /\ j <= Max(s)
      BY <1>2, <2>1
    <3> QED BY <3>1
  <2>3. s \ {j} = 1..j - 1
    OBVIOUS
  <2>4. iter[s] = 256 * iter[s \ {Max(s)}] + w[Max(s)]
    <3> HIDE DEF s
    <3> QED BY <1>9, <2>1
  <2> QED BY <2>2, <2>3, <2>4
<1> QED BY <1>1, <1>10, <1>11 DEF D

LEMMA EightBits == ASSUME NEW n \in Nat PROVE 2 ^ (8 * (n + 1)) = 256 * 2 ^ (8 * n)
<1>1. 8 * n \in Nat /\ 8 * (n + 1) = 8 * n + 8
  OBVIOUS
<1>2. 2 ^ (8 * n + 8) = 2 ^ (8 * n) * 2 ^ 8
  BY <1>1, PowersAdd
<1>3. 2 ^ 8 = 256
  OBVIOUS
<1>4. 2 ^ (8 * n) \in Nat
  BY <1>1, PowersOfTwo
<1> QED BY <1>1, <1>2, <1>3, <1>4

(* The bytes of a number, the highest first, give it back.                 *)
LEMMA NumberOfItsBytes ==
    ASSUME NEW L \in Nat, NEW v \in Nat, v < 2 ^ (8 * L), NEW w, DOMAIN w = 1..L,
           \A k \in 1..L : w[k] = (v \div 2 ^ (8 * (L - k))) % 256
    PROVE  NumberOf(w) = v
<1> DEFINE p == [k \in 0..L |-> 2 ^ (8 * (L - k))]
<1>1. \A k \in 0..L : p[k] \in Nat \ {0}
  <2> SUFFICES ASSUME NEW k \in 0..L PROVE p[k] \in Nat \ {0}
    OBVIOUS
  <2>1. 8 * (L - k) \in Nat
    OBVIOUS
  <2> QED BY <2>1, PowersOfTwo
<1>2. \A k \in 1..L : p[k - 1] = 256 * p[k]
  <2> SUFFICES ASSUME NEW k \in 1..L PROVE p[k - 1] = 256 * p[k]
    OBVIOUS
  <2>1. L - k \in Nat /\ L - (k - 1) = (L - k) + 1
    OBVIOUS
  <2>2. 2 ^ (8 * ((L - k) + 1)) = 256 * 2 ^ (8 * (L - k))
    BY <2>1, EightBits
  <2> QED BY <2>1, <2>2
<1>3. p[L] = 1 /\ p[0] = 2 ^ (8 * L)
  <2>1. 8 * (L - L) = 0 /\ 8 * (L - 0) = 8 * L
    OBVIOUS
  <2> QED BY <2>1, PowersOfTwo
<1>a. \A k \in 1..L : w[k] = (v \div p[k]) % 256
  <2> SUFFICES ASSUME NEW k \in 1..L PROVE w[k] = (v \div p[k]) % 256
    OBVIOUS
  <2>1. k \in 0..L /\ p[k] = 2 ^ (8 * (L - k))
    OBVIOUS
  <2> HIDE DEF p
  <2> QED BY <2>1
<1> HIDE DEF p
<1>4. \A k \in 1..L : w[k] \in Byte
  <2> SUFFICES ASSUME NEW k \in 1..L PROVE w[k] \in Byte
    OBVIOUS
  <2>1. p[k] \in Nat \ {0}
    BY <1>1
  <2> DEFINE q == v \div p[k]
  <2>2. q \in Nat
    BY <2>1, DividedTwice, 1 \in Nat \ {0}
  <2>3. w[k] = q % 256
    BY <1>a
  <2> HIDE DEF q
  <2> QED BY <2>2, <2>3 DEF Byte
<1>5. PICK f : /\ f[{}] = 0
               /\ \A j \in 1..L : f[1..j] = 256 * f[1..j - 1] + w[j]
               /\ NumberOf(w) = f[1..L]
  BY <1>4, NumberFold
<1> DEFINE T == {j \in 0..L : f[1..j] = v \div p[j]}
<1>6. 0 \in T
  <2>1. 1..0 = {}
    OBVIOUS
  <2>2. v \div p[0] = 0
    <3>1. p[0] \in Nat \ {0} /\ v < p[0]
      BY <1>1, <1>3
    <3> QED BY <3>1, SmallQuotient
  <2>3. f[1..0] = 0
    BY <1>5, <2>1
  <2> QED BY <2>2, <2>3
<1>7. ASSUME NEW j \in 0..L - 1, j \in T PROVE j + 1 \in T
  <2>1. j + 1 \in 1..L /\ (j + 1) - 1 = j /\ j + 1 \in 0..L
    OBVIOUS
  <2>2. f[1..j + 1] = 256 * f[1..j] + w[j + 1]
    <3>1. f[1..j + 1] = 256 * f[1..(j + 1) - 1] + w[j + 1]
      BY <1>5, <2>1
    <3>2. 1..(j + 1) - 1 = 1..j
      OBVIOUS
    <3> HIDE DEF T
    <3> QED BY <3>1, <3>2
  <2>3. p[j] = 256 * p[j + 1] /\ p[j + 1] \in Nat \ {0}
    BY <1>1, <1>2, <2>1
  <2> DEFINE q == v \div p[j + 1]
  <2>4. v \div (p[j + 1] * 256) = q \div 256 /\ q \in Nat
    <3>1. PICK m \in Nat \ {0} : m = p[j + 1]
      BY <2>3
    <3>2. PICK n \in Nat \ {0} : n = 256
      OBVIOUS
    <3>3. v \div (m * n) = (v \div m) \div n /\ v \div m \in Nat
      BY DividedTwice
    <3> QED BY <3>1, <3>2, <3>3
  <2>5. p[j] = p[j + 1] * 256
    BY <2>3
  <2>6. w[j + 1] = q % 256 /\ f[1..j] = q \div 256
    BY <1>7, <1>a, <2>1, <2>4, <2>5
  <2>7. q = 256 * (q \div 256) + (q % 256)
    <3> HIDE DEF q
    <3> QED BY <2>4
  <2>8. f[1..j + 1] = q
    <3> HIDE DEF q
    <3> QED BY <2>2, <2>6, <2>7
  <2> QED BY <2>1, <2>8
<1>8. L \in T
  <2>1. 0..L \subseteq T
    <3> HIDE DEF T
    <3> QED BY <1>6, <1>7, InductionUpTo
  <2> QED BY <2>1
<1>9. v \div p[L] = v
  BY <1>3
<1> QED BY <1>5, <1>8, <1>9

(* Whatever the message, the buffer's first content and the cuts: when     *)
(* getHash returns, what was compressed is the message, the mark, fewer    *)
(* zeros than a block, and the number of bits in LENGTH_LEN bytes, as      *)
(* whole blocks.                                                           *)
THEOREM HashIsOfPaddedMessage == Spec => []HashesPaddedMessage
<1> USE LengthsAssumption
<1>1. TypeOK /\ IInv /\ PaddingInv => HashesPaddedMessage
  <2> SUFFICES ASSUME TypeOK, IInv, PaddingInv, phase = "hashed"
               PROVE  LET n    == Len(message)
                          last == Len(compressed) - LENGTH_LEN
                      IN  /\ bufferLen = 0
                          /\ Len(compressed) % BLOCK_LEN = 0
                          /\ last - BLOCK_LEN < n + 1 /\ n + 1 <= last
                          /\ SubSeq(compressed, 1, n) = message
                          /\ compressed[n + 1] = 128
                          /\ \A k \in n + 2..last : compressed[k] = 0
                          /\ NumberOf(Field) = (8 * n) % 2 ^ (8 * LENGTH_LEN)
    BY DEF HashesPaddedMessage
  <2> DEFINE n    == Len(message)
             last == Len(compressed) - LENGTH_LEN
  <2>1. /\ compressed \in Seq(Byte) /\ message \in Seq(Byte)
        /\ n \in Nat /\ Len(compressed) \in Nat
    BY DEF TypeOK
  <2>2. /\ bufferLen = 0 /\ Len(fed) = Len(compressed)
        /\ \A k \in 1..Len(compressed) : fed[k] = compressed[k]
    BY <2>1 DEF IInv, Aligned, Streamed, NothingLost
  <2>3. Len(compressed) % BLOCK_LEN = 0
    <3>1. PICK m \in 0..Len(compressed) : Len(compressed) = m * BLOCK_LEN
      BY DEF IInv, Streamed, WholeBlocks
    <3>2. (m * BLOCK_LEN + 0) % BLOCK_LEN = 0
      BY 0 \in 0..BLOCK_LEN - 1, BLOCK_LEN \in Nat \ {0}, m \in Int, RemainderUnique
    <3> QED BY <3>1, <3>2
  <2>4. Before = last /\ i = LENGTH_LEN
    BY <2>2 DEF Before, PaddingInv, Padded
  <2>5. /\ n + 1 <= last /\ last <= n + BLOCK_LEN
        /\ \A k \in 1..n : fed[k] = message[k]
        /\ fed[n + 1] = 128
        /\ \A k \in n + 2..last : fed[k] = 0
        /\ bitLength = BitsOf(n)
        /\ \A j \in 1..LENGTH_LEN : fed[last + j] = LengthByte(j - 1)
    BY <2>4 DEF PaddingInv, Padded
  <2>6. \A k \in 1..last + LENGTH_LEN : compressed[k] = fed[k]
    BY <2>1, <2>2
  <2> DEFINE w == Field
  <2>7. DOMAIN w = 1..LENGTH_LEN /\ \A k \in 1..LENGTH_LEN : w[k] = compressed[last + k]
    <3>1. last \in 0..Len(compressed)
      BY <2>1, <2>5
    <3>2. IsSequence(compressed)
      BY DEF IInv, Shape
    <3>3. PICK d : d = SubSeq(compressed, last + 1, Len(compressed))
      OBVIOUS
    <3> HIDE DEF last, w
    <3>4. /\ IsSequence(d) /\ Len(d) = Len(compressed) - last
          /\ \A k \in 1..Len(d) : d[k] = compressed[last + k]
      BY <3>1, <3>2, <3>3, SuffixOfSequence
    <3>5. w = d /\ Len(compressed) - last = LENGTH_LEN
      BY <2>1, <3>3 DEF w, Field, last
    <3>6. DOMAIN d = 1..Len(d)
      BY <3>4, LenProperties DEF IsSequence
    <3> QED BY <3>4, <3>5, <3>6
  <2>8. /\ bitLength \in Nat /\ bitLength < 2 ^ (8 * LENGTH_LEN)
        /\ bitLength = (8 * n) % 2 ^ (8 * LENGTH_LEN)
    <3>1. n * 8 = 8 * n
      BY <2>1
    <3> HIDE DEF n
    <3> QED BY <2>1, <2>5, <3>1, BitsOfIsNumber DEF BitsOf
  <2>9. NumberOf(w) = bitLength
    <3>1. ASSUME NEW k \in 1..LENGTH_LEN
          PROVE  w[k] = (bitLength \div 2 ^ (8 * (LENGTH_LEN - k))) % 256
      <4>1. last + k \in 1..last + LENGTH_LEN
        BY <2>1, <2>5
      <4>2. w[k] = LengthByte(k - 1)
        <5> HIDE DEF w, last
        <5> QED BY <2>5, <2>6, <2>7, <4>1
      <4>3. LENGTH_LEN - 1 - (k - 1) = LENGTH_LEN - k
        OBVIOUS
      <4> HIDE DEF w
      <4> QED BY <4>2, <4>3 DEF LengthByte
    <3>2. PICK v \in Nat : v = bitLength
      BY <2>8
    <3>3. v < 2 ^ (8 * LENGTH_LEN) /\ LENGTH_LEN \in Nat
      BY <2>8, <3>2
    <3>4. /\ DOMAIN w = 1..LENGTH_LEN
          /\ \A k \in 1..LENGTH_LEN : w[k] = (v \div 2 ^ (8 * (LENGTH_LEN - k))) % 256
      BY <2>7, <3>1, <3>2
    <3> HIDE DEF w
    <3>5. NumberOf(w) = v
      BY <3>3, <3>4, NumberOfItsBytes
    <3> QED BY <3>2, <3>5
  <2>10. SubSeq(compressed, 1, n) = message
    <3>1. \A k \in 1..n : message[k] = compressed[k]
      BY <2>1, <2>5, <2>6
    <3>2. SubSeq(message, 1, n) = SubSeq(compressed, 1, n)
      <4> HIDE DEF n
      <4> QED BY <2>1, <3>1, SameSubSeq
    <3>3. SubSeq(message, 1, n) = message
      BY <2>1, SubSeqFull
    <3> QED BY <3>2, <3>3
  <2>11. compressed[n + 1] = 128
    BY <2>1, <2>5, <2>6
  <2>12. ASSUME NEW k \in n + 2..last PROVE compressed[k] = 0
    <3>1. k \in 1..last + LENGTH_LEN
      BY <2>1
    <3> QED BY <2>5, <2>6, <3>1
  <2>13. last - BLOCK_LEN < n + 1
    BY <2>1, <2>5
  <2>14. NumberOf(Field) = (8 * n) % 2 ^ (8 * LENGTH_LEN)
    <3> HIDE DEF n
    <3> QED BY <2>8, <2>9
  <2> HIDE DEF n, last, w
  <2> QED BY <2>2, <2>3, <2>5, <2>10, <2>11, <2>12, <2>13, <2>14 DEF n, last
<1> QED BY <1>1, PaddingInductive, PTL

=============================================================================
