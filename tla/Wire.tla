-------------------------------- MODULE Wire --------------------------------
(***************************************************************************)
(* The text that nodes exchange: how blocks, transactions and hosts are    *)
(* packed and unpacked (Block.cpp, Transaction.cpp, Connection.cpp).       *)
(*                                                                         *)
(* A text is a sequence of atoms: the two delimiters, a command word, a    *)
(* number, 64 hexadecimal digits, a part of the address of a host, or      *)
(* other bytes that are none of these.  The kind of an atom is the name of *)
(* its field.                                                              *)
(* Buffers are sent whole: what snprintf and sprintf do not fill are bytes *)
(* nobody wrote, behind a zero byte at which stoul and stof stop.  All     *)
(* they can do is to be a delimiter.                                       *)
(*                                                                         *)
(* Amounts are counted in the last of the Decimals places that "%f" shows; *)
(* two floats that are shown alike are signed alike.  Not every number of  *)
(* these is what a float is shown as: stof takes the nearest float.        *)
(*                                                                         *)
(* A piece with too few fields is read behind the end of a vector, which   *)
(* is undefined.  What is there is taken never to make up for the missing  *)
(* half of a signature: the read, or the assertion behind it, ends the     *)
(* process, as do the exceptions of stoul, stoi and stof and the           *)
(* assertions of Uint256 and Sha256Hash on text that is not 64 digits.     *)
(***************************************************************************)
EXTENDS Blockchain, FiniteSets

CONSTANTS
    Decimals,   \* what "%f" prints behind the point: 6
    BufferLen,  \* char buffer[10] of GetTransactionMetadata
    PacketLen,  \* the 1024 bytes of get_packet
    stof(_)     \* what the float nearest to a number is shown as

ASSUME BufferAssumption ==
    /\ Decimals \in Nat /\ BufferLen \in Nat /\ BufferLen > Decimals + 3

(* A packet is too short for the numbers of 64 digits of two blocks.       *)
ASSUME PacketAssumption == PacketLen \in Nat /\ PacketLen <= 20 * 64

MAX_TRANSACTIONS == 2

Bar == [mark |-> "|"]
Dash == [mark |-> "-"]
Word(w) == [word |-> w]
Num(n) == [num |-> n]
Hex(h) == [hex |-> h]
Address(a) == [address |-> a]
Other == [bytes |-> "no delimiter"]
Stale == {Bar, Dash, Other}

(* std::to_string and the formats: a minus sign is a Dash.                 *)
Signed(n) == IF n < 0 THEN <<Dash, Num(-n)>> ELSE <<Num(n)>>

(* The pieces between the delimiters, empty ones too.                      *)
unpack_data(text, delimiter) ==
    LET res[n \in 0..Len(text)] ==
          IF n = 0 THEN << <<>> >>
          ELSE LET found == res[n - 1]
               IN  IF text[n] = delimiter THEN Append(found, <<>>)
                   ELSE [found EXCEPT ![Len(found)] = Append(@, text[n])]
    IN  res[Len(text)]

(* The loops that put a '-' between the items and none behind the last.    *)
Joined(texts) ==
    FlattenSeq([i \in DOMAIN texts |->
                   IF i = Len(texts) THEN texts[i] ELSE Append(texts[i], Dash)])

---------------------------------------------------------------------------
(* Packing.                                                                *)

TenTo[d \in Nat] == IF d = 0 THEN 1 ELSE 10 * TenTo[d - 1]

Digits(n) == CHOOSE d \in 1..n + 1 : /\ n < TenTo[d]
                                     /\ d > 1 => n >= TenTo[d - 1]

(* How many characters of "%f" are beyond the buffer, whose last byte is   *)
(* for the terminating zero.                                               *)
Printed(n) == Digits(n \div TenTo[Decimals]) + 1 + Decimals
Overlong(n) == IF Printed(n) < BufferLen THEN 0 ELSE Printed(n) - BufferLen + 1

(* snprintf keeps the first characters: decimals go first, then the point, *)
(* then digits of the whole part, each of which divides the amount.        *)
(* (Mutant first: the whole text is kept.)                                 *)
KeptWhole(n) == n

Kept(n) ==
    LET over == Overlong(n)
    IN  IF over <= Decimals
        THEN n - (n % TenTo[over])
        ELSE (n \div TenTo[over - 1]) * TenTo[Decimals]

(* A short text leaves a byte of the buffer as it was; a sign takes one    *)
(* more.                                                                   *)
AmountText(n, stale) ==
    IF n < 0 THEN <<Dash, Num(Kept(-n))>>
    ELSE <<Num(Kept(n))>> \o (IF Printed(n) + 1 < BufferLen THEN <<stale>> ELSE <<>>)

GetTransactionMetadata(t, stale) ==
    <<Hex(t.sender), Bar, Hex(t.receiver), Bar>> \o AmountText(t.amount, stale)
    \o <<Bar, Hex(t.signature[1]), Bar, Hex(t.signature[2]), Bar>>

(* The first two transactions, however many there are; stale[0] is in what *)
(* sprintf leaves of strTime.  The time is some number: blocks are here    *)
(* without it, as in Blockchain.                                           *)
GetBlockMetaData(b, stale) ==
    <<Bar, Num(b.index), Bar, Num(0), stale[0], Bar,
      Hex(b.prevHash), Bar, Hex(b.currHash), Bar>>
    \o FlattenSeq([i \in 1..MAX_TRANSACTIONS |->
                      GetTransactionMetadata(b.txs[i], stale[i])])

cmd_getblocks(blocks, stale) ==
    <<Word("blocks")>>
    \o Joined([i \in DOMAIN blocks |-> GetBlockMetaData(blocks[i], stale)])

(* What is sent, and what the tests pack: a '|' makes the difference.      *)
cmd_gettransactions(ts, stale) ==
    <<Word("transactions")>>
    \o Joined([i \in DOMAIN ts |-> GetTransactionMetadata(ts[i], stale)])

cmd_gettransaction_test(ts, stale) ==
    <<Word("transactions")>>
    \o Joined([i \in DOMAIN ts |-> <<Bar>> \o GetTransactionMetadata(ts[i], stale)])

cmd_gethosts(hosts) ==
    <<Word("hosts")>>
    \o FlattenSeq([i \in DOMAIN hosts |->
                      Signed(hosts[i].port) \o <<Bar>> \o hosts[i].address \o <<Dash>>])

cmd_gethosts_test(hosts) ==
    <<Word("hosts")>>
    \o Joined([i \in DOMAIN hosts |->
                  <<Bar>> \o Signed(hosts[i].port)
                  \o <<Bar>> \o hosts[i].address \o <<Bar>>])

---------------------------------------------------------------------------
(* The way through get_packet.                                             *)

(* At least so many bytes: all but the long numbers count as one byte.     *)
MinLength(text) ==
    Len(text) + 63 * Cardinality({i \in DOMAIN text : "hex" \in DOMAIN text[i]})

(* recv returns the first bytes of the text, here up to behind atom k, and *)
(* perhaps a part of the next one; the rest of the vector is zeros.        *)
get_packet(text, k) == Append(SubSeq(text, 1, k), Other)

Fits(text, k) == MinLength(SubSeq(text, 1, k)) <= PacketLen

---------------------------------------------------------------------------
(* Unpacking.  A field is what stands between two '|'.                     *)

IsNum(field) == field # <<>> /\ "num" \in DOMAIN field[1]
IsHex(field) == Len(field) = 1 /\ "hex" \in DOMAIN field[1]

(* The five fields from the k-th on.                                       *)
HoldsTransaction(fields, k) ==
    /\ Len(fields) >= k + 4
    /\ \A i \in {k, k + 1, k + 3, k + 4} : IsHex(fields[i])
    /\ IsNum(fields[k + 2])

TransactionAt(fields, k) ==
    [sender    |-> fields[k][1].hex,
     receiver  |-> fields[k + 1][1].hex,
     amount    |-> stof(fields[k + 2][1].num),
     signature |-> <<fields[k + 3][1].hex, fields[k + 4][1].hex>>]

HoldsBlock(fields) ==
    /\ Len(fields) >= 5
    /\ IsNum(fields[2]) /\ IsNum(fields[3])
    /\ IsHex(fields[4]) /\ IsHex(fields[5])
    /\ \A i \in 0..MAX_TRANSACTIONS - 1 : HoldsTransaction(fields, 6 + 5 * i)

(* (Mutant first: the offset does not go on to the second transaction.)    *)
BlockOfTheFirst(fields) ==
    [index    |-> fields[2][1].num,
     prevHash |-> fields[4][1].hex,
     currHash |-> fields[5][1].hex,
     txs      |-> [i \in 1..MAX_TRANSACTIONS |-> TransactionAt(fields, 6)]]

BlockAt(fields) ==
    [index    |-> fields[2][1].num,
     prevHash |-> fields[4][1].hex,
     currHash |-> fields[5][1].hex,
     txs      |-> [i \in 1..MAX_TRANSACTIONS |-> TransactionAt(fields, 1 + 5 * i)]]

Pieces(text) ==
    LET pieces == unpack_data(text, Dash)
    IN  [i \in DOMAIN pieces |-> unpack_data(pieces[i], Bar)]

(* The reading either ends the process or returns the items.               *)
Dies == [alive |-> FALSE, items |-> <<>>]
Returns(items) == [alive |-> TRUE, items |-> items]

(* unpack_blocks without the assertions on the signatures.                 *)
BlocksIn(text) ==
    LET pieces == Pieces(text)
    IN  IF \A i \in DOMAIN pieces : HoldsBlock(pieces[i])
        THEN Returns([i \in DOMAIN pieces |-> BlockAt(pieces[i])])
        ELSE Dies

(* Each transaction goes to the front.  cmd_transactions reads alike.      *)
cmd_transactions_test(text) ==
    LET pieces == Pieces(text)
    IN  IF \A i \in DOMAIN pieces : HoldsTransaction(pieces[i], 2)
        THEN Returns(Reverse([i \in DOMAIN pieces |-> TransactionAt(pieces[i], 2)]))
        ELSE Dies

(* cmd_hosts reads alike.                                                  *)
cmd_hosts_test(text) ==
    LET pieces == Pieces(text)
    IN  IF \A i \in DOMAIN pieces : Len(pieces[i]) >= 3 /\ IsNum(pieces[i][2])
        THEN Returns([i \in DOMAIN pieces |->
                         [port    |-> pieces[i][2][1].num,
                          address |-> pieces[i][3]]])
        ELSE Dies
=============================================================================
