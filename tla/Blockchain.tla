----------------------------- MODULE Blockchain -----------------------------
(***************************************************************************)
(* Blocks and the chain that Blockchain.cpp keeps in a std::vector<Block>. *)
(*                                                                         *)
(* A block is a record [index, prevHash, currHash, txs]; the time and the  *)
(* block master are left out, nothing reads them back.  A transaction is a *)
(* record [sender, receiver, amount, signed]: "signed" says whether        *)
(* Ecdsa::verify accepts the signature for the other three fields, which   *)
(* is all CheckSignature asks (Block.cpp:26-44).                           *)
(*                                                                         *)
(* SHA-256 is an injective constructor: the digest of a block is the       *)
(* record of what goes into it.  A Sha256Hash that nobody assigned keeps   *)
(* whatever its memory held (Sha256Hash.cpp:13): the modules that use this *)
(* one choose such a value with \E.                                        *)
(*                                                                         *)
(* The chain is a sequence counted from 1, the vector from 0: chain[i] is  *)
(* the element at position i-1.                                            *)
(***************************************************************************)
EXTENDS Integers, Sequences, SequencesExt

GetChainLength(chain) == Len(chain)

GetLastBlock(chain) == chain[Len(chain)]

(* TransactionsToString: the text lists the parties and the amount of each *)
(* transaction.  Its signature is not part of it.                          *)
TransactionsToString(txs) ==
    [i \in 1..Len(txs) |-> [sender   |-> txs[i].sender,
                            receiver |-> txs[i].receiver,
                            amount   |-> txs[i].amount]]

(* HashBlock hashes the current values of prevHash and of currHash itself, *)
(* then the text; neither the index nor the time.                          *)
HashBlock(block) == [prev |-> block.prevHash,
                     curr |-> block.currHash,
                     text |-> TransactionsToString(block.txs)]

(* The genesis block: index 0, a fixed prevHash, and a currHash that is    *)
(* never computed.                                                         *)
GenesisPrevHash == [seed |-> "1401200014"]

CreateGenesisBlock(leftover) ==
    [index |-> 0, prevHash |-> GenesisPrevHash, currHash |-> leftover,
     txs |-> <<>>]

(* The block as AddBlock stores it: it is made to point at the last block  *)
(* and its hash is computed over the new prevHash and the old currHash.    *)
Relinked(chain, block) ==
    LET linked == [index    |-> block.index,
                   prevHash |-> GetLastBlock(chain).currHash,
                   currHash |-> block.currHash,
                   txs      |-> block.txs]
    IN  [linked EXCEPT !.currHash = HashBlock(linked)]

AddBlock(chain, block) == Append(chain, Relinked(chain, block))

(* Mutant of SimpleAddBlock: the block is stored twice.                    *)
StoreTwice(chain, block) == chain \o <<block, block>>

(* SimpleAddBlock stores the block as it is and checks nothing.            *)
SimpleAddBlock(chain, block) == Append(chain, block)

(* GetSubChain(start): the blocks from vector position start to the end.   *)
GetSubChain(chain, start) == SubSeq(chain, start + 1, Len(chain))

TransactionsOf(block) == {block.txs[i] : i \in DOMAIN block.txs}

TransactionsIn(blocks) ==
    UNION {TransactionsOf(blocks[i]) : i \in DOMAIN blocks}
=============================================================================
