----------------------------- MODULE NodeClaims -----------------------------
(***************************************************************************)
(* What the comments of the repository say of a node, as properties of the *)
(* model.  The code does otherwise in each case; the runs that check these *)
(* properties show how.                                                    *)
(***************************************************************************)
EXTENDS Node

(* Node.hpp:72, "After waiting time is over checks if new blocks came in   *)
(* that contain transactions in block. If not adds block to blockchain":   *)
(* no block that came in during the wait, that is, from place block.index  *)
(* on, holds a transaction of a block that is appended.  The code looks    *)
(* from one block further on (Node.cpp:48).                                *)
ArrivedBlocksExamined ==
    [][SubmitAppends =>
          \A i \in InFlight.index..Len(chain) :
              TransactionsOf(chain[i]) \cap TransactionsOf(InFlight) = {}]_vars

(* The other half of Node.hpp:72: a block is refused only if a block that  *)
(* came in holds one of its transactions.  The code also counts what       *)
(* AddTransaction let in, the block's own transactions included.           *)
RefusedOnlyForConflict ==
    [][SubmitRefuses =>
          \E i \in InFlight.index..Len(chain) :
              \E t \in TransactionsOf(InFlight) :
                  Holds(TransactionsOf(chain[i]), t)]_vars

(* README.md:21, "Checks block prev and current hash before adding to      *)
(* blockchain": every block names the block before it.                     *)
ChainLinked ==
    \A i \in 2..Len(chain) : chain[i].prevHash = chain[i-1].currHash

(* Block.hpp:35, "The balance of the sender gets checked when adding the   *)
(* block to the blockchain": the sender of every transaction of a block    *)
(* that is added has, as AddTransaction counts, more than its amount.      *)
(* Neither AddBlock nor SimpleAddBlock asks (Blockchain.cpp:21-29).        *)
BalancesChecked ==
    [][chain' # chain =>
          \A t \in TransactionsOf(GetLastBlock(chain')) :
              Below(t.amount, Balance(chain, t.sender))]_vars

=============================================================================
