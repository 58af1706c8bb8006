------------------------------ MODULE Network ------------------------------
(***************************************************************************)
(* The node that serves together with its builder: the threads of          *)
(* Node.hpp:88-90, "1 Thread Serving ... 1 Thread Transactions", and the   *)
(* builder's of main.cpp:65-75, on one Node object.                        *)
(*                                                                         *)
(* Connection gives the steps of the serving thread and of the peers, Node *)
(* those of the builder; what they share is the chain of the server and    *)
(* the process, which any of them can end.  The program leaves open        *)
(* whether a builder is started ("if node.builder == true", main.cpp:67):  *)
(* both cases are here.                                                    *)
(***************************************************************************)
EXTENDS Connection

CONSTANTS
    NaN,                                             \* as in Node
    Transactions, StartPools, StartPairs, Leftovers, \* as in Node, whose Junk
    MaxTransactions, SizeLimit,                      \* is Junk \cup Leftovers
    Setups,         \* pairs: is a builder started, and maxTransactions
    BuilderPeers,   \* bound: the peers that connect beside a builder
    MaxBesideSends  \* bound: the commands a console sends beside a builder
                    \* or a node

ASSUME SetupAssumption == Setups \subseteq BOOLEAN \X MaxTransactions

VARIABLES
    builds,         \* a builder was started; never changes
    pending, buffer, newTxs, maxTransactions, submitting   \* as in Node

poolVars == <<pending, buffer, newTxs, maxTransactions, submitting>>
netVars == <<vars, builds, poolVars>>

(* The server's Node object.  The memory of a hash nobody assigned may     *)
(* hold what a hash from the wire holds, too.                              *)
ServerNode ==
    INSTANCE Node WITH
        chain   <- chain[Server],
        process <- IF server = "dead" THEN "ended" ELSE "running",
        Junk    <- Junk \cup Leftovers

(* What Node assumes of its constants holds of the server's object.        *)
ASSUME NodeAssumption == /\ ServerNode!NaNAssumption
                         /\ ServerNode!TransactionAssumption
                         /\ ServerNode!PairAssumption
                         /\ ServerNode!StartAssumption
                         /\ ServerNode!UnsignedAssumption
                         /\ ServerNode!NumberAssumption

(* Every chain a node may start with is one that Node starts with.         *)
ASSUME StartChainAssumption == \A c \in StartChains : ServerNode!StartChain(c)

NetInit ==
    /\ Init
    /\ \E setup \in Setups : /\ builds = setup[1]
                             /\ maxTransactions = setup[2]
    /\ pending \in StartPools
    /\ buffer = {}
    /\ newTxs = {}
    /\ submitting = <<>>

(* What a step of the serving thread or of a peer leaves alone, and the    *)
(* bounds: that of Node on the chain, and what happens beside a builder.   *)
InBounds ==
    /\ chain'[Server] # chain[Server] => Len(chain[Server]) < MaxChain
    /\ builds => \A p \in Peers \ BuilderPeers : peer'[p] = "new"
    /\ builds \/ (\E n \in ClientNodes : peer'[n] # "new") =>
           \A p \in Consoles : Len(asked'[p]) <= MaxBesideSends

Beside == InBounds /\ UNCHANGED <<builds, poolVars>>

(* What a call on the Node object may do to the rest: the server's chain   *)
(* grows by the block that is being submitted, or the process ends.        *)
OnNodeObject ==
    /\ chain' \in {chain} \cup {[chain EXCEPT ![Server] = Append(@, b)] :
                                    b \in Range(submitting)}
    /\ server' \in {server, "dead"}
    /\ UNCHANGED <<serving, backlog, peer, asked, toServer, toPeer, builds>>

BuilderStep == builds /\ OnNodeObject /\ ServerNode!Build

(* Without a builder nothing depends on the pools, which stay as they are. *)
TransactionStep ==
    /\ builds
    /\ OnNodeObject
    /\ \E t \in Transactions : ServerNode!AddTransaction(t)

NetNext ==
    \/ Next /\ Beside
    \/ BuilderStep
    \/ TransactionStep

NetSpec == NetInit /\ [][NetNext]_netVars

(* Each thread goes on as in Connection and in Node.                       *)
NetFairSpec ==
    /\ NetSpec
    /\ WF_netVars(ServerStep /\ Beside)
    /\ \A n \in ClientNodes : WF_netVars(NodeStep(n) /\ Beside)
    /\ WF_netVars(BuilderStep)

---------------------------------------------------------------------------
(* Correctness.                                                            *)

NetTypeOK == TypeOK /\ ServerNode!TypeOK /\ builds \in BOOLEAN

(* As long as no builder appends, every node's chain is a list, whatever   *)
(* blocks come in (Connection.cpp:287-289, Blockchain.cpp:21-25).          *)
LinkedWithoutBuilder == ~builds => ServedChainLinked

(* Whatever the conversations do, the server's object behaves as a Node,   *)
(* and so has every property of one: no handler of Connection changes the  *)
(* chain or the pools in a way Node does not know (Connection.cpp:100-134).*)
ServerIsNode == ServerNode!Spec
=============================================================================
