-------------------------------- MODULE Node --------------------------------
(***************************************************************************)
(* One node (Network/Node.cpp): its chain, its three transaction pools and *)
(* the builder, the thread that runs                                       *)
(*                                                                         *)
(*     while(1){ block = CreateBlock(); SubmitBlock(block); }              *)
(*                                                                         *)
(* (main.cpp:66-75).  SubmitBlock first sleeps for up to MAX_WAITING_TIME  *)
(* seconds.  While it sleeps the serving side of the node goes on: it adds *)
(* transactions (Node::AddTransaction) and blocks (Connection::cmd_blocks) *)
(* to the same object, so what CreateBlock read is old when SubmitBlock    *)
(* uses it.  That is the interleaving of this module: the calls on the     *)
(* node are atomic, the sleep is not.                                      *)
(*                                                                         *)
(* The waiting time itself is not represented: any call may come before    *)
(* the sleep ends.                                                         *)
(***************************************************************************)
EXTENDS TransactionSet, Blockchain, FiniteSets

CONSTANTS
    Transactions,    \* the transactions that can reach the node
    WirePairs,       \* the pairs of transactions a block on the wire carries
    StartPools,      \* what pending_transactions may hold at the start
    StartPairs,      \* the pairs a second block may hold at the start
    Junk,            \* what uninitialised hash memory may hold
    MaxTransactions, \* the values the uninitialised int maxTransactions takes
    SizeLimit,       \* the 10 of the assertion in Block::AddTransaction
    MaxChain         \* bound: a chain this long is not extended by choice

ASSUME TransactionAssumption ==
    \A t \in Transactions : t.amount \in Int \cup {NaN} /\ t.signed \in BOOLEAN
ASSUME PairAssumption ==
    \A pair \in WirePairs \cup StartPairs :
        pair \in Seq(Transactions) /\ Len(pair) = 2
ASSUME StartAssumption ==
    /\ \A pool \in StartPools :
          /\ pool \subseteq Transactions /\ IsPool(pool)
          /\ \A t \in pool : t.signed /\ t.amount \in Int
    /\ \A pair \in StartPairs : \A i \in DOMAIN pair : pair[i].signed
(* In a packet of blocks '-' ends a block (Connection.cpp:372), so no      *)
(* amount in it has a sign; but stof takes "nan" for one.                  *)
ASSUME UnsignedAssumption ==
    \A pair \in WirePairs : \A i \in DOMAIN pair :
        pair[i].amount = NaN \/ pair[i].amount >= 0
ASSUME NumberAssumption ==
    MaxTransactions \subseteq Int /\ SizeLimit \in Nat /\ MaxChain \in Nat

VARIABLES
    chain,            \* blockchain.chain
    pending,          \* pending_transactions: the pool blocks are built from
    buffer,           \* buffer_transactions: what CreateBlock put in blocks
    newTxs,           \* new_transactions: what AddTransaction let in
    maxTransactions,  \* never assigned by the code, so never changed here
    submitting,       \* <<block>> while SubmitBlock(block) sleeps, else <<>>
    process           \* "running" or "ended"

vars == <<chain, pending, buffer, newTxs, maxTransactions, submitting, process>>

Running == process = "running"
Waiting == submitting # <<>>
InFlight == submitting[1]

(* A hash nobody assigned: foreign bytes, or those of a hash that was in   *)
(* the same memory before.                                                 *)
Leftover == Junk \cup {chain[i].currHash : i \in DOMAIN chain}

---------------------------------------------------------------------------
(* A node starts with the genesis block.  As in Tests.cpp a second block   *)
(* may have been put behind it with AddBlock, and the pool may have been   *)
(* filled directly.                                                        *)
StartChain(c) ==
    \E g, h \in Junk :
        LET genesis == <<CreateGenesisBlock(g)>>
        IN  \/ c = genesis
            \/ \E pair \in StartPairs :
                  c = AddBlock(genesis, [index |-> 2, prevHash |-> h,
                                         currHash |-> h, txs |-> pair])

Init ==
    /\ StartChain(chain)
    /\ pending \in StartPools
    /\ buffer = {}
    /\ newTxs = {}
    /\ maxTransactions \in MaxTransactions
    /\ submitting = <<>>
    /\ process = "running"

(* The balance of an address: the sum of what the chain sends TO it.  What *)
(* it spent is not subtracted.                                             *)
Received(address, txs) ==
    FoldLeft(LAMBDA sum, t :
        Plus(sum, IF t.receiver = address THEN t.amount ELSE 0), 0, txs)

Balance(blocks, address) ==
    FoldLeft(LAMBDA sum, b : Plus(sum, Received(address, b.txs)), 0, blocks)

(* Mutant of AddTransaction: a balance equal to the amount is enough.      *)
AddTransactionAtBalance(t) ==
    /\ Running
    /\ t.signed
    /\ ~Below(Balance(chain, t.sender), t.amount)
    /\ pending' = Insert(pending, t)
    /\ newTxs' = Insert(newTxs, t)
    /\ UNCHANGED <<chain, buffer, maxTransactions, submitting, process>>

(***************************************************************************)
(* Node::AddTransaction.  A transaction is let in when its signature is    *)
(* good and its sender has received more than the amount, which a NaN on   *)
(* either side never is; it is then put in pending and in newTxs, whether  *)
(* the builder waits or not.  A transaction that is refused changes        *)
(* nothing.                                                                *)
(***************************************************************************)
AddTransaction(t) ==
    /\ Running
    /\ t.signed
    /\ Below(t.amount, Balance(chain, t.sender))
    /\ pending' = Insert(pending, t)
    /\ newTxs' = Insert(newTxs, t)
    /\ UNCHANGED <<chain, buffer, maxTransactions, submitting, process>>

(* Mutants of AcceptBlock: the index is not compared; the signatures are   *)
(* not.                                                                    *)
AcceptAnyIndex(b) ==
    /\ Running
    /\ Len(chain) < MaxChain
    /\ \A i \in DOMAIN b.txs : b.txs[i].signed
    /\ b.prevHash = GetLastBlock(chain).currHash
    /\ chain' = AddBlock(chain, b)
    /\ UNCHANGED <<pending, buffer, newTxs, maxTransactions, submitting, process>>

AcceptAnySignature(b) ==
    /\ Running
    /\ Len(chain) < MaxChain
    /\ b.prevHash = GetLastBlock(chain).currHash
    /\ b.index = GetLastBlock(chain).index + 1
    /\ chain' = AddBlock(chain, b)
    /\ UNCHANGED <<pending, buffer, newTxs, maxTransactions, submitting, process>>

(***************************************************************************)
(* Connection::unpack_blocks and cmd_blocks for one block from a peer.     *)
(* unpack_blocks asserts both signatures; the block is taken when it names *)
(* the last block and carries the next index, and AddBlock computes its    *)
(* hash anew.  Nothing is done to the pools.                               *)
(***************************************************************************)
AcceptBlock(b) ==
    /\ Running
    /\ Len(chain) < MaxChain
    /\ \A i \in DOMAIN b.txs : b.txs[i].signed
    /\ b.prevHash = GetLastBlock(chain).currHash
    /\ b.index = GetLastBlock(chain).index + 1
    /\ chain' = AddBlock(chain, b)
    /\ UNCHANGED <<pending, buffer, newTxs, maxTransactions, submitting, process>>

(* A request ends the process: a signature in a block does not verify      *)
(* (the assertions of unpack_blocks), a text is not what the unpacking     *)
(* reads, getblocks asks for what is not there, or the peer has gone and   *)
(* the reply raises SIGPIPE.  Connection says which of them does.          *)
ServingEnds ==
    /\ Running
    /\ process' = "ended"
    /\ UNCHANGED <<chain, pending, buffer, newTxs, maxTransactions, submitting>>

(* The blocks peers send: built on any block of this chain or on none of   *)
(* them.  The index runs one past what any chain within the bound reaches. *)
WireBlock ==
    [index : 1..MaxChain + 1, prevHash : Leftover, currHash : Junk,
     txs : WirePairs]

---------------------------------------------------------------------------
(***************************************************************************)
(* Node::CreateBlock.  The pool is big enough when its size, an unsigned   *)
(* number, is at least maxTransactions converted to unsigned: a negative   *)
(* value is out of reach.  Both loops of the code count with a variable i  *)
(* of their own, so one element is drawn and added maxTransactions times.  *)
(* The new block's index is the length the chain will have, and its        *)
(* currHash is not computed.                                               *)
(***************************************************************************)
EnoughPending ==
    maxTransactions >= 0 /\ Cardinality(pending) >= maxTransactions

(* Mutants of NewBlock: prevHash is copied from the last block's prevHash  *)
(* where its currHash is meant; the index is one further on.               *)
NewBlockUnlinked(leftover, txs) ==
    [index    |-> GetChainLength(chain) + 1,
     prevHash |-> GetLastBlock(chain).prevHash,
     currHash |-> leftover,
     txs      |-> txs]

NewBlockOffByOne(leftover, txs) ==
    [index    |-> GetChainLength(chain) + 2,
     prevHash |-> GetLastBlock(chain).currHash,
     currHash |-> leftover,
     txs      |-> txs]

NewBlock(leftover, txs) ==
    [index    |-> GetChainLength(chain) + 1,
     prevHash |-> GetLastBlock(chain).currHash,
     currHash |-> leftover,
     txs      |-> txs]

Copies(t) == [i \in 1..maxTransactions |-> t]

(* Block::AddTransaction asserts, before each push_back, that at most      *)
(* SizeLimit transactions are there and that the signature is good.        *)
(* (Mutant first: a block that is full by one transaction more.)           *)
FitsBelow(t) ==
    maxTransactions = 0 \/ (maxTransactions - 1 < SizeLimit /\ t.signed)

Fits(t) == maxTransactions = 0 \/ (maxTransactions - 1 <= SizeLimit /\ t.signed)

BuilderIdle == Running /\ ~Waiting /\ Len(chain) < MaxChain

CreateEmptyBlock ==
    /\ BuilderIdle
    /\ ~EnoughPending
    /\ \E h \in Leftover : submitting' = <<NewBlock(h, <<>>)>>
    /\ UNCHANGED <<chain, pending, buffer, newTxs, maxTransactions, process>>

(* Mutant of CreateFullBlock: what goes into the block is not buffered.    *)
CreateUnbuffered(t) ==
    /\ BuilderIdle
    /\ EnoughPending
    /\ t \in pending
    /\ Fits(t)
    /\ \E h \in Leftover : submitting' = <<NewBlock(h, Copies(t))>>
    /\ UNCHANGED <<chain, pending, buffer, newTxs, maxTransactions, process>>

CreateFullBlock(t) ==
    /\ BuilderIdle
    /\ EnoughPending
    /\ t \in pending
    /\ Fits(t)
    /\ \E h \in Leftover : submitting' = <<NewBlock(h, Copies(t))>>
    /\ buffer' = IF maxTransactions = 0 THEN buffer ELSE Insert(buffer, t)
    /\ UNCHANGED <<chain, pending, newTxs, maxTransactions, process>>

(* rand() % 0: the pool is empty and zero transactions are enough.         *)
CreateTraps ==
    /\ BuilderIdle
    /\ EnoughPending
    /\ pending = {}
    /\ process' = "ended"
    /\ UNCHANGED <<chain, pending, buffer, newTxs, maxTransactions, submitting>>

(* The assertion of Block::AddTransaction ends the process.                *)
CreateAborts(t) ==
    /\ BuilderIdle
    /\ EnoughPending
    /\ t \in pending
    /\ ~Fits(t)
    /\ process' = "ended"
    /\ UNCHANGED <<chain, pending, buffer, newTxs, maxTransactions, submitting>>

(***************************************************************************)
(* Node::SubmitBlock after the sleep.  The blocks that came in meanwhile   *)
(* are looked for from vector position block.index on.  The block refused  *)
(* or not, newTxs is emptied; buffer is not.                               *)
(***************************************************************************)
Examined(b) ==
    IF GetChainLength(chain) > b.index THEN GetSubChain(chain, b.index)
                                       ELSE <<>>

(* Their transactions are inserted into newTxs one after the other.  A NaN *)
(* gets into an empty pool only, that is, if it comes first, and then      *)
(* keeps all others out.                                                   *)
FirstOf(blocks) ==
    {blocks[i].txs[1] : i \in {k \in DOMAIN blocks :
        blocks[k].txs # <<>> /\ \A j \in 1..k-1 : blocks[j].txs = <<>>}}

WithArrived(pool, blocks) ==
    IF pool = {} /\ \E t \in FirstOf(blocks) : t.amount = NaN
    THEN FirstOf(blocks)
    ELSE pool \cup {t \in TransactionsIn(blocks) : t.amount # NaN}

Conflicts(b) == Intersection(buffer, WithArrived(newTxs, Examined(b)))

(* User("admin") and its reward transaction are created here and dropped.  *)
(* Their assertions (a private key in range, a product modulo the order)   *)
(* fail for about one key or hash in 2^128 and would end the process       *)
(* behind the append: that is left out.                                    *)
SubmitAppends ==
    /\ Running
    /\ Waiting
    /\ Conflicts(InFlight) = {}
    /\ chain' = SimpleAddBlock(chain, InFlight)
    /\ newTxs' = {}
    /\ submitting' = <<>>
    /\ UNCHANGED <<pending, buffer, maxTransactions, process>>

(* Mutant of SubmitRefuses: newTxs is emptied only by a success.           *)
RefuseKeepsNew ==
    /\ Running
    /\ Waiting
    /\ Conflicts(InFlight) # {}
    /\ pending' = EraseAll(pending, Conflicts(InFlight))
    /\ submitting' = <<>>
    /\ UNCHANGED <<chain, buffer, newTxs, maxTransactions, process>>

SubmitRefuses ==
    /\ Running
    /\ Waiting
    /\ Conflicts(InFlight) # {}
    /\ pending' = EraseAll(pending, Conflicts(InFlight))
    /\ newTxs' = {}
    /\ submitting' = <<>>
    /\ UNCHANGED <<chain, buffer, maxTransactions, process>>

---------------------------------------------------------------------------
Serve == \/ \E t \in Transactions : AddTransaction(t)
         \/ \E b \in WireBlock : AcceptBlock(b)
         \/ ServingEnds

CreateBlock == \/ CreateEmptyBlock
               \/ \E t \in Transactions : CreateFullBlock(t)
               \/ \E t \in Transactions : CreateAborts(t)
               \/ CreateTraps

SubmitBlock == SubmitAppends \/ SubmitRefuses

Build == CreateBlock \/ SubmitBlock

Next == Serve \/ Build

Spec == Init /\ [][Next]_vars

(* The builder's loop has no condition and its sleep ends.                 *)
FairSpec == Spec /\ WF_vars(Build)

---------------------------------------------------------------------------
(* Correctness.                                                            *)

(* A block whose parts have their types; hashes are opaque values.         *)
IsBlock(b) == b.index \in Nat /\ b.txs \in Seq(Transactions)

(* The state has its types, and no pool holds two transactions of one      *)
(* amount (std::set under operator<).                                      *)
TypeOK ==
    /\ chain \in Seq(Range(chain))
    /\ chain # <<>>
    /\ \A i \in DOMAIN chain : IsBlock(chain[i])
    /\ pending \subseteq Transactions /\ IsPool(pending)
    /\ buffer \subseteq Transactions /\ IsPool(buffer)
    /\ newTxs \subseteq Transactions /\ IsPool(newTxs)
    /\ maxTransactions \in MaxTransactions
    /\ Waiting => submitting = <<InFlight>> /\ IsBlock(InFlight)
    /\ process \in {"running", "ended"}

(* Every block but the first names, in prevHash, the hash of a block that  *)
(* stands before it: whatever the builder and the peers append in whatever *)
(* order, nothing hangs in the air (Node.cpp:20, Connection.cpp:287,       *)
(* Blockchain.cpp:22).                                                     *)
HashPointsBack ==
    \A i \in 2..Len(chain) :
        \E j \in 1..i-1 : chain[i].prevHash = chain[j].currHash

(* No block carries an index beyond its place in the chain: a block that   *)
(* the builder appends late has an index that is too small, never one too  *)
(* large, so the index test of cmd_blocks never runs ahead of the length   *)
(* (Node.cpp:19, Connection.cpp:288).                                      *)
IndexNotAhead == \A i \in 1..Len(chain) : chain[i].index <= i

(* While SubmitBlock sleeps its block stays anchored: the index it will    *)
(* hand to GetSubChain is in bounds of the chain of now, and the block it  *)
(* was built on still stands right before that place (Node.cpp:19-20,      *)
(* 46-48).                                                                 *)
InFlightAnchored ==
    Waiting => /\ InFlight.index \in 2..Len(chain) + 1
               /\ InFlight.prevHash = chain[InFlight.index - 1].currHash

(* What is in the block being submitted is in buffer, up to the order of   *)
(* the set: the conflict test of SubmitBlock, which asks buffer and not    *)
(* the block, cannot miss a transaction of the block (Node.cpp:28-29, 55). *)
InFlightBuffered ==
    Waiting => \A t \in TransactionsOf(InFlight) : Holds(buffer, t)

(* A transaction without a good signature gets into no pool, no block in   *)
(* flight and no block of the chain, by none of the ways in (Node.cpp:89,  *)
(* Block.cpp:48, Connection.cpp:396-397).                                  *)
OnlySigned ==
    \A t \in TransactionsIn(chain) \cup TransactionsIn(submitting)
                 \cup pending \cup buffer \cup newTxs : t.signed

(* The balance test of AddTransaction stays true of every transaction that *)
(* still waits in newTxs, although the chain has grown since: nothing but  *)
(* a payment of NaN to its sender, which a peer can sign, takes it away    *)
(* (Node.cpp:91-104, Connection.cpp:387).                                  *)
PaidNaN(address) ==
    \E s \in TransactionsIn(chain) : s.receiver = address /\ s.amount = NaN

AnnouncedFunded ==
    \A t \in newTxs :
        Below(t.amount, Balance(chain, t.sender)) \/ PaidNaN(t.sender)

(* A block the builder appends has no transaction in common, by amount,    *)
(* with what was announced since the last submission or with the blocks    *)
(* SubmitBlock examined, although a NaN among the latter keeps the others  *)
(* out of the set they are compared through (Node.cpp:50-58).              *)
SubmittedDisjoint ==
    [][SubmitAppends =>
          \A t \in TransactionsOf(InFlight) :
              \A s \in newTxs \cup TransactionsIn(Examined(InFlight)) :
                  s.amount # t.amount]_vars

(* The builder ends the process neither by a remainder by zero nor by the  *)
(* assertions of Block::AddTransaction, whatever the peers bring into its  *)
(* pool, unless maxTransactions is zero or its copies of one transaction   *)
(* are more than a block takes (Node.cpp:21-30, Block.cpp:46-50; without   *)
(* the two objects at Node.cpp:60-62, see SubmitAppends).                  *)
BuilderSurvives ==
    [][Build /\ maxTransactions # 0 /\ maxTransactions <= SizeLimit + 1
          => process' = process]_vars

(* When transactions and blocks stop coming in, the builder is refused     *)
(* only finitely often more: it does not livelock on a buffer it never     *)
(* empties (Node.cpp:55-57, main.cpp:68-70).                               *)
QuietBuilderSucceeds == <>[][~Serve]_vars => <>[][~SubmitRefuses]_vars

(* The chain as a tree: block i hangs from an earlier block whose hash it  *)
(* names (the memory of an unassigned hash may hold the hash of another    *)
(* block, so there may be several); the first block hangs from none.       *)
Anchors(i) == {j \in 1..i-1 : chain[j].currHash = chain[i].prevHash}

Parent(i) == IF i = 1 THEN 0 ELSE CHOOSE j \in Anchors(i) : TRUE

Parents == [i \in 1..Len(chain) |-> Parent(i)]

Tree == INSTANCE AppendOnlyTree WITH parent <- Parents

(* The chain of a node implements the append-only tree: blocks are added   *)
(* one at a time below a block that is there, none is removed or moved.    *)
ImplementsTree == Tree!Spec
=============================================================================
