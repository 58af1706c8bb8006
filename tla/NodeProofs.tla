----------------------------- MODULE NodeProofs -----------------------------
(***************************************************************************)
(* Proofs about Node, for every set of transactions, every value of the    *)
(* uninitialised memory and every bound.                                   *)
(***************************************************************************)
EXTENDS Node, Facts

---------------------------------------------------------------------------
(* Transactions and pools.                                                 *)

SignedTxs(txs) == \A i \in DOMAIN txs : txs[i].signed

Numbers(txs) == \A i \in DOMAIN txs : txs[i].amount \in Int

(* Inserting keeps a set of transactions in which no two are equivalent,   *)
(* loses nothing and adds at most the new one (std::set::insert).          *)
LEMMA InsertIntoPool ==
    ASSUME NEW pool, pool \subseteq Transactions, IsPool(pool),
           NEW t \in Transactions
    PROVE  /\ Insert(pool, t) \subseteq Transactions
           /\ IsPool(Insert(pool, t))
           /\ pool \subseteq Insert(pool, t)
           /\ Holds(Insert(pool, t), t)
           /\ Insert(pool, t) \subseteq pool \cup {t}
<1>2. CASE Holds(pool, t)
  BY <1>2 DEF Insert
<1>3. CASE ~Holds(pool, t)
  <2>1. Insert(pool, t) = pool \cup {t}
    BY <1>3 DEF Insert
  <2>2. Equivalent(t, t)
    BY TransactionAssumption, NaNAssumption DEF Equivalent, Less, Below
  <2>3. \A s \in pool : ~Equivalent(s, t) /\ ~Equivalent(t, s)
    BY <1>3 DEF Holds, Equivalent
  <2>4. IsPool(pool \cup {t})
    BY <2>3 DEF IsPool
  <2> QED BY <2>1, <2>2, <2>4 DEF Holds
<1> QED BY <1>2, <1>3

(* Erasing keeps a pool a pool.                                            *)
LEMMA EraseFromPool ==
    ASSUME NEW pool, pool \subseteq Transactions, IsPool(pool), NEW gone
    PROVE  /\ EraseAll(pool, gone) \subseteq pool
           /\ IsPool(EraseAll(pool, gone))
BY DEF EraseAll, IsPool

(* Equivalent numbers are equal.                                           *)
LEMMA EquivalentNumbers ==
    ASSUME NEW s, NEW t, s.amount \in Int, t.amount \in Int
    PROVE  Equivalent(s, t) <=> s.amount = t.amount
BY NaNAssumption DEF Equivalent, Less, Below

(* A pool that is not empty has a first element.                           *)
HasFirst(pool) == pool = {} \/ \E a \in pool : \A s \in pool : ~Less(s, a)

LEMMA InsertKeepsFirst ==
    ASSUME NEW pool, \A s \in pool : s.amount \in Int, HasFirst(pool),
           NEW t, t.amount \in Int
    PROVE  HasFirst(Insert(pool, t))
<1>1. \A s, a \in pool \cup {t} : Less(s, a) <=> s.amount < a.amount
  BY NaNAssumption DEF Less, Below
<1>2. CASE Holds(pool, t)
  BY <1>2 DEF Insert
<1>3. CASE ~Holds(pool, t) /\ pool = {}
  BY <1>1, <1>3 DEF Insert, HasFirst
<1>4. CASE ~Holds(pool, t) /\ pool # {}
  <2>1. PICK a \in pool : \A s \in pool : ~(s.amount < a.amount)
    BY <1>1, <1>4 DEF HasFirst
  <2>2. Insert(pool, t) = pool \cup {t}
    BY <1>4 DEF Insert
  <2>3. CASE t.amount < a.amount
    <3>1. \A s \in pool \cup {t} : ~(s.amount < t.amount)
      BY <2>1, <2>3
    <3> QED BY <1>1, <2>2, <3>1 DEF HasFirst
  <2>4. CASE ~(t.amount < a.amount)
    <3>1. \A s \in pool \cup {t} : ~(s.amount < a.amount)
      BY <2>1, <2>4
    <3> QED BY <1>1, <2>2, <3>1 DEF HasFirst
  <2> QED BY <2>3, <2>4
<1> QED BY <1>2, <1>3, <1>4

---------------------------------------------------------------------------
(* The chain.                                                              *)

(* What may be appended to a chain c: a block of signed transactions that  *)
(* names the hash of a block of c and whose index is not beyond its place. *)
Fitting(c, e) ==
    /\ IsBlock(e)
    /\ SignedTxs(e.txs)
    /\ e.index <= Len(c) + 1
    /\ \E j \in 1..Len(c) : e.prevHash = c[j].currHash

ChainInv(c) ==
    /\ IsSequence(c)
    /\ c # <<>>
    /\ \A i \in 1..Len(c) : /\ IsBlock(c[i])
                            /\ SignedTxs(c[i].txs)
                            /\ c[i].index <= i
    /\ \A i \in 2..Len(c) : \E j \in 1..i-1 : c[i].prevHash = c[j].currHash

(* Both ways of adding a block, push_back and push_back after relinking,   *)
(* keep the chain well formed if the block fits it.                        *)
LEMMA AppendFitting ==
    ASSUME NEW c, ChainInv(c), NEW e, Fitting(c, e)
    PROVE  ChainInv(Append(c, e))
<1> DEFINE d == Append(c, e)
<1>1. /\ IsSequence(d) /\ d # <<>>
      /\ Len(c) \in Nat
      /\ Len(d) = Len(c) + 1
      /\ \A i \in 1..Len(c) : d[i] = c[i]
      /\ d[Len(c) + 1] = e
  BY AppendToSequence DEF ChainInv
<1>2. \A i \in 1..Len(d) :
          IsBlock(d[i]) /\ SignedTxs(d[i].txs) /\ d[i].index <= i
  <2> SUFFICES ASSUME NEW i \in 1..Len(d)
               PROVE  IsBlock(d[i]) /\ SignedTxs(d[i].txs) /\ d[i].index <= i
    OBVIOUS
  <2>1. CASE i \in 1..Len(c)
    BY <2>1, <1>1 DEF ChainInv
  <2>2. CASE i = Len(c) + 1
    BY <2>2, <1>1 DEF Fitting
  <2> QED BY <2>1, <2>2, <1>1
<1>3. \A i \in 2..Len(d) : \E j \in 1..i-1 : d[i].prevHash = d[j].currHash
  <2> SUFFICES ASSUME NEW i \in 2..Len(d)
               PROVE  \E j \in 1..i-1 : d[i].prevHash = d[j].currHash
    OBVIOUS
  <2>1. CASE i \in 2..Len(c)
    <3>1. PICK j \in 1..i-1 : c[i].prevHash = c[j].currHash
      BY <2>1 DEF ChainInv
    <3>2. i \in 1..Len(c) /\ j \in 1..Len(c)
      BY <2>1, <1>1
    <3>3. d[i] = c[i] /\ d[j] = c[j]
      BY <3>2, <1>1
    <3> QED BY <3>1, <3>3
  <2>2. CASE i = Len(c) + 1
    <3>1. PICK j \in 1..Len(c) : e.prevHash = c[j].currHash
      BY DEF Fitting
    <3>2. d[i] = e /\ d[j] = c[j] /\ j \in 1..i-1
      BY <2>2, <1>1
    <3> QED BY <3>1, <3>2
  <2> QED BY <2>1, <2>2, <1>1
<1> QED BY <1>1, <1>2, <1>3 DEF ChainInv

---------------------------------------------------------------------------
(* The inductive invariant.  The chain stays linked backwards because the  *)
(* block in flight is anchored; what is appended is signed because the     *)
(* pools are; InFlightBuffered is carried for the theorem about conflicts. *)
PoolsInv ==
    /\ pending \subseteq Transactions /\ IsPool(pending)
    /\ buffer \subseteq Transactions /\ IsPool(buffer)
    /\ newTxs \subseteq Transactions /\ IsPool(newTxs)
    /\ HasFirst(buffer)
    /\ \A t \in pending \cup buffer \cup newTxs : t.signed /\ t.amount \in Int

InFlightInv ==
    Waiting => /\ submitting = <<InFlight>>
               /\ IsBlock(InFlight)
               /\ SignedTxs(InFlight.txs)
               /\ Numbers(InFlight.txs)

ControlInv ==
    /\ maxTransactions \in MaxTransactions
    /\ process \in {"running", "ended"}

IInv == /\ ChainInv(chain)
        /\ PoolsInv
        /\ InFlightInv
        /\ ControlInv
        /\ InFlightAnchored
        /\ InFlightBuffered

(* The invariant says all the runs check, but for AnnouncedFunded.         *)
LEMMA IInvImplies ==
    IInv => /\ TypeOK
            /\ HashPointsBack
            /\ IndexNotAhead
            /\ InFlightAnchored
            /\ InFlightBuffered
            /\ OnlySigned
<1> SUFFICES ASSUME IInv
             PROVE  /\ TypeOK /\ HashPointsBack /\ IndexNotAhead
                    /\ InFlightAnchored /\ InFlightBuffered /\ OnlySigned
  OBVIOUS
<1>1. Len(chain) \in Nat /\ DOMAIN chain = 1..Len(chain)
  BY AppendToSequence DEF IInv, ChainInv
<1>2. TypeOK
  BY <1>1 DEF IInv, ChainInv, IsSequence, PoolsInv, InFlightInv, ControlInv, TypeOK
<1>3. HashPointsBack /\ IndexNotAhead
  BY DEF IInv, ChainInv, HashPointsBack, IndexNotAhead
<1>4. OnlySigned
  <2>1. \A t \in TransactionsIn(chain) : t.signed
    BY <1>1 DEF IInv, ChainInv, SignedTxs, TransactionsIn, TransactionsOf
  <2>2. \A t \in TransactionsIn(submitting) : t.signed
    <3>1. CASE Waiting
      <4>1. submitting = <<InFlight>> /\ SignedTxs(InFlight.txs)
        BY <3>1 DEF IInv, InFlightInv
      <4>2. \A i \in DOMAIN submitting : submitting[i] = InFlight
        BY <4>1
      <4> HIDE DEF InFlight
      <4> QED BY <4>1, <4>2 DEF SignedTxs, TransactionsIn, TransactionsOf
    <3>2. CASE ~Waiting
      BY <3>2 DEF Waiting, TransactionsIn
    <3> QED BY <3>1, <3>2
  <2>3. \A t \in pending \cup buffer \cup newTxs : t.signed
    BY DEF IInv, PoolsInv
  <2> QED BY <2>1, <2>2, <2>3 DEF OnlySigned
<1> QED BY <1>2, <1>3, <1>4 DEF IInv

(* A node starts in a state of the invariant.                              *)
LEMMA InitIInv == Init => IInv
<1> SUFFICES ASSUME Init PROVE IInv
  OBVIOUS
<1>1. ~Waiting
  BY DEF Init, Waiting
<1>2. PoolsInv /\ ControlInv /\ InFlightInv /\ InFlightAnchored
                            /\ InFlightBuffered
  <2>1. ControlInv
    BY DEF Init, ControlInv
  <2>2. PoolsInv
    BY StartAssumption DEF Init, PoolsInv, IsPool, HasFirst
  <2> QED BY <1>1, <2>1, <2>2 DEF InFlightInv, InFlightAnchored, InFlightBuffered
<1>3. ChainInv(chain)
  <2> DEFINE genesis(g) == <<CreateGenesisBlock(g)>>
             second(h, pair) == [index |-> 2, prevHash |-> h,
                                 currHash |-> h, txs |-> pair]
  <2>1. PICK g \in Junk, h \in Junk :
           \/ chain = genesis(g)
           \/ \E pair \in StartPairs : chain = AddBlock(genesis(g), second(h, pair))
    BY DEF Init, StartChain
  <2>2. ChainInv(genesis(g))
    <3>1. Len(genesis(g)) = 1 /\ genesis(g)[1] = CreateGenesisBlock(g)
                              /\ genesis(g) # <<>>
      OBVIOUS
    <3>2. IsSequence(genesis(g))
      BY DEF IsSequence, Range
    <3>3. /\ IsBlock(CreateGenesisBlock(g))
          /\ SignedTxs(CreateGenesisBlock(g).txs)
          /\ CreateGenesisBlock(g).index = 0
      BY DEF CreateGenesisBlock, IsBlock, SignedTxs
    <3> HIDE DEF genesis
    <3> QED BY <3>1, <3>2, <3>3 DEF ChainInv
  <2>3. ASSUME NEW pair \in StartPairs
        PROVE  Fitting(genesis(g), Relinked(genesis(g), second(h, pair)))
    <3> DEFINE r == Relinked(genesis(g), second(h, pair))
    <3>1. pair \in Seq(Transactions) /\ SignedTxs(pair)
      BY PairAssumption, StartAssumption DEF SignedTxs
    <3>2. Len(genesis(g)) = 1
      OBVIOUS
    <3> HIDE DEF genesis
    <3>3. /\ r.index = 2
          /\ r.txs = pair
          /\ r.prevHash = genesis(g)[Len(genesis(g))].currHash
      BY DEF Relinked, GetLastBlock
    <3> HIDE DEF r
    <3>4. IsBlock(r) /\ SignedTxs(r.txs) /\ r.index <= Len(genesis(g)) + 1
      BY <3>1, <3>2, <3>3 DEF IsBlock
    <3>5. \E j \in 1..Len(genesis(g)) : r.prevHash = genesis(g)[j].currHash
      BY <3>2, <3>3
    <3> QED BY <3>4, <3>5 DEF Fitting, r
  <2> HIDE DEF genesis, second
  <2> QED BY <2>1, <2>2, <2>3, AppendFitting DEF AddBlock
<1> QED BY <1>2, <1>3 DEF IInv

---------------------------------------------------------------------------
(* The steps.  Each lemma says what one kind of step does to the parts of  *)
(* the invariant it touches.                                               *)

(* A block that cmd_blocks takes fits the chain after AddBlock.            *)
LEMMA AcceptedFits ==
    ASSUME ChainInv(chain), NEW b \in WireBlock, AcceptBlock(b)
    PROVE  Fitting(chain, Relinked(chain, b))
<1>1. /\ Len(chain) \in 1..Len(chain)
      /\ IsBlock(chain[Len(chain)])
      /\ chain[Len(chain)].index <= Len(chain)
  <2>1. Len(chain) \in Nat /\ Len(chain) # 0
    BY AppendToSequence, SeqOfLengthZero DEF ChainInv, IsSequence
  <2> QED BY <2>1 DEF ChainInv
<1>2. /\ Relinked(chain, b).index = b.index
      /\ Relinked(chain, b).txs = b.txs
      /\ Relinked(chain, b).prevHash = chain[Len(chain)].currHash
  BY DEF WireBlock, GetLastBlock, Relinked
<1>3. b.index \in Nat /\ b.txs \in Seq(Transactions)
  BY PairAssumption, NumberAssumption DEF WireBlock
<1>4. SignedTxs(b.txs) /\ b.index = chain[Len(chain)].index + 1
  BY DEF AcceptBlock, SignedTxs, GetLastBlock
<1> QED BY <1>1, <1>2, <1>3, <1>4 DEF Fitting, IsBlock

(* The block in flight fits the chain as it is when the sleep ends.        *)
LEMMA InFlightFits ==
    ASSUME ChainInv(chain), InFlightInv, InFlightAnchored, Waiting
    PROVE  Fitting(chain, InFlight)
<1>1. Len(chain) \in Nat
  BY AppendToSequence DEF ChainInv
<1>2. /\ InFlight.index \in 2..Len(chain) + 1
      /\ InFlight.prevHash = chain[InFlight.index - 1].currHash
  BY DEF InFlightAnchored
<1>3. InFlight.index - 1 \in 1..Len(chain) /\ InFlight.index <= Len(chain) + 1
  BY <1>1, <1>2
<1> QED BY <1>2, <1>3 DEF Fitting, InFlightInv

(* A longer chain keeps the block in flight anchored.                      *)
LEMMA AnchorSurvivesAppend ==
    ASSUME ChainInv(chain), InFlightAnchored, NEW e, chain' = Append(chain, e),
           submitting' = submitting
    PROVE  InFlightAnchored'
<1>1. /\ Len(chain) \in Nat /\ Len(chain') = Len(chain) + 1
      /\ \A i \in 1..Len(chain) : chain'[i] = chain[i]
  BY AppendToSequence DEF ChainInv
<1>2. Waiting' = Waiting /\ InFlight' = InFlight
  BY DEF Waiting, InFlight
<1>3. CASE Waiting
  <2>1. /\ InFlight.index \in 2..Len(chain) + 1
        /\ InFlight.prevHash = chain[InFlight.index - 1].currHash
    BY <1>3 DEF InFlightAnchored
  <2>2. InFlight.index - 1 \in 1..Len(chain)
    BY <1>1, <2>1
  <2> QED BY <1>1, <1>2, <2>1, <2>2 DEF InFlightAnchored
<1>4. CASE ~Waiting
  BY <1>2, <1>4 DEF InFlightAnchored
<1> QED BY <1>3, <1>4

(* A new block is anchored and, its transactions being the copies of one   *)
(* pending transaction, signed.                                            *)
LEMMA NewBlockInFlight ==
    ASSUME ChainInv(chain), chain' = chain,
           NEW h, NEW txs \in Seq(Transactions), SignedTxs(txs), Numbers(txs),
           submitting' = <<NewBlock(h, txs)>>
    PROVE  /\ InFlightInv'
           /\ InFlightAnchored'
           /\ Waiting'
           /\ InFlight'.txs = txs
<1>1. Len(chain) \in Nat /\ Len(chain) # 0
  BY AppendToSequence, SeqOfLengthZero DEF ChainInv, IsSequence
<1> DEFINE b == NewBlock(h, txs)
<1>2. /\ b.index = Len(chain) + 1
      /\ b.prevHash = chain[Len(chain)].currHash
      /\ b.txs = txs
  BY DEF NewBlock, GetChainLength, GetLastBlock
<1> HIDE DEF b
<1>3. submitting' = <<b>> /\ submitting'[1] = b /\ submitting' # <<>>
  BY DEF b
<1>4. InFlight' = b /\ Waiting'
  BY <1>3 DEF InFlight, Waiting
<1>5. InFlightInv'
  BY <1>1, <1>2, <1>3, <1>4 DEF InFlightInv, IsBlock
<1>6. InFlightAnchored'
  BY <1>1, <1>2, <1>4 DEF InFlightAnchored
<1> QED BY <1>2, <1>4, <1>5, <1>6

(* Inserting a signed transaction keeps a pool, its signatures and numbers.*)
LEMMA InsertSigned ==
    ASSUME NEW pool, pool \subseteq Transactions, IsPool(pool),
           \A s \in pool : s.signed /\ s.amount \in Int,
           NEW t \in Transactions, t.signed, t.amount \in Int
    PROVE  /\ Insert(pool, t) \subseteq Transactions
           /\ IsPool(Insert(pool, t))
           /\ \A s \in Insert(pool, t) : s.signed /\ s.amount \in Int
BY InsertIntoPool

(* Every step keeps the invariant.                                         *)
LEMMA StepIInv == IInv /\ [Next]_vars => IInv'
<1> SUFFICES ASSUME IInv, [Next]_vars PROVE IInv'
  OBVIOUS
<1> USE DEF IInv
<1>1. ASSUME NEW t \in Transactions, AddTransaction(t) PROVE IInv'
  <2>1. PoolsInv'
    <3>1. t.signed /\ t.amount \in Int
      BY <1>1, TransactionAssumption DEF AddTransaction, Below
    <3> QED BY <1>1, <3>1, InsertSigned DEF AddTransaction, PoolsInv
  <2>2. UNCHANGED <<chain, submitting, buffer, maxTransactions, process>>
    BY <1>1 DEF AddTransaction
  <2> QED BY <2>1, <2>2 DEF InFlightInv, ControlInv, InFlightAnchored,
                            InFlightBuffered, Waiting, InFlight
<1>2. ASSUME NEW b \in WireBlock, AcceptBlock(b) PROVE IInv'
  <2>1. UNCHANGED <<pending, buffer, newTxs, maxTransactions, submitting, process>>
    BY <1>2 DEF AcceptBlock
  <2>2. chain' = Append(chain, Relinked(chain, b))
    BY <1>2 DEF AcceptBlock, AddBlock
  <2>3. ChainInv(chain')
    BY <1>2, <2>2, AcceptedFits, AppendFitting
  <2>4. InFlightAnchored'
    BY <2>1, <2>2, AnchorSurvivesAppend
  <2> QED BY <2>1, <2>3, <2>4 DEF PoolsInv, InFlightInv, ControlInv,
                                  InFlightBuffered, Waiting, InFlight
<1>3. ASSUME ServingEnds PROVE IInv'
  <2>1. process' = "ended" /\
        UNCHANGED <<chain, pending, buffer, newTxs, maxTransactions, submitting>>
    BY <1>3 DEF ServingEnds
  <2> QED BY <2>1 DEF PoolsInv, InFlightInv, ControlInv, InFlightAnchored,
                      InFlightBuffered, Waiting, InFlight
<1>4. ASSUME CreateEmptyBlock PROVE IInv'
  <2>1. PICK h \in Leftover : submitting' = <<NewBlock(h, <<>>)>>
    BY <1>4 DEF CreateEmptyBlock
  <2>2. UNCHANGED <<chain, pending, buffer, newTxs, maxTransactions, process>>
    BY <1>4 DEF CreateEmptyBlock
  <2>3. <<>> \in Seq(Transactions) /\ SignedTxs(<<>>) /\ Numbers(<<>>)
    BY EmptySeq DEF SignedTxs, Numbers
  <2>4. InFlightInv' /\ InFlightAnchored' /\ InFlight'.txs = <<>>
    BY <2>1, <2>2, <2>3, NewBlockInFlight
  <2>5. InFlightBuffered'
    BY <2>4 DEF InFlightBuffered, TransactionsOf
  <2> QED BY <2>2, <2>4, <2>5 DEF PoolsInv, ControlInv
<1>5. ASSUME NEW t \in Transactions, CreateFullBlock(t) PROVE IInv'
  <2>1. PICK h \in Leftover : submitting' = <<NewBlock(h, Copies(t))>>
    BY <1>5 DEF CreateFullBlock
  <2>2. UNCHANGED <<chain, pending, newTxs, maxTransactions, process>>
    BY <1>5 DEF CreateFullBlock
  <2>3. t \in pending /\ t.signed /\ t.amount \in Int /\ maxTransactions \in Nat
    BY <1>5, NumberAssumption
    DEF CreateFullBlock, PoolsInv, EnoughPending, ControlInv
  <2>4. Copies(t) \in Seq(Transactions) /\ SignedTxs(Copies(t)) /\ Numbers(Copies(t))
    BY <2>3 DEF Copies, SignedTxs, Numbers
  <2>5. InFlightInv' /\ InFlightAnchored' /\ InFlight'.txs = Copies(t)
    BY <2>1, <2>2, <2>4, NewBlockInFlight
  <2>6. PoolsInv'
    <3>1. buffer' = buffer \/ buffer' = Insert(buffer, t)
      BY <1>5 DEF CreateFullBlock
    <3>2. HasFirst(buffer')
      BY <2>3, <3>1, InsertKeepsFirst DEF PoolsInv
    <3> QED BY <2>2, <2>3, <3>1, <3>2, InsertSigned DEF PoolsInv
  <2>7. InFlightBuffered'
    <3>1. ASSUME NEW u \in TransactionsOf(InFlight') PROVE Holds(buffer', u)
      <4>1. u = t /\ maxTransactions # 0
        BY <3>1, <2>3, <2>5 DEF TransactionsOf, Copies
      <4>2. buffer' = Insert(buffer, t)
        BY <1>5, <4>1 DEF CreateFullBlock
      <4> QED BY <4>1, <4>2, InsertIntoPool DEF PoolsInv
    <3> QED BY <3>1 DEF InFlightBuffered
  <2> QED BY <2>2, <2>5, <2>6, <2>7 DEF ControlInv
<1>6. ASSUME CreateTraps \/ \E t \in Transactions : CreateAborts(t) PROVE IInv'
  <2>1. process' = "ended" /\
        UNCHANGED <<chain, pending, buffer, newTxs, maxTransactions, submitting>>
    BY <1>6 DEF CreateTraps, CreateAborts
  <2> QED BY <2>1 DEF PoolsInv, InFlightInv, ControlInv, InFlightAnchored,
                      InFlightBuffered, Waiting, InFlight
<1>7. ASSUME SubmitAppends PROVE IInv'
  <2>1. /\ Waiting
        /\ chain' = Append(chain, InFlight)
        /\ newTxs' = {}
        /\ submitting' = <<>>
        /\ UNCHANGED <<pending, buffer, maxTransactions, process>>
    BY <1>7 DEF SubmitAppends, SimpleAddBlock
  <2>2. ChainInv(chain')
    BY <2>1, InFlightFits, AppendFitting
  <2>3. ~Waiting' /\ PoolsInv'
    BY <2>1 DEF Waiting, PoolsInv, IsPool
  <2> QED BY <2>1, <2>2, <2>3 DEF InFlightInv, ControlInv, InFlightAnchored,
                                  InFlightBuffered
<1>8. ASSUME SubmitRefuses PROVE IInv'
  <2>1. /\ pending' = EraseAll(pending, Conflicts(InFlight))
        /\ newTxs' = {}
        /\ submitting' = <<>>
        /\ UNCHANGED <<chain, buffer, maxTransactions, process>>
    BY <1>8 DEF SubmitRefuses
  <2>2. ~Waiting'
    BY <2>1 DEF Waiting
  <2>3. PoolsInv'
    <3>1. pending' \subseteq pending /\ IsPool(pending')
      BY <2>1, EraseFromPool DEF PoolsInv
    <3> QED BY <2>1, <3>1 DEF PoolsInv, IsPool
  <2> QED BY <2>1, <2>2, <2>3 DEF InFlightInv, ControlInv, InFlightAnchored,
                                  InFlightBuffered
<1>9. CASE UNCHANGED vars
  BY <1>9 DEF vars, PoolsInv, InFlightInv, ControlInv, InFlightAnchored,
              InFlightBuffered, Waiting, InFlight
<1> QED
  BY <1>1, <1>2, <1>3, <1>4, <1>5, <1>6, <1>7, <1>8, <1>9
  DEF Next, Serve, Build, CreateBlock, SubmitBlock

(* The invariant holds of every state of every behaviour of a node.        *)
THEOREM InvariantHolds == Spec => []IInv
BY InitIInv, StepIInv, PTL DEF Spec

(* Types, and pools that hold one transaction per amount.                  *)
THEOREM TypeCorrect == Spec => []TypeOK
BY InvariantHolds, IInvImplies, PTL

(* Every block names the hash of a block before it and has an index that   *)
(* is not beyond its place, in whatever order the builder and the peers    *)
(* append.                                                                 *)
THEOREM ChainHangsTogether == Spec => [](HashPointsBack /\ IndexNotAhead)
BY InvariantHolds, IInvImplies, PTL

(* The block in flight stays anchored and buffered while the chain grows.  *)
THEOREM FlightIsAnchored == Spec => [](InFlightAnchored /\ InFlightBuffered)
BY InvariantHolds, IInvImplies, PTL

(* No unsigned transaction gets in anywhere.                               *)
THEOREM SignaturesHold == Spec => []OnlySigned
BY InvariantHolds, IInvImplies, PTL

(* A block that is built or appended late never has an index beyond its    *)
(* place, and the block in flight is covered by buffer.                    *)
THEOREM IndicesStayBehind == Spec => []IndexNotAhead
BY InvariantHolds, IInvImplies, PTL

THEOREM FlightIsBuffered == Spec => []InFlightBuffered
BY InvariantHolds, IInvImplies, PTL

(* Only a maxTransactions of zero, or one beyond what a block takes, lets  *)
(* the builder end the process: what it takes from the pool is signed.     *)
THEOREM BuilderKeepsRunning == Spec => BuilderSurvives
<1>1. ASSUME IInv, Build, maxTransactions # 0, maxTransactions <= SizeLimit + 1
      PROVE  process' = process
  <2>1. maxTransactions \in Int /\ SizeLimit \in Nat
    BY <1>1, NumberAssumption DEF IInv, ControlInv
  <2>2. ~CreateTraps
    BY <1>1, <2>1, FS_EmptySet DEF CreateTraps, EnoughPending
  <2>3. ASSUME NEW t \in Transactions PROVE ~CreateAborts(t)
    <3>1. t \in pending => t.signed
      BY <1>1 DEF IInv, PoolsInv
    <3> QED BY <1>1, <2>1, <3>1 DEF CreateAborts, Fits
  <2> QED BY <1>1, <2>2, <2>3
      DEF Build, CreateBlock, SubmitBlock, CreateEmptyBlock, CreateFullBlock,
          SubmitAppends, SubmitRefuses
<1>2. IInv /\ [Next]_vars =>
        [Build /\ maxTransactions # 0 /\ maxTransactions <= SizeLimit + 1
            => process' = process]_vars
  BY <1>1
<1> QED BY <1>2, InvariantHolds, PTL DEF Spec, BuilderSurvives

---------------------------------------------------------------------------
(* The conflict test.                                                      *)

(* A block that the builder appends shares no transaction, by amount, with *)
(* those announced or examined, although the code compares them with       *)
(* buffer and not with the block: each transaction of the block has an     *)
(* equivalent in buffer.  A NaN among those examined either stays out of   *)
(* the set or is alone in it, and then matches the first of buffer.        *)
THEOREM AppendedIsDisjoint == Spec => SubmittedDisjoint
<1>1. ASSUME IInv, SubmitAppends, NEW t \in TransactionsOf(InFlight),
             NEW s \in newTxs \cup TransactionsIn(Examined(InFlight)),
             s.amount = t.amount
      PROVE  FALSE
  <2> DEFINE arrived == Examined(InFlight)
             seen    == WithArrived(newTxs, arrived)
  <2>1. Waiting /\ Intersection(buffer, seen) = {}
    BY <1>1 DEF SubmitAppends, Conflicts
  <2>2. t.amount \in Int
    BY <1>1, <2>1 DEF IInv, InFlightInv, Numbers, TransactionsOf
  <2>3. PICK u \in buffer : Equivalent(u, t)
    BY <1>1, <2>1 DEF IInv, InFlightBuffered, Holds
  <2>4. u.amount \in Int /\ HasFirst(buffer) /\ \A x \in newTxs : x.amount \in Int
    BY <1>1 DEF IInv, PoolsInv
  <2>5. ~\E b \in seen : b.amount = NaN
    BY <2>1, <2>3, <2>4 DEF Intersection, HasFirst
  <2>6. s \in seen
    <3>1. seen = newTxs \cup {x \in TransactionsIn(arrived) : x.amount # NaN}
      BY <2>5 DEF WithArrived
    <3> QED BY <1>1, <2>2, <3>1, NaNAssumption
  <2>7. Equivalent(s, u)
    <3>1. u.amount = t.amount
      BY <2>2, <2>3, <2>4, EquivalentNumbers
    <3> QED BY <1>1, <2>2, <3>1, EquivalentNumbers
  <2>8. u \in Intersection(buffer, seen)
    BY <2>3, <2>5, <2>6, <2>7 DEF Intersection, Holds
  <2> QED BY <2>1, <2>8
<1>2. IInv /\ [Next]_vars =>
        [SubmitAppends =>
            \A t \in TransactionsOf(InFlight) :
                \A s \in newTxs \cup TransactionsIn(Examined(InFlight)) :
                    s.amount # t.amount]_vars
  BY <1>1
<1> QED BY <1>2, InvariantHolds, PTL DEF Spec, SubmittedDisjoint

---------------------------------------------------------------------------
(* Balances.                                                               *)

Number == Int \cup {NaN}

(* Numbers add up to a number, and others to NaN.                          *)
LEMMA PlusIsNumber ==
    /\ \A v, w \in Number : Plus(v, w) \in Number
    /\ \A v, w \in Int : Plus(v, w) = v + w /\ Plus(v, w) \in Int
    /\ \A v, w \in Nat : Plus(v, w) \in Nat
BY NaNAssumption DEF Number, Plus

(* The function inside a fold that adds up the numbers g[1] to g[L].       *)
Sums(f, L, g) ==
    f = [s \in SUBSET (1..L) |->
            IF s = {} THEN 0 ELSE Plus(f[s \ {Max(s)}], g[Max(s)])]

LEMMA MaxOfPlaces ==
    ASSUME NEW L \in Nat, NEW s \in SUBSET (1..L), s # {}
    PROVE  /\ Max(s) \in s /\ Max(s) \in 1..L /\ \A m \in s : m <= Max(s)
           /\ s \ {Max(s)} \in SUBSET (1..L)
<1>1. s \in SUBSET (0..L)
  OBVIOUS
<1>2. \E n \in s : \A m \in s : m <= n
  BY <1>1, GreatestUpTo
<1>3. \E n \in s : \A m \in s : n >= m
  BY <1>1, <1>2
<1>4. Max(s) \in s /\ \A m \in s : Max(s) >= m
  BY <1>3 DEF Max
<1> QED BY <1>1, <1>4

LEMMA SumExists ==
    ASSUME NEW L \in Nat, NEW g, \A k \in 1..L : g[k] \in Number
    PROVE  \E f : Sums(f, L, g)
<1> DEFINE D    == 1..L
           pick == [s \in SUBSET D |-> Max(s)]
           step == [k \in D |-> [v \in Number |-> Plus(v, g[k])]]
<1>1. IsFiniteSet(D) /\ 0 \in Number
  BY FS_Interval DEF Number
<1>2. step \in [D -> [Number -> Number]]
  BY PlusIsNumber
<1>3. \A s \in SUBSET D : s # {} => pick[s] \in s
  BY MaxOfPlaces
<1>4. /\ \A s \in SUBSET D : pick[s] = Max(s)
      /\ \A k \in D, v \in Number : step[k][v] = Plus(v, g[k])
  OBVIOUS
<1> HIDE DEF D, pick, step
<1>5. PICK f : Collects(f, D, Number, 0, pick, step)
  BY <1>1, <1>2, <1>3, FoldExists
<1>6. f \in [SUBSET D -> Number]
  BY <1>5 DEF Collects
<1>7. ASSUME NEW s \in SUBSET D
      PROVE  f[s] = IF s = {} THEN 0 ELSE Plus(f[s \ {Max(s)}], g[Max(s)])
  <2>1. CASE s = {}
    BY <1>5, <2>1 DEF Collects
  <2>2. CASE s # {}
    <3>1. Max(s) \in D /\ s \ {Max(s)} \in SUBSET D
      BY <2>2, MaxOfPlaces DEF D
    <3>2. f[s \ {Max(s)}] \in Number
      BY <1>6, <3>1
    <3>3. f[s] = step[pick[s]][f[s \ {pick[s]}]] /\ pick[s] = Max(s)
      BY <1>4, <1>5, <2>2 DEF Collects
    <3>4. f[s] = step[Max(s)][f[s \ {Max(s)}]]
      BY <3>3, Zenon
    <3> QED BY <1>4, <2>2, <3>1, <3>2, <3>4
  <2> QED BY <2>1, <2>2
<1> QED BY <1>6, <1>7 DEF Sums, D

LEMMA SumTotals ==
    ASSUME NEW L \in Nat, NEW g, NEW f, Sums(f, L, g)
    PROVE  f[{}] = 0 /\ \A j \in 1..L : f[1..j] = Plus(f[1..j - 1], g[j])
<1>1. ASSUME NEW s \in SUBSET (1..L)
      PROVE  f[s] = IF s = {} THEN 0 ELSE Plus(f[s \ {Max(s)}], g[Max(s)])
  BY Zenon DEF Sums
<1>2. f[{}] = 0
  BY <1>1
<1>3. ASSUME NEW j \in 1..L PROVE f[1..j] = Plus(f[1..j - 1], g[j])
  <2> DEFINE s == 1..j
  <2>1. s \in SUBSET (1..L) /\ s # {} /\ j \in s
    <3>1. j \in s /\ \A k \in s : k \in 1..L
      OBVIOUS
    <3> QED BY <3>1
  <2>2. Max(s) = j
    <3>1. Max(s) \in s /\ j <= Max(s)
      BY <2>1, MaxOfPlaces
    <3> QED BY <3>1
  <2>3. s \ {j} = 1..j - 1
    OBVIOUS
  <2>4. f[s] = Plus(f[s \ {Max(s)}], g[Max(s)])
    <3> HIDE DEF s
    <3> QED BY <1>1, <2>1
  <2> QED BY <2>2, <2>3, <2>4
<1> QED BY <1>2, <1>3

(* The definitions of Received and Balance, as such sums.                  *)
LEMMA ReceivedIsSum ==
    ASSUME NEW txs \in Seq(Transactions), NEW a
    PROVE  LET g == [k \in 1..Len(txs) |-> IF txs[k].receiver = a THEN txs[k].amount ELSE 0]
           IN  \E f : Sums(f, Len(txs), g) /\ Received(a, txs) = f[1..Len(txs)]
<1> DEFINE L    == Len(txs)
           D    == 1..L
           g    == [k \in 1..L |-> IF txs[k].receiver = a THEN txs[k].amount ELSE 0]
           Is(f) == f = [s \in SUBSET (DOMAIN txs) |->
                           IF s = {} THEN 0
                           ELSE Plus(f[s \ {Max(s)}],
                                     IF txs[Max(s)].receiver = a THEN txs[Max(s)].amount ELSE 0)]
           iter == CHOOSE f : Is(f)
<1>1. Received(a, txs) = iter[DOMAIN txs]
  BY Zenon DEF Received, FoldLeft, MapThenFoldSet
<1>2. L \in Nat /\ DOMAIN txs = 1..L /\ \A k \in 1..L : g[k] \in Number
  BY TransactionAssumption DEF Number
<1>3. ASSUME NEW f PROVE Is(f) <=> Sums(f, L, g)
  <2>1. \A s \in SUBSET (1..L) : s # {} =>
           g[Max(s)] = IF txs[Max(s)].receiver = a THEN txs[Max(s)].amount ELSE 0
    BY <1>2, MaxOfPlaces
  <2> HIDE DEF g
  <2> QED BY <1>2, <2>1 DEF Sums
<1>4. \E f : Is(f)
  <2> HIDE DEF Is, g
  <2> QED BY <1>2, <1>3, SumExists
<1>5. Is(iter)
  BY <1>4
<1> HIDE DEF iter, Is, g
<1>6. Sums(iter, L, g) /\ Received(a, txs) = iter[1..L]
  BY <1>1, <1>2, <1>3, <1>5
<1> QED BY <1>6 DEF g

LEMMA BalanceIsSum ==
    ASSUME NEW c, NEW L \in Nat, DOMAIN c = 1..L, NEW a,
           NEW g, \A k \in 1..L : g[k] \in Number /\ g[k] = Received(a, c[k].txs)
    PROVE  \E f : Sums(f, L, g) /\ Balance(c, a) = f[1..L]
<1> DEFINE Is(f) == f = [s \in SUBSET (DOMAIN c) |->
                           IF s = {} THEN 0
                           ELSE Plus(f[s \ {Max(s)}], Received(a, c[Max(s)].txs))]
           iter == CHOOSE f : Is(f)
<1>1. Balance(c, a) = iter[DOMAIN c]
  BY Zenon DEF Balance, FoldLeft, MapThenFoldSet
<1>3. ASSUME NEW f PROVE Is(f) <=> Sums(f, L, g)
  <2>1. \A s \in SUBSET (1..L) : s # {} => g[Max(s)] = Received(a, c[Max(s)].txs)
    BY MaxOfPlaces
  <2> QED BY <2>1 DEF Sums
<1>4. \E f : Is(f)
  <2> HIDE DEF Is
  <2> QED BY <1>3, SumExists
<1>5. Is(iter)
  BY <1>4
<1> HIDE DEF iter, Is
<1>6. Sums(iter, L, g) /\ Balance(c, a) = iter[1..L]
  BY <1>1, <1>3, <1>5
<1> QED BY <1>6

(* None of the transactions pays the address a NaN.                        *)
PaysNumbers(a, txs) ==
    \A i \in DOMAIN txs : txs[i].receiver = a => txs[i].amount # NaN

(* What an address receives is a number if it is paid numbers, and no debt *)
(* when no amount is.                                                      *)
LEMMA ReceivedIsNumber ==
    ASSUME NEW txs \in Seq(Transactions), NEW a
    PROVE  /\ Received(a, txs) \in Number
           /\ PaysNumbers(a, txs) => Received(a, txs) \in Int
           /\ PaysNumbers(a, txs)
                /\ (\A i \in DOMAIN txs : txs[i].amount = NaN \/ txs[i].amount >= 0)
              => Received(a, txs) \in Nat
<1> DEFINE L == Len(txs)
           g == [k \in 1..L |-> IF txs[k].receiver = a THEN txs[k].amount ELSE 0]
           Good == PaysNumbers(a, txs)
           NoDebts == \A i \in DOMAIN txs : txs[i].amount = NaN \/ txs[i].amount >= 0
<1>1. /\ L \in Nat
      /\ \A k \in 1..L : g[k] \in Number
      /\ Good => \A k \in 1..L : g[k] \in Int
      /\ Good /\ NoDebts => \A k \in 1..L : g[k] \in Nat
  <2>1. L \in Nat /\ DOMAIN txs = 1..L
    OBVIOUS
  <2>2. ASSUME NEW k \in 1..L
        PROVE  /\ g[k] \in Number
               /\ Good => g[k] \in Int
               /\ Good /\ NoDebts => g[k] \in Nat
    <3>1. txs[k].amount \in Number
      BY <2>1, <2>2, TransactionAssumption DEF Number
    <3>2. g[k] = IF txs[k].receiver = a THEN txs[k].amount ELSE 0
      OBVIOUS
    <3>3. CASE txs[k].receiver = a
      <4>1. g[k] = txs[k].amount /\ (Good => g[k] # NaN)
        BY <2>1, <3>2, <3>3 DEF PaysNumbers
      <4>2. NoDebts => txs[k].amount = NaN \/ txs[k].amount >= 0
        BY <2>1
      <4> HIDE DEF g, Good, NoDebts
      <4> QED BY <3>1, <4>1, <4>2 DEF Number
    <3>4. CASE txs[k].receiver # a
      <4>1. g[k] = 0
        BY <3>2, <3>4
      <4> HIDE DEF g, Good, NoDebts
      <4> QED BY <4>1 DEF Number
    <3> QED BY <3>3, <3>4
  <2> HIDE DEF g, Good, NoDebts
  <2> QED BY <2>1, <2>2
<1>2. PICK f : Sums(f, L, g) /\ Received(a, txs) = f[1..L]
  BY ReceivedIsSum
<1> HIDE DEF L, g, Good, NoDebts
<1>3. f[{}] = 0 /\ \A j \in 1..L : f[1..j] = Plus(f[1..j - 1], g[j])
  BY <1>1, <1>2, SumTotals
<1> DEFINE Fine(v) == /\ v \in Number
                      /\ Good => v \in Int
                      /\ Good /\ NoDebts => v \in Nat
           T == {j \in 0..L : Fine(f[1..j])}
<1>4. 0 \in T
  <2>1. 1..0 = {}
    OBVIOUS
  <2> QED BY <1>1, <1>3, <2>1 DEF Number
<1>5. ASSUME NEW j \in 0..L - 1, j \in T PROVE j + 1 \in T
  <2>1. j + 1 \in 0..L /\ j + 1 \in 1..L /\ (j + 1) - 1 = j
    BY <1>1
  <2>2. f[1..j + 1] = Plus(f[1..j], g[j + 1])
    BY <1>3, <2>1
  <2>3. Fine(f[1..j]) /\ Fine(g[j + 1])
    BY <1>1, <1>5, <2>1
  <2>4. ASSUME NEW v, NEW w, Fine(v), Fine(w) PROVE Fine(Plus(v, w))
    <3>1. Plus(v, w) \in Number
      BY <2>4, PlusIsNumber
    <3>2. ASSUME Good PROVE Plus(v, w) \in Int
      <4>1. v \in Int /\ w \in Int
        BY <2>4, <3>2
      <4> QED BY <4>1, PlusIsNumber
    <3>3. ASSUME Good, NoDebts PROVE Plus(v, w) \in Nat
      <4>1. v \in Nat /\ w \in Nat
        BY <2>4, <3>3
      <4> QED BY <4>1, PlusIsNumber
    <3> QED BY <3>1, <3>2, <3>3
  <2>5. Fine(f[1..j + 1])
    <3> HIDE DEF Fine
    <3> QED BY <2>2, <2>3, <2>4
  <2> QED BY <2>1, <2>5
<1>6. 0..L \subseteq T
  <2> HIDE DEF T
  <2> QED BY <1>1, <1>4, <1>5, InductionUpTo
<1>7. Fine(f[1..L])
  BY <1>1, <1>6, L \in 0..L
<1> QED BY <1>2, <1>7 DEF Good, NoDebts

(* A block more adds what it pays; who is paid numbers has a number.       *)
LEMMA BalanceOfAppend ==
    ASSUME NEW c, IsSequence(c), \A k \in DOMAIN c : c[k].txs \in Seq(Transactions),
           NEW b, b.txs \in Seq(Transactions), NEW a
    PROVE  /\ (\A k \in DOMAIN c : PaysNumbers(a, c[k].txs)) => Balance(c, a) \in Int
           /\ Balance(Append(c, b), a) = Plus(Balance(c, a), Received(a, b.txs))
<1>0. PICK d : d = Append(c, b)
  OBVIOUS
<1>1. PICK L \in Nat : L = Len(c)
  BY AppendToSequence
<1>2. PICK M \in Nat : M = L + 1
  BY <1>1
<1>3. /\ DOMAIN c = 1..L /\ DOMAIN d = 1..M
      /\ \A k \in 1..L : d[k] = c[k]
      /\ d[M] = b
  BY <1>0, <1>1, <1>2, AppendToSequence DEF IsSequence
<1>4. PICK g : g = [k \in 1..L |-> Received(a, c[k].txs)]
  OBVIOUS
<1>5. PICK h : h = [k \in 1..M |-> Received(a, d[k].txs)]
  OBVIOUS
<1>6. /\ \A k \in 1..L : c[k].txs \in Seq(Transactions)
      /\ \A k \in 1..M : d[k].txs \in Seq(Transactions)
  <2>1. \A k \in 1..L : c[k].txs \in Seq(Transactions)
    BY <1>3
  <2>2. ASSUME NEW k \in 1..M PROVE d[k].txs \in Seq(Transactions)
    <3>1. k = M \/ k \in 1..L
      BY <1>2
    <3>2. CASE k = M
      BY <1>3, <3>2
    <3>3. CASE k \in 1..L
      <4>1. d[k] = c[k]
        BY <1>3, <3>3
      <4> QED BY <2>1, <3>3, <4>1
    <3> QED BY <3>1, <3>2, <3>3
  <2> QED BY <2>1, <2>2
<1>7. \A k \in 1..L : g[k] \in Number /\ g[k] = Received(a, c[k].txs)
  BY <1>4, <1>6, ReceivedIsNumber
<1>8. \A k \in 1..M : h[k] \in Number /\ h[k] = Received(a, d[k].txs)
  BY <1>5, <1>6, ReceivedIsNumber
<1>9. PICK f : Sums(f, L, g) /\ Balance(c, a) = f[1..L]
  BY ONLY <1>3, <1>7, BalanceIsSum
<1>10. PICK e : Sums(e, M, h) /\ Balance(d, a) = e[1..M]
  BY ONLY <1>3, <1>8, BalanceIsSum
<1>11. f[{}] = 0 /\ \A j \in 1..L : f[1..j] = Plus(f[1..j - 1], g[j])
  BY <1>9, SumTotals
<1>12. e[{}] = 0 /\ \A j \in 1..M : e[1..j] = Plus(e[1..j - 1], h[j])
  BY <1>10, SumTotals
<1>13. \A k \in 1..L : k \in 1..M /\ h[k] = g[k]
  BY <1>2, <1>3, <1>7, <1>8
<1> DEFINE Good == \A k \in 1..L : PaysNumbers(a, c[k].txs)
           T == {j \in 0..L : e[1..j] = f[1..j] /\ (Good => f[1..j] \in Int)}
<1>a. Good => \A k \in 1..L : g[k] \in Int
  BY <1>6, <1>7, ReceivedIsNumber
<1> HIDE DEF Good
<1>14. 0 \in T
  <2>1. 1..0 = {}
    OBVIOUS
  <2> QED BY <1>11, <1>12, <2>1
<1>15. ASSUME NEW j \in 0..L - 1, j \in T PROVE j + 1 \in T
  <2>1. j + 1 \in 0..L /\ j + 1 \in 1..L /\ (j + 1) - 1 = j
    OBVIOUS
  <2>2. f[1..j + 1] = Plus(f[1..j], g[j + 1]) /\ e[1..j + 1] = Plus(e[1..j], g[j + 1])
    BY <1>11, <1>12, <1>13, <2>1
  <2>3. ASSUME Good PROVE Plus(f[1..j], g[j + 1]) \in Int
    <3>1. f[1..j] \in Int /\ g[j + 1] \in Int
      BY <1>a, <1>15, <2>1, <2>3
    <3> QED BY <3>1, PlusIsNumber
  <2> QED BY <1>15, <2>1, <2>2, <2>3
<1>16. 0..L \subseteq T
  <2> HIDE DEF T
  <2> QED BY <1>14, <1>15, InductionUpTo
<1>17. e[1..L] = f[1..L] /\ (Good => f[1..L] \in Int)
  BY <1>16, L \in 0..L
<1>18. e[1..M] = Plus(e[1..L], h[M])
  <2>1. M \in 1..M /\ M - 1 = L
    BY <1>2
  <2> QED BY <1>12, <2>1
<1>19. h[M] = Received(a, b.txs)
  BY <1>2, <1>3, <1>8, M \in 1..M
<1> QED BY <1>0, <1>3, <1>9, <1>10, <1>17, <1>18, <1>19 DEF Good

(* What a chain has paid an address is not less after a block from a peer, *)
(* unless the address was paid a NaN.                                      *)
LEMMA AcceptedPays ==
    ASSUME IInv, NEW b \in WireBlock, AcceptBlock(b), NEW a, ~PaidNaN(a)'
    PROVE  /\ Balance(chain, a) \in Int /\ Balance(chain', a) \in Int
           /\ Balance(chain, a) <= Balance(chain', a)
           /\ ~PaidNaN(a)
<1> DEFINE r == Relinked(chain, b)
<1>1. chain' = Append(chain, r)
  BY DEF AcceptBlock, AddBlock
<1>2. /\ IsSequence(chain)
      /\ \A k \in DOMAIN chain : chain[k].txs \in Seq(Transactions)
      /\ \A k \in DOMAIN chain : k \in DOMAIN chain' /\ chain'[k] = chain[k]
      /\ \E k \in DOMAIN chain' : chain'[k] = r
  <2>1. ChainInv(chain)
    BY DEF IInv
  <2>2. IsSequence(chain) /\ \A k \in DOMAIN chain : chain[k].txs \in Seq(Transactions)
    BY <2>1, AppendToSequence DEF ChainInv, IsBlock
  <2>3. /\ Len(chain) \in Nat /\ DOMAIN chain = 1..Len(chain)
        /\ DOMAIN chain' = 1..Len(chain) + 1
        /\ \A k \in 1..Len(chain) : chain'[k] = chain[k]
        /\ chain'[Len(chain) + 1] = r
    BY <1>1, <2>2, AppendToSequence DEF IsSequence
  <2> HIDE DEF r
  <2> QED BY <2>2, <2>3
<1>3. r.txs = b.txs /\ b.txs \in WirePairs
  BY DEF Relinked, WireBlock
<1>4. /\ r.txs \in Seq(Transactions)
      /\ \A i \in DOMAIN r.txs : r.txs[i].amount = NaN \/ r.txs[i].amount >= 0
  BY <1>3, PairAssumption, UnsignedAssumption
<1> HIDE DEF r
<1>5. ASSUME NEW k \in DOMAIN chain', NEW i \in DOMAIN chain'[k].txs,
             chain'[k].txs[i].receiver = a, chain'[k].txs[i].amount = NaN
      PROVE  FALSE
  BY <1>5 DEF PaidNaN, TransactionsIn, TransactionsOf
<1>6. PaysNumbers(a, r.txs) /\ \A k \in DOMAIN chain : PaysNumbers(a, chain[k].txs)
  BY <1>2, <1>5 DEF PaysNumbers
<1>7. Received(a, r.txs) \in Nat
  BY <1>4, <1>6, ReceivedIsNumber
<1>8. /\ Balance(chain, a) \in Int
      /\ Balance(chain', a) = Plus(Balance(chain, a), Received(a, r.txs))
  BY <1>1, <1>2, <1>4, <1>6, BalanceOfAppend
<1>9. Balance(chain', a) = Balance(chain, a) + Received(a, r.txs)
  BY <1>7, <1>8, PlusIsNumber
<1>10. ~PaidNaN(a)
  BY <1>6 DEF PaidNaN, PaysNumbers, TransactionsIn, TransactionsOf
<1> QED BY <1>7, <1>8, <1>9, <1>10

(* A transaction that waits in newTxs stays paid for by the chain, unless  *)
(* its sender is paid a NaN: a block from a peer otherwise takes nothing   *)
(* from anybody, and when the builder appends one, which may do so if      *)
(* AddTransaction was called with a negative amount, newTxs is emptied     *)
(* (Node.cpp:56-58, 91-104, Connection.cpp:387).                           *)
THEOREM AnnouncedStayFunded == Spec => []AnnouncedFunded
<1>1. Init => AnnouncedFunded
  BY DEF Init, AnnouncedFunded
<1>2. IInv /\ AnnouncedFunded /\ [Next]_vars => AnnouncedFunded'
  <2> SUFFICES ASSUME IInv, AnnouncedFunded, [Next]_vars PROVE AnnouncedFunded'
    OBVIOUS
  <2>1. ASSUME NEW t \in Transactions, AddTransaction(t) PROVE AnnouncedFunded'
    <3>1. newTxs' \subseteq newTxs \cup {t} /\ chain' = chain
      BY <2>1, InsertIntoPool DEF AddTransaction, IInv, PoolsInv
    <3>2. Below(t.amount, Balance(chain, t.sender))
      BY <2>1 DEF AddTransaction
    <3> QED BY <3>1, <3>2 DEF AnnouncedFunded, PaidNaN
  <2>2. ASSUME NEW b \in WireBlock, AcceptBlock(b) PROVE AnnouncedFunded'
    <3>1. newTxs' = newTxs /\ \A t \in newTxs : t.amount \in Int
      BY <2>2 DEF AcceptBlock, IInv, PoolsInv
    <3>2. ASSUME NEW t \in newTxs, ~PaidNaN(t.sender)'
          PROVE  Below(t.amount, Balance(chain', t.sender))
      <4>1. PICK before \in Int, after \in Int :
               /\ before = Balance(chain, t.sender) /\ after = Balance(chain', t.sender)
               /\ before <= after /\ ~PaidNaN(t.sender)
        BY <2>2, <3>2, AcceptedPays
      <4>2. t.amount \in Int /\ Below(t.amount, before)
        BY <3>1, <4>1 DEF AnnouncedFunded
      <4> QED BY <4>1, <4>2, NaNAssumption DEF Below
    <3> QED BY <3>1, <3>2 DEF AnnouncedFunded
  <2>3. CASE SubmitAppends \/ SubmitRefuses
    BY <2>3 DEF SubmitAppends, SubmitRefuses, AnnouncedFunded
  <2>4. CASE newTxs' = newTxs /\ chain' = chain
    BY <2>4 DEF AnnouncedFunded, PaidNaN
  <2>5. \/ \E t \in Transactions : AddTransaction(t)
        \/ \E b \in WireBlock : AcceptBlock(b)
        \/ SubmitAppends \/ SubmitRefuses
        \/ newTxs' = newTxs /\ chain' = chain
    BY DEF Next, Serve, Build, CreateBlock, SubmitBlock, ServingEnds,
           CreateEmptyBlock, CreateFullBlock, CreateTraps, CreateAborts, vars
  <2> QED BY <2>1, <2>2, <2>3, <2>4, <2>5
<1> QED BY <1>1, <1>2, InvariantHolds, PTL DEF Spec

---------------------------------------------------------------------------
(* The append-only tree.                                                   *)

(* Appending to the chain appends to the sequence of parents: no earlier   *)
(* block changes its parent, and the new one hangs from a block that is    *)
(* there.                                                                  *)
LEMMA AppendGrowsTree ==
    ASSUME ChainInv(chain), NEW e, Fitting(chain, e), chain' = Append(chain, e)
    PROVE  Tree!Grow
<1> DEFINE n == Len(chain)
<1>1. /\ n \in Nat /\ n # 0 /\ Len(chain') = n + 1
      /\ \A i \in 1..n : chain'[i] = chain[i]
      /\ chain'[n + 1] = e
  BY AppendToSequence, SeqOfLengthZero DEF ChainInv, IsSequence
<1> HIDE DEF n
<1>2. ASSUME NEW i \in 1..n PROVE Parent(i)' = Parent(i)
  <2>1. \A j \in 1..i-1 : j \in 1..n
    BY <1>1
  <2>2. Anchors(i)' = Anchors(i)
    BY <1>1, <2>1 DEF Anchors
  <2> QED BY <2>2 DEF Parent
<1>3. ASSUME NEW i \in 1..n PROVE Parent(i) \in Nat
  <2>1. CASE i = 1
    BY <2>1 DEF Parent
  <2>2. CASE i # 1
    <3>1. i \in 2..n
      BY <1>1, <2>2
    <3>2. Anchors(i) # {} /\ Anchors(i) \subseteq Nat
      BY <3>1 DEF n, ChainInv, Anchors
    <3> QED BY <2>2, <3>2 DEF Parent
  <2> QED BY <2>1, <2>2
<1>k. PICK k \in Nat : k = n + 1
  BY <1>1
<1> DEFINE p == Parent(k)'
<1>4. p \in 1..n
  <2>1. PICK j \in 1..n : chain[j].currHash = e.prevHash
    BY DEF Fitting, n
  <2>2. Anchors(k)' = {i \in 1..k-1 : chain'[i].currHash = chain'[k].prevHash}
    BY DEF Anchors
  <2>3. j \in Anchors(k)' /\ Anchors(k)' \subseteq 1..n
    BY <1>1, <1>k, <2>1, <2>2
  <2>4. p = CHOOSE i \in Anchors(k)' : TRUE
    BY <1>1, <1>k DEF Parent
  <2> HIDE DEF p
  <2> QED BY <2>3, <2>4
<1> HIDE DEF p
<1>5. /\ Parents \in Seq(Nat)
      /\ Len(Parents) = n
      /\ \A i \in 1..n : Parents[i] = Parent(i)
  BY <1>1, <1>3 DEF Parents, n
<1>6. /\ Parents' \in Seq(Nat)
      /\ Len(Parents') = n + 1
      /\ \A i \in 1..n : Parents'[i] = Parent(i)
      /\ Parents'[n + 1] = p
  <2>1. Parents' = [i \in 1..n + 1 |-> Parent(i)']
    BY <1>1 DEF Parents
  <2>2. ASSUME NEW i \in 1..n + 1 PROVE Parent(i)' \in Nat
    <3>1. CASE i \in 1..n
      BY <3>1, <1>2, <1>3
    <3>2. CASE i = k
      BY <3>2, <1>1, <1>4 DEF p
    <3> QED BY <3>1, <3>2, <1>1, <1>k
  <2>3. Parents'[n + 1] = p
    BY <1>1, <1>k, <2>1 DEF p
  <2> HIDE DEF p
  <2> QED BY <1>1, <1>2, <2>1, <2>2, <2>3
<1>7. /\ Append(Parents, p) \in Seq(Nat)
      /\ Len(Append(Parents, p)) = n + 1
      /\ \A i \in 1..n : Append(Parents, p)[i] = Parent(i)
      /\ Append(Parents, p)[n + 1] = p
  <2>1. p \in Nat
    BY <1>1, <1>4
  <2> QED BY <1>5, <2>1, AppendProperties
<1>8. Parents' = Append(Parents, p)
  <2>1. \A i \in 1..n + 1 : Parents'[i] = Append(Parents, p)[i]
    BY <1>1, <1>6, <1>7
  <2> QED BY <1>6, <1>7, <2>1, SeqEqual
<1> QED BY <1>4, <1>5, <1>8 DEF Tree!Grow

(* The tree of a node that starts is one the abstract specification        *)
(* starts with.                                                            *)
LEMMA InitTree == Init => Tree!Init
<1> SUFFICES ASSUME Init PROVE Tree!Init
  OBVIOUS
<1>1. ChainInv(chain) /\ Len(chain) \in Nat
  BY InitIInv, AppendToSequence DEF IInv, ChainInv
<1>2. Len(chain) \in 1..2
  <2>1. PICK g \in Junk, h \in Junk :
           \/ chain = <<CreateGenesisBlock(g)>>
           \/ \E b : chain = Append(<<CreateGenesisBlock(g)>>, b)
    BY DEF Init, StartChain, AddBlock
  <2> QED BY <2>1
<1>3. Parent(1) = 0
  BY DEF Parent
<1>4. CASE Len(chain) = 1
  <2>1. Parents = [i \in 1..1 |-> Parent(i)]
    BY <1>4 DEF Parents
  <2>2. Parents = <<0>>
    BY <1>3, <2>1
  <2> QED BY <2>2 DEF Tree!Init
<1>5. CASE Len(chain) = 2
  <2>1. Parent(2) = 1
    <3>1. Anchors(2) # {} /\ Anchors(2) \subseteq {1}
      BY <1>1, <1>5 DEF ChainInv, Anchors
    <3>2. Parent(2) = CHOOSE j \in Anchors(2) : TRUE
      BY DEF Parent
    <3> QED BY <3>1, <3>2
  <2>2. Parents = [i \in 1..2 |-> Parent(i)]
    BY <1>5 DEF Parents
  <2>3. Parents = <<0, 1>>
    BY <1>3, <2>1, <2>2
  <2> QED BY <2>3 DEF Tree!Init
<1> QED BY <1>2, <1>4, <1>5

(* A node implements the append-only tree, for every set of transactions,  *)
(* whatever uninitialised hashes hold.                                     *)
THEOREM NodeImplementsTree == Spec => ImplementsTree
<1>1. IInv /\ [Next]_vars => [Tree!Grow]_Parents
  <2> SUFFICES ASSUME IInv, [Next]_vars PROVE Tree!Grow \/ Parents' = Parents
    OBVIOUS
  <2>1. ASSUME NEW b \in WireBlock, AcceptBlock(b) PROVE Tree!Grow
    BY <2>1, AcceptedFits, AppendGrowsTree DEF IInv, AcceptBlock, AddBlock
  <2>2. CASE SubmitAppends
    BY <2>2, InFlightFits, AppendGrowsTree DEF IInv, SubmitAppends, SimpleAddBlock
  <2>3. CASE chain' = chain
    BY <2>3 DEF Parents, Parent, Anchors
  <2>4. \/ \E b \in WireBlock : AcceptBlock(b)
        \/ SubmitAppends
        \/ chain' = chain
    BY DEF Next, Serve, Build, CreateBlock, SubmitBlock, AddTransaction,
           ServingEnds, CreateEmptyBlock, CreateFullBlock, CreateTraps,
           CreateAborts, SubmitRefuses, vars
  <2> QED BY <2>1, <2>2, <2>3, <2>4
<1> QED BY <1>1, InvariantHolds, InitTree, PTL DEF Spec, ImplementsTree, Tree!Spec
=============================================================================
