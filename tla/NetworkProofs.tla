--------------------------- MODULE NetworkProofs ---------------------------
(***************************************************************************)
(* Proofs about Connection and about Network, which puts a node's other    *)
(* threads beside it: for every number of nodes and consoles, every set of *)
(* transactions and every bound.                                           *)
(***************************************************************************)
EXTENDS Network, Facts

---------------------------------------------------------------------------
(* Connection, with nothing beside it.                                     *)

(* What is true of every node's chain.                                     *)
ChainOK(c) == IsSequence(c) /\ c # <<>> /\ Linked(c)

(* A block that names the last hash and the next index keeps a chain       *)
(* linked when AddBlock adds it.                                           *)
LEMMA AddBlockLinks ==
    ASSUME NEW c, ChainOK(c), NEW b, Fits(c, b)
    PROVE  ChainOK(AddBlock(c, b))
<1> DEFINE r == Relinked(c, b)
           d == Append(c, r)
<1>1. /\ IsSequence(d) /\ d # <<>>
      /\ Len(c) \in Nat
      /\ Len(d) = Len(c) + 1
      /\ \A i \in 1..Len(c) : d[i] = c[i]
      /\ d[Len(c) + 1] = r
  BY AppendToSequence DEF ChainOK
<1>2. Len(c) # 0
  BY SeqOfLengthZero DEF ChainOK, IsSequence
<1>3. /\ r.prevHash = c[Len(c)].currHash
      /\ r.index = c[Len(c)].index + 1
  BY DEF Fits, GetLastBlock, Relinked
<1> HIDE DEF r, d
<1>4. ASSUME NEW i \in 2..Len(d)
      PROVE  /\ d[i].prevHash = d[i-1].currHash
             /\ i > 2 => d[i].index = d[i-1].index + 1
  <2>1. CASE i \in 2..Len(c)
    <3>1. d[i] = c[i] /\ d[i-1] = c[i-1]
      BY <1>1, <2>1
    <3> QED BY <2>1, <3>1 DEF ChainOK, Linked
  <2>2. CASE i = Len(c) + 1
    <3>1. d[i] = r /\ d[i-1] = c[Len(c)]
      BY <1>1, <1>2, <2>2
    <3> QED BY <1>3, <3>1
  <2> QED BY <1>1, <2>1, <2>2
<1>5. Linked(d)
  BY <1>4 DEF Linked
<1> QED BY <1>1, <1>5 DEF ChainOK, AddBlock, d, r

(* Whatever command do_command is given, the chain afterwards is well      *)
(* formed (Connection.cpp:100-134).                                        *)
LEMMA CommandKeepsChain ==
    ASSUME NEW c, ChainOK(c), NEW m
    PROVE  ChainOK(DoCommand(c, m).chain)
<1>1. CASE ~Recognised(m)
  BY <1>1 DEF DoCommand, Outcome
<1>2. CASE Recognised(m) /\ m.cmd = "version"
  BY <1>2 DEF DoCommand, CmdVersion, Outcome, Death
<1>3. CASE Recognised(m) /\ m.cmd \in {"gethosts", "getrans"}
  BY <1>3 DEF DoCommand, Outcome
<1>4. CASE Recognised(m) /\ m.cmd = "getblocks"
  <2>1. DoCommand(c, m) = CmdGetBlocks(c, m)
    BY <1>4 DEF DoCommand
  <2>2. CmdGetBlocks(c, m).chain = c
    BY DEF CmdGetBlocks, Outcome, Death
  <2> QED BY <2>1, <2>2
<1>5. CASE Recognised(m) /\ m.cmd = "blocks"
  <2>1. DoCommand(c, m) = CmdBlocks(c, m)
    BY <1>5 DEF DoCommand
  <2>2. \/ CmdBlocks(c, m).chain = c
        \/ /\ Fits(c, m.blocks[1])
           /\ CmdBlocks(c, m).chain = AddBlock(c, m.blocks[1])
    BY DEF CmdBlocks, Outcome, Death
  <2> QED BY <2>1, <2>2, AddBlockLinks
<1> QED BY <1>1, <1>2, <1>3, <1>4, <1>5 DEF Recognised

ChainsInv == /\ DOMAIN chain = Nodes
             /\ \A n \in Nodes : ChainOK(chain[n])

(* A step that runs one command on one node keeps the chains well formed.  *)
LEMMA ExecuteKeepsChains ==
    ASSUME ChainsInv, NEW n \in Nodes, NEW m,
           chain' = [chain EXCEPT ![n] = DoCommand(chain[n], m).chain]
    PROVE  ChainsInv'
<1>1. ChainOK(DoCommand(chain[n], m).chain)
  BY CommandKeepsChain DEF ChainsInv
<1>2. \A k \in Nodes :
          chain'[k] = IF k = n THEN DoCommand(chain[n], m).chain ELSE chain[k]
  BY DEF ChainsInv
<1>3. DOMAIN chain' = Nodes
  BY DEF ChainsInv
<1>4. \A k \in Nodes : ChainOK(chain'[k])
  BY <1>1, <1>2 DEF ChainsInv
<1> QED BY <1>3, <1>4 DEF ChainsInv

LEMMA ChainsInductive ==
    /\ Init => ChainsInv
    /\ ChainsInv /\ [Next]_vars => ChainsInv'
<1>1. Init => ChainsInv
  BY ChainsAssumption DEF Init, ChainsInv, ChainOK, IsSequence
<1>2. ASSUME ChainsInv, [Next]_vars PROVE ChainsInv'
  <2>1. ASSUME NEW p \in Peers, NEW packet, ServerExecutes(p, packet) PROVE ChainsInv'
    BY <1>2, <2>1, ExecuteKeepsChains DEF ServerExecutes, Nodes
  <2>2. ASSUME NEW n \in ClientNodes, NEW packet, NodeExecutes(n, packet) PROVE ChainsInv'
    BY <1>2, <2>2, ExecuteKeepsChains DEF NodeExecutes, Nodes
  <2>3. CASE chain' = chain
    BY <1>2, <2>3 DEF ChainsInv
  <2>4. \/ \E p \in Peers : \E packet : ServerExecutes(p, packet)
        \/ \E n \in ClientNodes : \E packet : NodeExecutes(n, packet)
        \/ chain' = chain
    BY <1>2 DEF Next, ServerStep, NodeStep, Accept, ServerFindsPeerGone,
                ServerDies, ServerQuits, NodeConnects, NodeFindsServerGone, NodeLeaves,
                ConsoleConnects, ConsoleSends, ConsoleCloses, vars
  <2> QED BY <2>1, <2>2, <2>3, <2>4
<1> QED BY <1>1, <1>2

(* Without a builder every node's chain stays linked, however many peers   *)
(* send blocks and whenever they arrive.                                   *)
THEOREM ServedChainsLinked == Spec => []ServedChainLinked
<1>1. ChainsInv => ServedChainLinked
  BY DEF ChainsInv, ChainOK, ServedChainLinked
<1> QED BY <1>1, ChainsInductive, PTL DEF Spec

---------------------------------------------------------------------------
(* A conversation: what a console asked, what of it the server has not     *)
(* read, and what the console heard.                                       *)

(* The blocks are those of the chain c from one height to another.         *)
Between(c, start, blocks) ==
    /\ start \in Nat
    /\ \E last \in start..Len(c) :
          /\ Len(blocks) = last - start
          /\ blocks = SubSeq(c, start + 1, last)

(* The heights a request for blocks may be read with.                      *)
HeightsOf(request) ==
    {request.start} \cup (CutHeights(request.start) \ {NoNumber})

(* The blocks of an answer are the chain c from such a height to one that  *)
(* c had once.                                                             *)
Segment(c, request, reply) ==
    request.cmd = "getblocks" =>
        \E start \in HeightsOf(request) : Between(c, start, reply.blocks)

(* Each message behind the first answers one of the first "begun" requests,*)
(* a later message a later request.                                        *)
Explained(heard, requests, begun, c) ==
    \E f \in [2..Len(heard) -> 1..begun] :
        /\ \A i, j \in 2..Len(heard) : i < j => f[i] < f[j]
        /\ \A i \in 2..Len(heard) : /\ IsAnswer(requests[f[i]], heard[i])
                                    /\ Segment(c, requests[f[i]], heard[i])

(* How many requests the server has read, and with the one whose rest is   *)
(* still to come.                                                          *)
Taken(requests, unread) == Len(requests) - Len(unread)

Begun(requests, unread) ==
    Taken(requests, unread)
    + (IF Len(unread) > 0 /\ unread[1] = Scrap THEN 1 ELSE 0)

(* What the server has not read are the last requests, or rests of them;   *)
(* what was heard is a version and the answers to some of those it has     *)
(* begun to read.                                                          *)
Conversation(requests, unread, heard, c) ==
    /\ IsSequence(requests) /\ IsSequence(unread) /\ IsSequence(heard)
    /\ Len(unread) <= Len(requests)
    /\ \A j \in 1..Len(unread) :
          \/ unread[j] = requests[Taken(requests, unread) + j]
          \/ unread[j] = Scrap
    /\ heard # <<>> =>
          /\ heard[1].cmd = "version"
          /\ Explained(heard, requests, Begun(requests, unread), c)

(* Where a conversation stands.                                            *)
LEMMA CountsOf ==
    ASSUME NEW requests, NEW unread, IsSequence(requests), IsSequence(unread),
           Len(unread) <= Len(requests)
    PROVE  /\ Len(requests) \in Nat /\ Len(unread) \in Nat
           /\ Taken(requests, unread) \in Nat
           /\ Begun(requests, unread) \in Nat
           /\ Begun(requests, unread) \in
                  {Taken(requests, unread), Taken(requests, unread) + 1}
           /\ Begun(requests, unread) <= Len(requests)
<1>1. Len(requests) \in Nat /\ Len(unread) \in Nat
  BY AppendToSequence
<1> QED BY <1>1 DEF Taken, Begun

(* A segment of a chain stays one when the chain grows.                    *)
LEMMA SegmentSurvives ==
    ASSUME NEW c, IsSequence(c), NEW d, d = c \/ \E b : d = Append(c, b),
           NEW q, NEW r, Segment(c, q, r)
    PROVE  Segment(d, q, r)
<1>1. /\ Len(c) \in Nat /\ Len(d) \in Nat /\ Len(c) <= Len(d)
      /\ \A i \in 1..Len(c) : d[i] = c[i]
  <2>1. CASE d = c
    BY <2>1, AppendToSequence
  <2>2. ASSUME NEW b, d = Append(c, b)
        PROVE  /\ Len(c) \in Nat /\ Len(d) \in Nat /\ Len(c) <= Len(d)
               /\ \A i \in 1..Len(c) : d[i] = c[i]
    BY <2>2, AppendToSequence
  <2> QED BY <2>1, <2>2
<1> SUFFICES ASSUME NEW start, Between(c, start, r.blocks)
             PROVE  Between(d, start, r.blocks)
  BY DEF Segment
<1>2. PICK last \in start..Len(c) :
          /\ Len(r.blocks) = last - start
          /\ r.blocks = SubSeq(c, start + 1, last)
  BY DEF Between
<1>3. start \in Nat
  BY DEF Between
<1>4. SubSeq(d, start + 1, last) = SubSeq(c, start + 1, last)
  <2>1. last \in Nat /\ last <= Len(c)
    BY <1>1, <1>2, <1>3
  <2>2. start + 1 \in 1..Len(c) + 1 /\ start + 1 \in Int
    BY <1>1, <1>2, <1>3
  <2>3. \A i \in start + 1..last : d[i] = c[i]
    BY <1>1, <2>1, <2>2
  <2> QED BY <2>1, <2>2, <2>3, SameSubSeq
<1>5. last \in start..Len(d)
  BY <1>1, <1>2, <1>3
<1> QED BY <1>2, <1>3, <1>4, <1>5 DEF Between

LEMMA ExplainedSurvives ==
    ASSUME NEW c, IsSequence(c), NEW d, d = c \/ \E b : d = Append(c, b),
           NEW requests, NEW unread, NEW heard,
           Conversation(requests, unread, heard, c)
    PROVE  Conversation(requests, unread, heard, d)
<1> DEFINE begun == Begun(requests, unread)
<1>1. ASSUME heard # <<>> PROVE Explained(heard, requests, begun, d)
  <2>1. PICK f \in [2..Len(heard) -> 1..begun] :
          /\ \A i, j \in 2..Len(heard) : i < j => f[i] < f[j]
          /\ \A i \in 2..Len(heard) : /\ IsAnswer(requests[f[i]], heard[i])
                                      /\ Segment(c, requests[f[i]], heard[i])
    BY <1>1 DEF Conversation, Explained
  <2>2. \A i \in 2..Len(heard) : Segment(d, requests[f[i]], heard[i])
    BY <2>1, SegmentSurvives
  <2> QED BY <2>1, <2>2 DEF Explained
<1> QED BY <1>1 DEF Conversation

(* A request is sent.                                                      *)
LEMMA ConversationSends ==
    ASSUME NEW c, NEW requests, NEW unread, NEW heard, NEW m,
           Conversation(requests, unread, heard, c)
    PROVE  Conversation(Append(requests, m), Append(unread, m), heard, c)
<1> DEFINE more == Append(requests, m)
           left == Append(unread, m)
           begun == Begun(requests, unread)
           now == Begun(more, left)
<1>1. /\ IsSequence(more) /\ IsSequence(left)
      /\ Len(requests) \in Nat /\ Len(unread) \in Nat
      /\ Len(more) = Len(requests) + 1 /\ Len(left) = Len(unread) + 1
      /\ \A i \in 1..Len(requests) : more[i] = requests[i]
      /\ \A i \in 1..Len(unread) : left[i] = unread[i]
      /\ more[Len(requests) + 1] = m /\ left[Len(unread) + 1] = m
  BY AppendToSequence DEF Conversation
<1>2. /\ Taken(requests, unread) \in Nat /\ begun \in Nat
      /\ begun <= Len(requests)
  BY CountsOf DEF Conversation
<1> HIDE DEF more, left
<1>3. Taken(more, left) = Taken(requests, unread)
  BY <1>1 DEF Taken
<1>4. ASSUME NEW j \in 1..Len(left)
      PROVE  left[j] = more[Taken(more, left) + j] \/ left[j] = Scrap
  <2>1. CASE j \in 1..Len(unread)
    <3>1. Taken(requests, unread) + j \in 1..Len(requests)
      BY <1>1, <2>1 DEF Conversation, Taken
    <3>2. \/ unread[j] = requests[Taken(requests, unread) + j]
          \/ unread[j] = Scrap
      BY <2>1 DEF Conversation
    <3> QED BY <1>1, <1>3, <2>1, <3>1, <3>2
  <2>2. CASE j = Len(unread) + 1
    <3>1. Taken(more, left) + j = Len(requests) + 1
      BY <1>1, <1>3, <2>2 DEF Taken
    <3> QED BY <1>1, <2>2, <3>1
  <2> QED BY <1>1, <2>1, <2>2
<1>5. now \in Nat /\ begun <= now
  <2>1. Len(unread) > 0 => Len(left) > 0 /\ left[1] = unread[1]
    BY <1>1
  <2>2. Len(left) > 0
    BY <1>1
  <2> QED BY <1>2, <1>3, <2>1, <2>2 DEF Begun
<1>6. ASSUME heard # <<>> PROVE Explained(heard, more, now, c)
  <2>1. PICK f \in [2..Len(heard) -> 1..begun] :
          /\ \A i, j \in 2..Len(heard) : i < j => f[i] < f[j]
          /\ \A i \in 2..Len(heard) : /\ IsAnswer(requests[f[i]], heard[i])
                                      /\ Segment(c, requests[f[i]], heard[i])
    BY <1>6 DEF Conversation, Explained
  <2> HIDE DEF begun, now
  <2>2. ASSUME NEW i \in 2..Len(heard) PROVE more[f[i]] = requests[f[i]]
    <3>1. f[i] \in 1..begun
      BY <2>1
    <3>2. f[i] \in 1..Len(requests)
      BY <1>1, <1>2, <3>1
    <3> QED BY <1>1, <3>2
  <2>3. 1..begun \subseteq 1..now
    BY <1>2, <1>5
  <2>4. f \in [2..Len(heard) -> 1..now]
    BY <2>1, <2>3
  <2> QED BY <2>1, <2>2, <2>4 DEF Explained
<1>7. Len(left) <= Len(more)
  BY <1>1 DEF Conversation
<1>8. Conversation(more, left, heard, c)
  BY <1>1, <1>4, <1>6, <1>7 DEF Conversation
<1> QED BY <1>8 DEF more, left

(* What is left of the messages that had arrived, of which k have been     *)
(* read, or none but a part of the first.                                  *)
Leaves(unread, k, left) ==
    /\ IsSequence(left)
    /\ k \in 0..Len(unread)
    /\ Len(left) = Len(unread) - k
    /\ \A i \in 1..Len(left) : left[i] = unread[k + i] \/ left[i] = Scrap
    /\ k = 0 => Len(left) > 0 /\ left[1] = Scrap

(* A suffix starts after k and is as long as what is left, position by     *)
(* position: SuffixOfSequence with its suffix written out.                 *)
LEMMA SuffixFrom ==
    ASSUME NEW u, IsSequence(u), NEW k \in 0..Len(u)
    PROVE  /\ IsSequence(SubSeq(u, k + 1, Len(u)))
           /\ Len(SubSeq(u, k + 1, Len(u))) = Len(u) - k
           /\ \A i \in 1..Len(SubSeq(u, k + 1, Len(u))) :
                 SubSeq(u, k + 1, Len(u))[i] = u[k + i]
<1>1. PICK d : d = SubSeq(u, k + 1, Len(u))
  OBVIOUS
<1>2. /\ IsSequence(d)
      /\ Len(d) = Len(u) - k
      /\ \A i \in 1..Len(d) : d[i] = u[k + i]
  BY <1>1, SuffixOfSequence
<1>3. QED BY <1>1, <1>2

LEMMA PacketLeaves ==
    ASSUME NEW unread, IsSequence(unread), NEW packet \in Packets(unread)
    PROVE  /\ unread # <<>> /\ Len(unread) \in Nat \ {0}
           /\ packet.first = unread[1] \/ packet.first \in Torn(unread[1])
           /\ \E k \in 0..Len(unread) : Leaves(unread, k, packet.rest)
<1> DEFINE From(k) == SubSeq(unread, k + 1, Len(unread))
<1>1. Len(unread) \in Nat
  BY AppendToSequence
<1>2. ASSUME NEW k \in 1..Len(unread)
      PROVE  Leaves(unread, k, From(k)) /\ Leaves(unread, k - 1, <<Scrap>> \o From(k))
  <2>1. k \in 0..Len(unread) /\ k - 1 \in 0..Len(unread) /\ k \in Nat \ {0}
    BY <1>1
  <2>2. /\ IsSequence(From(k))
        /\ Len(From(k)) = Len(unread) - k
        /\ \A i \in 1..Len(From(k)) : From(k)[i] = unread[k + i]
    BY <2>1, SuffixFrom
  <2>3. IsSequence(<<Scrap>>) /\ Len(<<Scrap>>) = 1 /\ <<Scrap>>[1] = Scrap
    <3> DEFINE t == Scrap
    <3> HIDE DEF t
    <3>1. <<t>> \in Seq({t}) /\ Len(<<t>>) = 1 /\ <<t>>[1] = t
      OBVIOUS
    <3> QED BY <3>1, OfItsElements DEF t
  <2> HIDE DEF From
  <2> DEFINE left == <<Scrap>> \o From(k)
  <2>4. /\ IsSequence(left)
        /\ Len(left) = 1 + Len(From(k))
        /\ left[1] = Scrap
        /\ \A i \in 1..Len(From(k)) : left[1 + i] = From(k)[i]
    <3> DEFINE one == <<Scrap>>
               more == From(k)
    <3>1. Len(one) = 1 /\ one[1] = Scrap
      BY <2>3
    <3>2. IsSequence(one) /\ IsSequence(more) /\ left = one \o more
      BY <2>2, <2>3
    <3> HIDE DEF one, more, left
    <3>3. IsSequence(left) /\ Len(left) = Len(one) + Len(more)
      BY <3>2, ConcatSequences
    <3>4. ASSUME NEW i \in 1..Len(one) PROVE left[i] = one[i]
      BY <3>2, <3>4, ConcatSequences
    <3>5. ASSUME NEW i \in 1..Len(more) PROVE left[Len(one) + i] = more[i]
      BY <3>2, <3>5, ConcatSequences
    <3>6. 1 \in 1..Len(one)
      BY <3>1
    <3>7. /\ IsSequence(left)
          /\ Len(left) = 1 + Len(more)
          /\ left[1] = Scrap
          /\ \A i \in 1..Len(more) : left[1 + i] = more[i]
      BY <3>1, <3>3, <3>4, <3>5, <3>6
    <3> QED BY <3>7 DEF more
  <2> HIDE DEF left
  <2>5. Leaves(unread, k, From(k))
    BY <2>1, <2>2 DEF Leaves
  <2>6. Len(left) = Len(unread) - (k - 1) /\ Len(left) > 0
    BY <1>1, <2>1, <2>2, <2>4
  <2>7. ASSUME NEW i \in 1..Len(left)
        PROVE  left[i] = unread[(k - 1) + i] \/ left[i] = Scrap
    <3>1. CASE i = 1
      BY <2>4, <3>1
    <3>2. CASE i # 1
      <4>1. i - 1 \in 1..Len(From(k)) /\ 1 + (i - 1) = i /\ k + (i - 1) = (k - 1) + i
        BY <1>1, <2>1, <2>2, <2>4, <3>2
      <4>2. From(k)[i - 1] = unread[k + (i - 1)]
        BY ONLY <2>2, <4>1
      <4>3. left[1 + (i - 1)] = From(k)[i - 1]
        BY ONLY <2>4, <4>1
      <4> QED BY ONLY <4>1, <4>2, <4>3
    <3> QED BY <3>1, <3>2
  <2>8. Leaves(unread, k - 1, left)
    BY <2>1, <2>4, <2>6, <2>7 DEF Leaves
  <2> QED BY <2>5, <2>8 DEF left
<1>3. ASSUME NEW k \in 1..Len(unread)
      PROVE  /\ k \in 0..Len(unread) /\ k - 1 \in 0..Len(unread)
             /\ Len(unread) \in Nat \ {0} /\ unread # <<>>
  <2>1. k \in 0..Len(unread) /\ k - 1 \in 0..Len(unread) /\ Len(unread) # 0
    BY <1>1
  <2> QED BY <1>1, <2>1, EmptySeq
<1>4. unread # <<>> => 1 \in 1..Len(unread)
  <2>1. unread # <<>> => Len(unread) # 0
    BY SeqOfLengthZero DEF IsSequence
  <2> QED BY <1>1, <2>1
<1>5. \/ \E k \in 1..Len(unread) : packet = Packet(unread[1], From(k))
      \/ \E k \in 2..Len(unread) : packet = Packet(unread[1], <<Scrap>> \o From(k))
      \/ \E m \in Torn(unread[1]) : /\ unread # <<>>
                                    /\ packet = Packet(m, <<Scrap>> \o From(1))
  <2>1. Head(unread) = unread[1]
    OBVIOUS
  <2> QED BY <2>1 DEF Packets
<1> HIDE DEF From
<1>6. ASSUME NEW k \in 1..Len(unread), packet = Packet(unread[1], From(k))
      PROVE  /\ packet.first = unread[1]
             /\ Leaves(unread, k, packet.rest)
  BY <1>2, <1>6 DEF Packet
<1>7. ASSUME NEW k \in 1..Len(unread), NEW m,
             packet = Packet(m, <<Scrap>> \o From(k))
      PROVE  /\ packet.first = m
             /\ Leaves(unread, k - 1, packet.rest)
  BY <1>2, <1>7 DEF Packet
<1>8. \A k \in 2..Len(unread) : k \in 1..Len(unread)
  BY <1>1
<1> QED BY <1>3, <1>4, <1>5, <1>6, <1>7, <1>8

LEMMA SuffixOfRequests ==
    ASSUME NEW c, NEW requests, NEW unread, NEW heard,
           Conversation(requests, unread, heard, c),
           NEW k, NEW left, Leaves(unread, k, left)
    PROVE  /\ IsSequence(left) /\ Len(left) <= Len(requests)
           /\ Taken(requests, left) = Taken(requests, unread) + k
           /\ \A j \in 1..Len(left) :
                 \/ left[j] = requests[Taken(requests, left) + j]
                 \/ left[j] = Scrap
<1>1. Len(requests) \in Nat /\ Len(unread) \in Nat
  BY AppendToSequence DEF Conversation
<1>2. Len(left) = Len(unread) - k /\ k \in Nat /\ k <= Len(unread)
  BY <1>1 DEF Leaves
<1>3. Taken(requests, left) = Taken(requests, unread) + k
  BY <1>1, <1>2 DEF Taken
<1>4. Len(left) \in Nat /\ Len(left) <= Len(requests)
  BY <1>1, <1>2 DEF Conversation
<1>5. ASSUME NEW j \in 1..Len(left)
      PROVE  \/ left[j] = requests[Taken(requests, left) + j]
             \/ left[j] = Scrap
  <2>1. k + j \in 1..Len(unread)
    BY <1>1, <1>2
  <2>2. Taken(requests, unread) + (k + j) = Taken(requests, left) + j
    BY <1>1, <1>2, <1>3 DEF Taken
  <2>3. left[j] = unread[k + j] \/ left[j] = Scrap
    BY DEF Leaves
  <2> QED BY <2>1, <2>2, <2>3 DEF Conversation
<1> QED BY <1>3, <1>4, <1>5 DEF Leaves

(* One turn of the loop: the first of the messages may be answered, if it  *)
(* is not the rest of one.                                                 *)
LEMMA ConversationReads ==
    ASSUME NEW c, NEW requests, NEW unread, NEW heard,
           Conversation(requests, unread, heard, c), Len(unread) > 0,
           NEW k, NEW left, Leaves(unread, k, left),
           NEW more,
           \/ more = heard
           \/ /\ heard # <<>> /\ unread[1] # Scrap
              /\ \E r : /\ more = Append(heard, r)
                        /\ IsAnswer(unread[1], r)
                        /\ Segment(c, unread[1], r)
    PROVE  Conversation(requests, left, more, c)
<1> DEFINE taken == Taken(requests, unread)
           begun == Begun(requests, unread)
           now == Begun(requests, left)
<1>1. /\ Len(requests) \in Nat /\ Len(unread) \in Nat /\ Len(heard) \in Nat
      /\ taken \in Nat /\ begun \in Nat /\ begun \in {taken, taken + 1}
      /\ begun <= Len(requests)
  <2>1. Len(heard) \in Nat
    BY AppendToSequence DEF Conversation
  <2> QED BY <2>1, CountsOf DEF Conversation
<1>2. /\ IsSequence(left) /\ Len(left) <= Len(requests)
      /\ Taken(requests, left) = taken + k
      /\ \A j \in 1..Len(left) :
            \/ left[j] = requests[Taken(requests, left) + j]
            \/ left[j] = Scrap
  BY SuffixOfRequests
<1>3. /\ 1 \in 1..Len(unread)
      /\ unread[1] = requests[taken + 1] \/ unread[1] = Scrap
      /\ unread[1] # Scrap => begun = taken
  <2>1. 1 \in 1..Len(unread)
    BY <1>1
  <2>2. unread[1] # Scrap => begun = taken
    BY <1>1 DEF Begun
  <2> QED BY <2>1, <2>2 DEF Conversation
<1>4. now \in Nat /\ taken + 1 <= now /\ begun <= now
  <2>1. k \in Nat /\ Taken(requests, left) \in Nat
    BY <1>1, <1>2 DEF Leaves
  <2>2. CASE k = 0
    <3>1. Len(left) > 0 /\ left[1] = Scrap
      BY <2>2 DEF Leaves
    <3>2. now = Taken(requests, left) + 1
      BY <3>1 DEF Begun
    <3> QED BY <1>1, <1>2, <2>2, <3>2
  <2>3. CASE k > 0
    <3>1. now \in {Taken(requests, left), Taken(requests, left) + 1}
      BY <2>1 DEF Begun
    <3>2. Taken(requests, left) = taken + k
      BY <1>2
    <3> HIDE DEF taken, begun, now
    <3> QED BY ONLY <1>1, <2>1, <2>3, <3>1, <3>2
  <2> QED BY <2>1, <2>2, <2>3
<1> HIDE DEF taken, begun, now
<1>5. ASSUME heard # <<>>
      PROVE  \E f \in [2..Len(heard) -> 1..begun] :
          /\ \A i, j \in 2..Len(heard) : i < j => f[i] < f[j]
          /\ \A i \in 2..Len(heard) : /\ IsAnswer(requests[f[i]], heard[i])
                                      /\ Segment(c, requests[f[i]], heard[i])
  BY <1>5 DEF Conversation, Explained, begun
<1>6. CASE more = heard
  <2>1. ASSUME heard # <<>> PROVE Explained(heard, requests, now, c)
    <3>1. 1..begun \subseteq 1..now
      BY <1>1, <1>4
    <3>2. \A f \in [2..Len(heard) -> 1..begun] : f \in [2..Len(heard) -> 1..now]
      BY <3>1
    <3> QED BY <1>5, <2>1, <3>2 DEF Explained
  <2> QED BY <1>2, <1>6, <2>1 DEF Conversation, now
<1>7. ASSUME heard # <<>>, unread[1] # Scrap, NEW r, more = Append(heard, r),
             IsAnswer(unread[1], r), Segment(c, unread[1], r)
      PROVE  Conversation(requests, left, more, c)
  <2>1. /\ IsSequence(more) /\ more # <<>>
        /\ Len(more) = Len(heard) + 1
        /\ \A i \in 1..Len(heard) : more[i] = heard[i]
        /\ more[Len(heard) + 1] = r
    BY <1>7, AppendToSequence DEF Conversation
  <2>2. Len(heard) # 0
    BY <1>7, SeqOfLengthZero DEF Conversation, IsSequence
  <2>3. PICK f \in [2..Len(heard) -> 1..taken] :
          /\ \A i, j \in 2..Len(heard) : i < j => f[i] < f[j]
          /\ \A i \in 2..Len(heard) : /\ IsAnswer(requests[f[i]], heard[i])
                                      /\ Segment(c, requests[f[i]], heard[i])
    BY <1>3, <1>5, <1>7
  <2> DEFINE g == [i \in 2..Len(more) |-> IF i \in 2..Len(heard) THEN f[i] ELSE taken + 1]
  <2>4. g \in [2..Len(more) -> 1..now]
    <3>1. taken + 1 \in 1..now /\ \A m \in 1..taken : m \in 1..now
      BY <1>1, <1>4
    <3>2. \A i \in 2..Len(heard) : f[i] \in 1..taken
      BY <2>3
    <3>3. \A i \in 2..Len(more) :
             (IF i \in 2..Len(heard) THEN f[i] ELSE taken + 1) \in 1..now
      BY ONLY <3>1, <3>2
    <3> QED BY ONLY <3>3
  <2>5. ASSUME NEW i \in 2..Len(more), NEW j \in 2..Len(more), i < j
        PROVE  g[i] < g[j]
    <3>1. i \in 2..Len(heard)
      BY <1>1, <2>1, <2>5
    <3>2. f[i] \in 1..taken
      BY <2>3, <3>1
    <3>3. g[i] = f[i] /\ f[i] < taken + 1
      BY <1>1, <3>1, <3>2
    <3>4. CASE j \in 2..Len(heard)
      BY <2>3, <2>5, <3>1, <3>3, <3>4
    <3>5. CASE j \notin 2..Len(heard)
      BY <3>3, <3>5
    <3> QED BY <3>4, <3>5
  <2>6. ASSUME NEW i \in 2..Len(more)
        PROVE  /\ IsAnswer(requests[g[i]], more[i])
               /\ Segment(c, requests[g[i]], more[i])
    <3>1. CASE i \in 2..Len(heard)
      <4>1. g[i] = f[i] /\ more[i] = heard[i]
        BY <1>1, <2>1, <3>1
      <4> QED BY <2>3, <3>1, <4>1
    <3>2. CASE i \notin 2..Len(heard)
      <4>1. i = Len(heard) + 1 /\ g[i] = taken + 1
        BY <1>1, <2>1, <3>2
      <4> QED BY <1>3, <1>7, <2>1, <4>1
    <3> QED BY <3>1, <3>2
  <2> HIDE DEF g
  <2>7. Explained(more, requests, now, c)
    BY <2>4, <2>5, <2>6 DEF Explained
  <2>8. more[1].cmd = "version"
    BY <1>1, <1>7, <2>1, <2>2 DEF Conversation
  <2> QED BY <1>2, <2>1, <2>7, <2>8 DEF Conversation, now
<1> QED BY <1>6, <1>7

(* The socket breaks: what was not read is lost.                           *)
LEMMA ConversationBreaks ==
    ASSUME NEW c, NEW requests, NEW unread, NEW heard,
           Conversation(requests, unread, heard, c)
    PROVE  Conversation(requests, <<>>, heard, c)
<1> DEFINE begun == Begun(requests, unread)
<1>1. /\ Len(requests) \in Nat /\ begun \in Nat /\ begun <= Len(requests)
  BY CountsOf DEF Conversation
<1>2. IsSequence(<<>>) /\ Len(<<>>) = 0
  BY EmptySeq, OfItsElements
<1>3. Begun(requests, <<>>) = Len(requests)
  BY <1>1, <1>2 DEF Begun, Taken
<1>4. ASSUME heard # <<>> PROVE Explained(heard, requests, Len(requests), c)
  <2>1. PICK f \in [2..Len(heard) -> 1..begun] :
          /\ \A i, j \in 2..Len(heard) : i < j => f[i] < f[j]
          /\ \A i \in 2..Len(heard) : /\ IsAnswer(requests[f[i]], heard[i])
                                      /\ Segment(c, requests[f[i]], heard[i])
    BY <1>4 DEF Conversation, Explained
  <2> HIDE DEF begun
  <2>2. 1..begun \subseteq 1..Len(requests)
    BY <1>1
  <2>3. f \in [2..Len(heard) -> 1..Len(requests)]
    BY <2>1, <2>2
  <2> QED BY <2>1, <2>3 DEF Explained
<1> QED BY <1>1, <1>2, <1>3, <1>4 DEF Conversation

(* A segment of the server's chain is one in the sense of Connection.      *)
LEMMA SegmentIsSegment ==
    ASSUME NEW q, NEW r, Segment(chain[Server], q, r), IsSequence(chain[Server])
    PROVE  IsSegment(q, r)
<1> SUFFICES ASSUME q.cmd = "getblocks" PROVE IsSegment(q, r)
  BY DEF IsSegment
<1>1. PICK start \in HeightsOf(q) : Between(chain[Server], start, r.blocks)
  BY DEF Segment
<1>2. PICK last \in start..Len(chain[Server]) :
          /\ Len(r.blocks) = last - start
          /\ r.blocks = SubSeq(chain[Server], start + 1, last)
  BY <1>1 DEF Between
<1>3. start \in Nat /\ Len(chain[Server]) \in Nat
  BY <1>1, AppendToSequence DEF Between
<1>4. start + Len(r.blocks) = last /\ last <= Len(chain[Server])
  BY <1>2, <1>3
<1> QED BY <1>2, <1>4 DEF IsSegment, HeightsOf

(* A conversation begins with the version of the server.                   *)
LEMMA ConversationBegins ==
    ASSUME NEW c, NEW requests, NEW unread, NEW heard,
           Conversation(requests, unread, heard, c), heard = <<>>, NEW h
    PROVE  Conversation(requests, unread, Append(heard, Version(h)), c)
<1> DEFINE v == Version(h)
           now == Append(heard, v)
           begun == Begun(requests, unread)
<1>1. IsSequence(now) /\ Len(now) = 1 /\ now[1] = v
  <2> HIDE DEF v
  <2>1. now = <<v>>
    OBVIOUS
  <2>2. <<v>> \in Seq({v}) /\ Len(<<v>>) = 1 /\ <<v>>[1] = v
    OBVIOUS
  <2> QED BY <2>1, <2>2, OfItsElements
<1>2. v.cmd = "version"
  BY DEF Version
<1>3. Explained(now, requests, begun, c)
  <2> DEFINE f == [i \in 2..1 |-> 1]
  <2>1. f \in [2..1 -> 1..begun] /\ 2..1 = {}
    OBVIOUS
  <2> HIDE DEF f, now, v
  <2> QED BY <1>1, <2>1 DEF Explained
<1> HIDE DEF v, now
<1>4. Conversation(requests, unread, now, c)
  BY <1>1, <1>2, <1>3 DEF Conversation
<1> QED BY <1>4 DEF now, v

---------------------------------------------------------------------------
(* Without a builder.                                                      *)

ListInv == ~builds => ChainsInv

(* Without a builder the chains are lists, in the composition too.         *)
THEOREM LinkedUnlessBuilt == NetSpec => []LinkedWithoutBuilder
<1>1. NetInit => ListInv
  BY ChainsInductive DEF NetInit, ListInv
<1>2. ASSUME ListInv, [NetNext]_netVars PROVE ListInv'
  <2>1. CASE Next /\ Beside
    BY <1>2, <2>1, ChainsInductive DEF ListInv, Beside
  <2>2. CASE BuilderStep \/ TransactionStep
    BY <2>2 DEF ListInv, BuilderStep, TransactionStep, OnNodeObject
  <2>3. CASE UNCHANGED netVars
    BY <1>2, <2>3, ChainsInductive DEF ListInv, netVars
  <2> QED BY <1>2, <2>1, <2>2, <2>3 DEF NetNext
<1>3. ListInv => LinkedWithoutBuilder
  BY DEF ListInv, LinkedWithoutBuilder, ChainsInv, ChainOK, ServedChainLinked
<1> QED BY <1>1, <1>2, <1>3, PTL DEF NetSpec

---------------------------------------------------------------------------
(* What is on the wire.                                                    *)

(* The numbers a height may be read as.                                    *)
Height == Nat \cup {NoNumber}

(* Two nodes say nothing but versions and veracks to each other.           *)
Talk == {Version(h) : h \in Height} \cup {Verack, Scrap}

(* What a console's messages can be read as: a block of its own is one     *)
(* that Node takes into account.                                           *)
Typed == {GetHosts, GetTrans, Quit, Scrap} \cup {GetBlocks(h) : h \in Height}
         \cup {Blocks(<<b>>) : b \in ServerNode!WireBlock}

WireInv ==
    /\ DOMAIN chain = Nodes
    /\ \A n \in Nodes : IsSequence(chain[n]) /\ chain[n] # <<>>
    /\ DOMAIN toServer = Peers /\ DOMAIN toPeer = Peers
    /\ \A n \in ClientNodes : /\ toServer[n] \in Seq(Talk)
                              /\ toPeer[n] \in Seq(Talk)
    /\ \A p \in Consoles : toServer[p] \in Seq(Typed)

(* Neither a version nor a verack is answered with anything but a verack,  *)
(* nor changes a chain: the test whether a node is behind never holds      *)
(* (Connection.cpp:136-152).                                               *)
LEMMA TalkIsIdle ==
    ASSUME NEW c, IsSequence(c), NEW m \in Talk
    PROVE  /\ DoCommand(c, m).chain = c
           /\ DoCommand(c, m).reply \in Seq(Talk)
<1>1. CASE m \in {Verack, Scrap}
  <2>1. ~Recognised(m)
    BY <1>1 DEF Verack, Scrap, Recognised
  <2> QED BY <2>1 DEF DoCommand, Outcome
<1>2. ASSUME NEW h \in Height, m = Version(h)
      PROVE  /\ DoCommand(c, m).chain = c
             /\ DoCommand(c, m).reply \in Seq(Talk)
  <2>1. Len(c) \in Nat
    BY AppendToSequence
  <2>2. m.height = h /\ m.cmd = "version" /\ Recognised(m)
    BY <1>2 DEF Version, Recognised
  <2>3. DoCommand(c, m) = CmdVersion(c, m)
    BY <2>2 DEF DoCommand
  <2>4. ~((m.height - Len(c)) % Modulus < 0)
    <3> DEFINE d == m.height - Len(c)
    <3>1. d \in Int /\ Modulus \in Nat \ {0}
      BY <2>1, <2>2, BoundsAssumption DEF Height, NoNumber
    <3> HIDE DEF d
    <3>2. d % Modulus \in 0..Modulus - 1
      BY <3>1
    <3> QED BY <3>1, <3>2 DEF d
  <2>5. /\ CmdVersion(c, m).chain = c
        /\ CmdVersion(c, m).reply = <<Verack>>
    BY <2>4 DEF CmdVersion, Outcome, Death
  <2>6. <<Verack>> \in Seq(Talk)
    BY DEF Talk
  <2> QED BY <2>3, <2>5, <2>6
<1> QED BY <1>1, <1>2 DEF Talk

(* A height that is not there up to its last digit is a height.            *)
LEMMA CutIsHeight == \A h : CutHeights(h) \subseteq Height
BY DEF CutHeights, Height

(* Whatever the first bytes of such a message are taken for is one, too.   *)
LEMMA TornTalk ==
    ASSUME NEW m \in Talk
    PROVE  Torn(m) \subseteq Talk
<1>1. CASE m = Verack
  <2>1. m.cmd = "verack"
    BY <1>1 DEF Verack
  <2> QED BY <2>1 DEF Torn, Talk
<1>2. CASE m = Scrap
  <2>1. m.cmd = "scrap"
    BY <1>2 DEF Scrap
  <2> QED BY <2>1 DEF Torn, Talk
<1>3. ASSUME NEW h \in Height, m = Version(h) PROVE Torn(m) \subseteq Talk
  <2>1. m.cmd = "version"
    BY <1>3 DEF Version
  <2>2. Torn(m) = {Scrap} \cup {Version(g) : g \in CutHeights(m.height)}
    BY <2>1 DEF Torn
  <2> QED BY <2>2, CutIsHeight DEF Talk
<1> QED BY <1>1, <1>2, <1>3 DEF Talk

LEMMA TornTyped ==
    ASSUME NEW m \in Typed
    PROVE  Torn(m) \subseteq Typed
<1>1. ASSUME m.cmd \notin {"version", "getblocks"} PROVE Torn(m) \subseteq Typed
  BY <1>1 DEF Torn, Typed
<1>2. CASE m \in {GetHosts, GetTrans, Quit, Scrap}
  <2>1. /\ GetHosts.cmd = "gethosts" /\ GetTrans.cmd = "getrans"
        /\ Quit.cmd = "_" /\ Scrap.cmd = "scrap"
    BY DEF GetHosts, GetTrans, Quit, Scrap
  <2>2. m.cmd \notin {"version", "getblocks"}
    BY <1>2, <2>1
  <2> QED BY <1>1, <2>2
<1>3. ASSUME NEW h \in Height, m = GetBlocks(h) PROVE Torn(m) \subseteq Typed
  <2>1. m.cmd = "getblocks"
    BY <1>3 DEF GetBlocks
  <2>2. Torn(m) = {Scrap, m} \cup {GetBlocks(g) : g \in CutHeights(m.start)}
    BY <2>1 DEF Torn
  <2> QED BY <2>2, CutIsHeight DEF Typed
<1>4. ASSUME NEW b, m = Blocks(<<b>>) PROVE Torn(m) \subseteq Typed
  <2>1. m.cmd \notin {"version", "getblocks"}
    BY <1>4 DEF Blocks
  <2> QED BY <1>1, <2>1
<1> QED BY <1>2, <1>3, <1>4 DEF Typed

(* What a packet leaves of the messages that had arrived, and the first of *)
(* them.                                                                   *)
LEMMA PacketTaken ==
    ASSUME NEW A, Scrap \in A, \A m \in A : Torn(m) \subseteq A,
           NEW s \in Seq(A), NEW packet \in Packets(s)
    PROVE  packet.first \in A /\ packet.rest \in Seq(A)
<1>1. IsSequence(s)
  BY OfItsElements
<1>2. /\ Len(s) \in Nat \ {0}
      /\ packet.first = s[1] \/ packet.first \in Torn(s[1])
  BY <1>1, PacketLeaves
<1>3. \A i \in 1..Len(s) : s[i] \in A
  BY ElementOfSeq
<1>4. packet.first \in A
  <2>1. s[1] \in A
    BY <1>2, <1>3
  <2> QED BY <1>2, <2>1
<1>5. PICK k \in 0..Len(s) : Leaves(s, k, packet.rest)
  BY <1>1, PacketLeaves
<1> DEFINE rest == packet.rest
<1>6. /\ rest \in Seq(Range(rest)) /\ Len(rest) = Len(s) - k
      /\ \A i \in 1..Len(rest) : rest[i] = s[k + i] \/ rest[i] = Scrap
  BY <1>5 DEF Leaves, IsSequence
<1>7. ASSUME NEW i \in 1..Len(rest) PROVE rest[i] \in A
  <2>1. k + i \in 1..Len(s)
    BY <1>2, <1>6
  <2> QED BY <1>3, <1>6, <2>1
<1>8. rest \in Seq(A)
  <2> HIDE DEF rest
  <2>1. Range(rest) \subseteq A
    <3>1. DOMAIN rest = 1..Len(rest)
      BY <1>6, LenProperties
    <3> QED BY <1>7, <3>1 DEF Range
  <2> QED BY <1>6, <2>1, SeqMonotonic
<1> QED BY <1>4, <1>8

(* A console's message leaves the chain alone, or it is a block that the   *)
(* server's Node accepts (Connection.cpp:263-298).                         *)
LEMMA TypedOutcome ==
    ASSUME NEW c, NEW m \in Typed
    PROVE  \/ DoCommand(c, m).chain = c
           \/ \E b \in ServerNode!WireBlock :
                 /\ \A i \in DOMAIN b.txs : b.txs[i].signed
                 /\ Fits(c, b)
                 /\ DoCommand(c, m).chain = AddBlock(c, b)
                 /\ DoCommand(c, m).alive
<1>1. CASE m \in {GetHosts, GetTrans, Quit, Scrap}
  <2>1. m.cmd \in {"gethosts", "getrans", "_", "scrap"}
    <3>1. /\ GetHosts.cmd = "gethosts" /\ GetTrans.cmd = "getrans"
          /\ Quit.cmd = "_" /\ Scrap.cmd = "scrap"
      BY DEF GetHosts, GetTrans, Quit, Scrap
    <3> QED BY <1>1, <3>1
  <2> QED BY <2>1 DEF DoCommand, Recognised, Outcome
<1>2. ASSUME NEW n \in Height, m = GetBlocks(n)
      PROVE  DoCommand(c, m).chain = c
  <2>1. m.cmd = "getblocks" /\ Recognised(m)
    BY <1>2 DEF GetBlocks, Recognised
  <2>2. DoCommand(c, m) = CmdGetBlocks(c, m)
    BY <2>1 DEF DoCommand
  <2> QED BY <2>2 DEF CmdGetBlocks, Outcome, Death
<1>3. ASSUME NEW b \in ServerNode!WireBlock, m = Blocks(<<b>>)
      PROVE  \/ DoCommand(c, m).chain = c
             \/ /\ \A i \in DOMAIN b.txs : b.txs[i].signed
                /\ Fits(c, b)
                /\ DoCommand(c, m).chain = AddBlock(c, b)
                /\ DoCommand(c, m).alive
  <2>1. m.cmd = "blocks" /\ m.blocks[1] = b /\ m.blocks # <<>>
    BY <1>3 DEF Blocks
  <2>2. DoCommand(c, m) = CmdBlocks(c, m)
    BY <2>1 DEF DoCommand, Recognised
  <2> QED BY <2>1, <2>2 DEF CmdBlocks, Outcome, Death
<1> QED BY <1>1, <1>2, <1>3 DEF Typed

(* The blocks Node takes into account are more, the longer the chain is.   *)
LEMMA MoreBlocks ==
    ASSUME IsSequence(chain[Server]),
           \/ chain'[Server] = chain[Server]
           \/ \E b : chain'[Server] = Append(chain[Server], b)
    PROVE  Typed \subseteq Typed'
<1>1. \A i \in DOMAIN chain[Server] :
          i \in DOMAIN chain'[Server] /\ chain'[Server][i] = chain[Server][i]
  <2>1. ASSUME NEW b, chain'[Server] = Append(chain[Server], b)
        PROVE  \A i \in DOMAIN chain[Server] :
                   i \in DOMAIN chain'[Server] /\ chain'[Server][i] = chain[Server][i]
    BY <2>1, AppendToSequence
  <2> QED BY <2>1
<1>2. ServerNode!WireBlock \subseteq ServerNode!WireBlock'
  BY <1>1 DEF ServerNode!WireBlock, ServerNode!Leftover
<1> QED BY <1>2 DEF Typed, Height, NoNumber, Blocks, GetBlocks, GetHosts,
                    GetTrans, Quit, Scrap

(* One turn of the server's loop: what is left to read, and what it is.    *)
LEMMA ServerReads ==
    ASSUME WireInv, NEW p \in Peers, NEW packet \in Packets(toServer[p]),
           Receives(p, packet)
    PROVE  /\ p \in ClientNodes => packet.first \in Talk
           /\ p \in Consoles => packet.first \in Typed
           /\ DOMAIN toServer' = Peers
           /\ \A n \in ClientNodes : toServer'[n] \in Seq(Talk)
           /\ \A q \in Consoles : toServer'[q] \in Seq(Typed)
<1>1. /\ DOMAIN toServer' = Peers
      /\ toServer'[p] = packet.rest
      /\ \A q \in Peers : q # p => toServer'[q] = toServer[q]
  BY DEF WireInv, Receives
<1>0. Scrap \in Talk /\ Scrap \in Typed
  BY DEF Talk, Typed
<1>2. CASE p \in ClientNodes
  <2>1. packet.first \in Talk /\ toServer'[p] \in Seq(Talk)
    BY <1>0, <1>1, <1>2, PacketTaken, TornTalk DEF WireInv
  <2>2. p \notin Consoles
    BY <1>2, PeersAssumption
  <2> QED BY <1>1, <1>2, <2>1, <2>2 DEF WireInv, Peers
<1>3. CASE p \in Consoles
  <2>1. packet.first \in Typed /\ toServer'[p] \in Seq(Typed)
    BY <1>0, <1>1, <1>3, PacketTaken, TornTyped DEF WireInv
  <2>2. p \notin ClientNodes
    BY <1>3, PeersAssumption
  <2> QED BY <1>1, <1>3, <2>1, <2>2 DEF WireInv, Peers
<1> QED BY <1>2, <1>3 DEF Peers

(* The shape of a step, as far as the server's Node object is concerned:   *)
(* the object and the process stay, the process ends, or a block of a      *)
(* console is accepted.                                                    *)
Idle == /\ chain'[Server] = chain[Server]
        /\ server' = "dead" <=> server = "dead"

Ends == /\ chain'[Server] = chain[Server]
        /\ server # "dead" /\ server' = "dead"

Accepts(b) ==
    /\ server = "go" /\ server' = "go"
    /\ \A i \in DOMAIN b.txs : b.txs[i].signed
    /\ Fits(chain[Server], b)
    /\ chain'[Server] = AddBlock(chain[Server], b)

LEMMA ServerExecutesShape ==
    ASSUME WireInv, NEW p \in Peers, NEW packet \in Packets(toServer[p]),
           ServerExecutes(p, packet)
    PROVE  \/ Idle \/ Ends
           \/ \E b \in ServerNode!WireBlock : Accepts(b)
<1> DEFINE m == packet.first
           out == DoCommand(chain[Server], m)
<1>1. /\ chain'[Server] = out.chain
      /\ server' = IF out.alive THEN "go" ELSE "dead"
      /\ server = "go"
  BY DEF ServerExecutes, Receives, WireInv, Nodes
<1>2. Receives(p, packet)
  BY DEF ServerExecutes
<1>3. CASE p \in ClientNodes
  <2>1. m \in Talk
    BY <1>2, <1>3, ServerReads
  <2>2. IsSequence(chain[Server])
    BY DEF WireInv, Nodes
  <2>3. out.chain = chain[Server]
    BY <2>1, <2>2, TalkIsIdle
  <2> HIDE DEF out
  <2> QED BY <1>1, <2>3 DEF Idle, Ends
<1>4. CASE p \in Consoles
  <2>1. m \in Typed
    BY <1>2, <1>4, ServerReads
  <2>2. \/ out.chain = chain[Server]
        \/ \E b \in ServerNode!WireBlock :
              /\ \A i \in DOMAIN b.txs : b.txs[i].signed
              /\ Fits(chain[Server], b)
              /\ out.chain = AddBlock(chain[Server], b)
              /\ out.alive
    BY <2>1, TypedOutcome
  <2> HIDE DEF out
  <2>3. CASE out.chain = chain[Server]
    BY <1>1, <2>3 DEF Idle, Ends
  <2>4. ASSUME NEW b \in ServerNode!WireBlock,
               /\ \A i \in DOMAIN b.txs : b.txs[i].signed
               /\ Fits(chain[Server], b)
               /\ out.chain = AddBlock(chain[Server], b)
               /\ out.alive
        PROVE  Accepts(b)
    BY <1>1, <2>4 DEF Accepts
  <2> QED BY <2>2, <2>3, <2>4
<1> QED BY <1>3, <1>4 DEF Peers

LEMMA StepShape ==
    ASSUME WireInv, Next
    PROVE  \/ Idle \/ Ends
           \/ \E b \in ServerNode!WireBlock : Accepts(b)
<1>1. ASSUME NEW p \in Peers, NEW packet \in Packets(toServer[p]), ServerExecutes(p, packet)
      PROVE  Idle \/ Ends \/ \E b \in ServerNode!WireBlock : Accepts(b)
  BY <1>1, ServerExecutesShape
<1>2. ASSUME NEW p, NEW packet, ServerDies(p, packet) PROVE Ends
  BY <1>2 DEF ServerDies, Receives, Ends
<1>3. ASSUME NEW p, NEW packet, ServerQuits(p, packet) PROVE Idle
  BY <1>3 DEF ServerQuits, Receives, Idle
<1>4. ASSUME NEW p, ServerFindsPeerGone(p) PROVE Idle \/ Ends
  BY <1>4 DEF ServerFindsPeerGone, Idle, Ends
<1>5. CASE Accept
  BY <1>5 DEF Accept, Idle
<1>6. ASSUME NEW n \in ClientNodes, NEW packet, NodeExecutes(n, packet) PROVE Idle
  <2>1. n # Server
    BY PeersAssumption DEF Peers
  <2> QED BY <1>6, <2>1 DEF NodeExecutes, Idle, WireInv
<1>7. ASSUME NEW n, NEW packet, NodeFindsServerGone(n) \/ NodeLeaves(n, packet)
      PROVE  Idle
  BY <1>7 DEF NodeFindsServerGone, NodeLeaves, Idle
<1>8. ASSUME NEW n, \/ NodeConnects(n) \/ ConsoleConnects(n)
                   \/ ConsoleSends(n) \/ ConsoleCloses(n)
      PROVE  Idle
  BY <1>8 DEF NodeConnects, ConsoleConnects, ConsoleSends, ConsoleCloses, Idle
<1> QED BY <1>1, <1>2, <1>3, <1>4, <1>5, <1>6, <1>7, <1>8
        DEF Next, ServerStep, NodeStep

---------------------------------------------------------------------------
(* The invariant of the wire.                                              *)

(* A block a console can send is one Node takes into account.              *)
LEMMA ConsoleBlocksTyped ==
    ASSUME IsSequence(chain[Server]), chain[Server] # <<>>,
           Len(chain[Server]) < MaxChain
    PROVE  ConsoleBlocks \subseteq Typed
<1> DEFINE indices == {Len(chain[Server]), Len(chain[Server]) + 1}
           places == DOMAIN chain[Server]
           made(i, j, h, pair) ==
             [index |-> i, prevHash |-> chain[Server][j].currHash,
              currHash |-> h, txs |-> pair]
           said(i, j, h, pair) == Blocks(<<made(i, j, h, pair)>>)
<1>1. ASSUME NEW i \in indices, NEW j \in places, NEW h \in Junk, NEW pair \in WirePairs
      PROVE  said(i, j, h, pair) \in Typed
  <2>1. i \in 1..MaxChain + 1
    <3>1. Len(chain[Server]) \in Nat \ {0}
      BY AppendToSequence, SeqOfLengthZero DEF IsSequence
    <3> QED BY <3>1, BoundsAssumption
  <2>2. made(i, j, h, pair) \in ServerNode!WireBlock
    BY <2>1 DEF ServerNode!WireBlock, ServerNode!Leftover
  <2> HIDE DEF made
  <2> QED BY <2>2 DEF Typed
<1>2. ConsoleBlocks =
        {said(i, j, h, pair) : i \in indices, j \in places, h \in Junk, pair \in WirePairs}
  BY DEF ConsoleBlocks
<1> HIDE DEF said, indices, places
<1> QED BY <1>1, <1>2

LEMMA ReplyAppended ==
    ASSUME NEW A, NEW s \in Seq(A), NEW t \in Seq(A)
    PROVE  s \o t \in Seq(A)
BY ConcatProperties

WireKept ==
    /\ DOMAIN toServer' = Peers /\ DOMAIN toPeer' = Peers
    /\ \A n \in ClientNodes : /\ toServer'[n] \in Seq(Talk)
                              /\ toPeer'[n] \in Seq(Talk)
    /\ \A p \in Consoles : toServer'[p] \in Seq(Typed)

LEMMA StepKeepsWire ==
    ASSUME WireInv, Next
    PROVE  WireKept
<1>0. Scrap \in Talk
  BY DEF Talk
<1>1. ASSUME NEW p \in Peers, NEW packet \in Packets(toServer[p]), ServerExecutes(p, packet)
      PROVE  WireKept
  <2>1. /\ Receives(p, packet)
        /\ toPeer' = [toPeer EXCEPT
              ![p] = @ \o DoCommand(chain[Server], packet.first).reply]
    BY <1>1 DEF ServerExecutes
  <2>2. \A n \in ClientNodes : toPeer'[n] \in Seq(Talk)
    <3>1. CASE p \notin ClientNodes
      BY <2>1, <3>1 DEF WireInv
    <3>2. CASE p \in ClientNodes
      <4>1. IsSequence(chain[Server])
        BY DEF WireInv, Nodes
      <4>2. packet.first \in Talk
        BY <2>1, <3>2, ServerReads
      <4>3. DoCommand(chain[Server], packet.first).reply \in Seq(Talk)
        BY <4>1, <4>2, TalkIsIdle
      <4>4. toPeer[p] \in Seq(Talk)
        BY <3>2 DEF WireInv
      <4>5. toPeer[p] \o DoCommand(chain[Server], packet.first).reply
                \in Seq(Talk)
        BY <4>3, <4>4, ReplyAppended
      <4> QED BY <2>1, <4>5 DEF WireInv
    <3> QED BY <3>1, <3>2
  <2>3. DOMAIN toPeer' = Peers
    BY <2>1 DEF WireInv
  <2> QED BY <2>1, <2>2, <2>3, ServerReads DEF WireKept
<1>2. ASSUME NEW p \in Peers, NEW packet \in Packets(toServer[p]),
             ServerDies(p, packet) \/ ServerQuits(p, packet)
      PROVE  WireKept
  <2>1. Receives(p, packet) /\ toPeer' = toPeer
    BY <1>2 DEF ServerDies, ServerQuits
  <2> QED BY <2>1, ServerReads DEF WireKept, WireInv
<1>3. ASSUME NEW p \in Peers, ServerFindsPeerGone(p) PROVE WireKept
  <2>1. toServer' = [toServer EXCEPT ![p] = <<>>] /\ toPeer' = toPeer
    BY <1>3 DEF ServerFindsPeerGone
  <2>2. <<>> \in Seq(Talk) /\ <<>> \in Seq(Typed)
    OBVIOUS
  <2> QED BY <2>1, <2>2 DEF WireKept, WireInv, Peers
<1>4. CASE Accept
  <2>1. /\ toServer' = toServer
        /\ toPeer' = [toPeer EXCEPT ![Head(backlog)] =
                          Append(@, Version(Len(chain[Server])))]
    BY <1>4 DEF Accept
  <2>2. Version(Len(chain[Server])) \in Talk
    BY AppendToSequence DEF WireInv, Nodes, Talk, Height
  <2>3. ASSUME NEW n \in ClientNodes PROVE toPeer'[n] \in Seq(Talk)
    <3>1. Append(toPeer[n], Version(Len(chain[Server]))) \in Seq(Talk)
      BY <2>2, AppendProperties DEF WireInv
    <3> QED BY <2>1, <3>1 DEF WireInv
  <2> QED BY <2>1, <2>3 DEF WireKept, WireInv
<1>5. ASSUME NEW n \in ClientNodes, NEW packet \in Packets(toPeer[n]),
             NodeExecutes(n, packet)
      PROVE  WireKept
  <2> DEFINE reply == DoCommand(chain[n], packet.first).reply
  <2>1. /\ toPeer' = [toPeer EXCEPT ![n] = packet.rest]
        /\ toServer' = [toServer EXCEPT ![n] = @ \o reply]
    BY <1>5 DEF NodeExecutes
  <2>2. n \notin Consoles
    BY PeersAssumption
  <2>3. /\ packet.first \in Talk
        /\ packet.rest \in Seq(Talk)
    BY <1>0, PacketTaken, TornTalk DEF WireInv
  <2>4. reply \in Seq(Talk)
    BY <2>3, TalkIsIdle DEF WireInv, Nodes
  <2> HIDE DEF reply
  <2>5. toServer[n] \o reply \in Seq(Talk)
    BY <2>4, ReplyAppended DEF WireInv
  <2> QED BY <2>1, <2>2, <2>3, <2>5 DEF WireKept, WireInv
<1>6. ASSUME NEW n \in ClientNodes, NodeFindsServerGone(n) PROVE WireKept
  <2>1. toPeer' = [toPeer EXCEPT ![n] = <<>>] /\ toServer' = toServer
    BY <1>6 DEF NodeFindsServerGone
  <2>2. <<>> \in Seq(Talk)
    OBVIOUS
  <2> QED BY <2>1, <2>2 DEF WireKept, WireInv
<1>10. ASSUME NEW n \in ClientNodes, NEW packet \in Packets(toPeer[n]),
              NodeLeaves(n, packet)
       PROVE  WireKept
  <2>1. toPeer' = [toPeer EXCEPT ![n] = packet.rest] /\ toServer' = toServer
    BY <1>10 DEF NodeLeaves
  <2>2. packet.rest \in Seq(Talk)
    BY <1>0, PacketTaken, TornTalk DEF WireInv
  <2> QED BY <2>1, <2>2 DEF WireKept, WireInv
<1>7. ASSUME NEW n \in ClientNodes, NodeConnects(n) PROVE WireKept
  <2>1. /\ toServer' = [toServer EXCEPT ![n] = <<Version(Len(chain[n]))>>]
        /\ toPeer' = toPeer
    BY <1>7 DEF NodeConnects
  <2>2. Version(Len(chain[n])) \in Talk
    BY AppendToSequence DEF WireInv, Nodes, Talk, Height
  <2>3. <<Version(Len(chain[n]))>> \in Seq(Talk)
    BY <2>2
  <2>4. n \notin Consoles
    BY PeersAssumption
  <2> QED BY <2>1, <2>3, <2>4 DEF WireKept, WireInv
<1>8. ASSUME NEW p \in Consoles, ConsoleSends(p) PROVE WireKept
  <2>1. PICK m \in Commands \cup (IF SendsBlocks(p) THEN ConsoleBlocks ELSE {}) :
            toServer' = [toServer EXCEPT ![p] = Append(@, m)]
    BY <1>8 DEF ConsoleSends
  <2>2. m \in Typed
    <3>1. Commands \subseteq Typed
      BY BoundsAssumption DEF Commands, Typed, Height
    <3>2. SendsBlocks(p) => ConsoleBlocks \subseteq Typed
      BY ConsoleBlocksTyped DEF SendsBlocks, WireInv, Nodes
    <3> QED BY <2>1, <3>1, <3>2
  <2>3. Append(toServer[p], m) \in Seq(Typed)
    BY <2>2, AppendProperties DEF WireInv
  <2>4. toPeer' = toPeer
    BY <1>8 DEF ConsoleSends
  <2>5. p \notin ClientNodes
    BY PeersAssumption
  <2> QED BY <2>1, <2>3, <2>4, <2>5 DEF WireKept, WireInv
<1>9. ASSUME NEW p \in Consoles, ConsoleConnects(p) \/ ConsoleCloses(p)
      PROVE  WireKept
  BY <1>9 DEF ConsoleConnects, ConsoleCloses, WireKept, WireInv
<1> QED BY <1>1, <1>2, <1>3, <1>4, <1>5, <1>6, <1>7, <1>8, <1>9, <1>10
        DEF Next, ServerStep, NodeStep

(* What any step does to the chains: the server's stays or grows by one    *)
(* block, those of the nodes stay.                                         *)
LEMMA ChainSteps ==
    ASSUME WireInv, [NetNext]_netVars
    PROVE  /\ DOMAIN chain' = Nodes
           /\ \/ chain'[Server] = chain[Server]
              \/ \E b : chain'[Server] = Append(chain[Server], b)
           /\ \A n \in ClientNodes : chain'[n] = chain[n]
<1>1. Server \in Nodes /\ Server \notin ClientNodes
  BY PeersAssumption DEF Nodes, Peers
<1>2. CASE Next /\ Beside
  <2>1. \/ chain'[Server] = chain[Server]
        \/ \E b : chain'[Server] = Append(chain[Server], b)
    BY <1>2, StepShape DEF Idle, Ends, Accepts, AddBlock
  <2>2. DOMAIN chain' = Nodes /\ \A n \in ClientNodes : chain'[n] = chain[n]
    <3>1. ASSUME NEW p \in Peers, NEW packet, ServerExecutes(p, packet)
          PROVE  DOMAIN chain' = Nodes /\ \A n \in ClientNodes : chain'[n] = chain[n]
      BY <1>1, <3>1 DEF ServerExecutes, WireInv
    <3>2. ASSUME NEW n \in ClientNodes, NEW packet \in Packets(toPeer[n]),
                 NodeExecutes(n, packet)
          PROVE  DOMAIN chain' = Nodes /\ \A q \in ClientNodes : chain'[q] = chain[q]
      <4>1. packet.first \in Talk
        <5>1. Scrap \in Talk
          BY DEF Talk
        <5> QED BY <3>2, <5>1, PacketTaken, TornTalk DEF WireInv
      <4>2. DoCommand(chain[n], packet.first).chain = chain[n]
        BY <4>1, TalkIsIdle DEF WireInv, Nodes
      <4>3. chain' = [chain EXCEPT ![n] = DoCommand(chain[n], packet.first).chain]
        BY <3>2 DEF NodeExecutes
      <4> QED BY <4>2, <4>3 DEF WireInv, Nodes
    <3>3. \/ \E p \in Peers : \E packet : ServerExecutes(p, packet)
          \/ \E n \in ClientNodes : \E packet \in Packets(toPeer[n]) : NodeExecutes(n, packet)
          \/ chain' = chain
      BY <1>2 DEF Next, ServerStep, NodeStep, Accept, ServerFindsPeerGone,
                  ServerDies, ServerQuits, NodeConnects, NodeFindsServerGone, NodeLeaves,
                  ConsoleConnects, ConsoleSends, ConsoleCloses
    <3> QED BY <3>1, <3>2, <3>3 DEF WireInv
  <2> QED BY <2>1, <2>2
<1>3. CASE BuilderStep \/ TransactionStep
  <2>1. chain' \in {chain} \cup {[chain EXCEPT ![Server] = Append(@, b)] :
                                    b \in Range(submitting)}
    BY <1>3 DEF BuilderStep, TransactionStep, OnNodeObject
  <2>2. CASE chain' = chain
    BY <2>2 DEF WireInv
  <2>3. ASSUME NEW b, chain' = [chain EXCEPT ![Server] = Append(@, b)]
        PROVE  /\ DOMAIN chain' = Nodes
               /\ chain'[Server] = Append(chain[Server], b)
               /\ \A n \in ClientNodes : chain'[n] = chain[n]
    BY <1>1, <2>3 DEF WireInv, Nodes
  <2> QED BY <2>1, <2>2, <2>3
<1>4. CASE UNCHANGED netVars
  BY <1>4 DEF netVars, vars, WireInv
<1> QED BY <1>2, <1>3, <1>4 DEF NetNext

LEMMA WireInductive ==
    /\ NetInit => WireInv
    /\ WireInv /\ [NetNext]_netVars => WireInv'
<1>1. ASSUME NetInit PROVE WireInv
  <2>1. <<>> \in Seq(Talk) /\ <<>> \in Seq(Typed)
    OBVIOUS
  <2>2. ASSUME NEW n \in Nodes PROVE IsSequence(chain[n]) /\ chain[n] # <<>>
    BY <1>1, ChainsAssumption DEF NetInit, Init, IsSequence
  <2> QED BY <1>1, <2>1, <2>2 DEF NetInit, Init, WireInv, Peers
<1>2. ASSUME WireInv, [NetNext]_netVars PROVE WireInv'
  <2>1. WireKept
    <3>1. CASE Next
      BY <1>2, <3>1, StepKeepsWire
    <3>2. CASE UNCHANGED <<toServer, toPeer>>
      BY <1>2, <3>2 DEF WireKept, WireInv
    <3> QED BY <1>2, <3>1, <3>2 DEF NetNext, BuilderStep, TransactionStep,
                                    OnNodeObject, netVars, vars
  <2>2. Typed \subseteq Typed'
    BY <1>2, ChainSteps, MoreBlocks DEF WireInv, Nodes
  <2>3. ASSUME NEW p \in Consoles PROVE toServer'[p] \in Seq(Typed')
    <3>1. toServer'[p] \in Seq(Typed)
      BY <2>1 DEF WireKept
    <3> QED BY <2>2, <3>1, SeqMonotonic
  <2>4. ASSUME NEW n \in Nodes PROVE IsSequence(chain'[n]) /\ chain'[n] # <<>>
    <3>1. IsSequence(chain[n]) /\ chain[n] # <<>>
      BY <1>2 DEF WireInv
    <3>2. chain'[n] = chain[n] \/ \E b : chain'[n] = Append(chain[n], b)
      BY <1>2, ChainSteps DEF Nodes
    <3>3. ASSUME NEW b PROVE /\ IsSequence(Append(chain[n], b))
                              /\ Append(chain[n], b) # <<>>
      BY <3>1, AppendToSequence
    <3>4. ASSUME NEW b, chain'[n] = Append(chain[n], b)
          PROVE  IsSequence(chain'[n]) /\ chain'[n] # <<>>
      BY <3>3, <3>4
    <3>5. CASE chain'[n] = chain[n]
      BY <3>1, <3>5
    <3> QED BY <3>2, <3>4, <3>5
  <2>5. Talk' = Talk
    BY DEF Talk, Height, NoNumber, Version, Verack, Scrap
  <2> QED BY <1>2, <2>1, <2>3, <2>4, <2>5, ChainSteps DEF WireInv, WireKept
<1> QED BY <1>1, <1>2

---------------------------------------------------------------------------
(* The server's object is a Node.                                          *)

LEMMA ServerStarts == NetInit => ServerNode!Init
<1> SUFFICES ASSUME NetInit PROVE ServerNode!Init
  OBVIOUS
<1>1. chain[Server] \in StartChains /\ server = "accept"
  BY DEF NetInit, Init, Nodes
<1>2. maxTransactions \in MaxTransactions
  BY SetupAssumption DEF NetInit
<1> QED BY <1>1, <1>2, StartChainAssumption DEF NetInit, ServerNode!Init

(* A step of a conversation is a step of Node, or none.                    *)
LEMMA BesideIsNode ==
    ASSUME WireInv, Next, Beside
    PROVE  ServerNode!Next \/ UNCHANGED ServerNode!vars
<1>1. UNCHANGED poolVars
  BY DEF Beside
<1>2. CASE Idle
  BY <1>1, <1>2 DEF Idle, poolVars, ServerNode!vars
<1>3. CASE Ends
  <2>1. ServerNode!ServingEnds
    BY <1>1, <1>3 DEF Ends, poolVars, ServerNode!ServingEnds, ServerNode!Running
  <2> QED BY <2>1 DEF ServerNode!Next, ServerNode!Serve
<1>4. ASSUME NEW b \in ServerNode!WireBlock, Accepts(b)
      PROVE  ServerNode!AcceptBlock(b)
  <2>1. chain'[Server] # chain[Server]
    <3>1. chain'[Server] = Append(chain[Server], Relinked(chain[Server], b))
      BY <1>4 DEF Accepts, AddBlock
    <3>2. IsSequence(chain[Server])
      BY DEF WireInv, Nodes
    <3>3. Len(chain'[Server]) = Len(chain[Server]) + 1 /\ Len(chain[Server]) \in Nat
      BY <3>1, <3>2, AppendToSequence
    <3> QED BY <3>3
  <2>2. Len(chain[Server]) < MaxChain
    BY <2>1 DEF Beside, InBounds
  <2>3. /\ ServerNode!GetLastBlock(chain[Server]) = GetLastBlock(chain[Server])
        /\ ServerNode!AddBlock(chain[Server], b) = AddBlock(chain[Server], b)
    BY DEF GetLastBlock, AddBlock, Relinked, HashBlock, TransactionsToString,
           ServerNode!GetLastBlock, ServerNode!AddBlock, ServerNode!Relinked,
           ServerNode!HashBlock, ServerNode!TransactionsToString
  <2> QED BY <1>1, <1>4, <2>2, <2>3 DEF Accepts, Fits, poolVars,
            ServerNode!AcceptBlock, ServerNode!Running
<1> QED BY <1>2, <1>3, <1>4, StepShape DEF ServerNode!Next, ServerNode!Serve

(* Whatever the conversations and the builder do, in whatever order, the   *)
(* server's object is a Node: what NodeProofs shows of every Node holds of *)
(* it (Connection.cpp:100-134, main.cpp:66-75).                            *)
THEOREM ServerImplementsNode == NetSpec => ServerIsNode
<1>1. WireInv /\ [NetNext]_netVars => [ServerNode!Next]_(ServerNode!vars)
  <2> SUFFICES ASSUME WireInv, [NetNext]_netVars
               PROVE  ServerNode!Next \/ UNCHANGED ServerNode!vars
    OBVIOUS
  <2>1. CASE Next /\ Beside
    BY <2>1, BesideIsNode
  <2>2. CASE BuilderStep
    BY <2>2 DEF BuilderStep, ServerNode!Next
  <2>3. CASE TransactionStep
    BY <2>3 DEF TransactionStep, ServerNode!Next, ServerNode!Serve
  <2>4. CASE UNCHANGED netVars
    BY <2>4 DEF netVars, vars, poolVars, ServerNode!vars
  <2> QED BY <2>1, <2>2, <2>3, <2>4 DEF NetNext
<1> QED BY <1>1, WireInductive, ServerStarts, PTL
        DEF NetSpec, ServerIsNode, ServerNode!Spec
---------------------------------------------------------------------------
(* What a console hears.                                                   *)

(* What the server says to a console answers the command it executed.      *)
LEMMA TypedReply ==
    ASSUME NEW c, IsSequence(c), NEW m \in Typed
    PROVE  \/ DoCommand(c, m).reply = <<>>
           \/ \E r : /\ DoCommand(c, m).reply = <<r>>
                     /\ IsAnswer(m, r)
                     /\ m.cmd = "getblocks" => Between(c, m.start, r.blocks)
<1>1. CASE m \in {GetHosts, GetTrans, Quit, Scrap}
  <2>1. CASE m = GetHosts
    <3>1. m.cmd = "gethosts"
      BY <2>1 DEF GetHosts
    <3>2. DoCommand(c, m).reply = <<Hosts>>
      BY <3>1 DEF DoCommand, Recognised, Outcome
    <3>3. IsAnswer(m, Hosts)
      BY <3>1 DEF IsAnswer
    <3> QED BY <3>1, <3>2, <3>3
  <2>2. CASE m = GetTrans
    <3>1. m.cmd = "getrans"
      BY <2>2 DEF GetTrans
    <3>2. DoCommand(c, m).reply = <<Trans>>
      BY <3>1 DEF DoCommand, Recognised, Outcome
    <3>3. IsAnswer(m, Trans)
      BY <3>1 DEF IsAnswer
    <3> QED BY <3>1, <3>2, <3>3
  <2>3. CASE m \in {Quit, Scrap}
    <3>1. Quit.cmd = "_" /\ Scrap.cmd = "scrap"
      BY DEF Quit, Scrap
    <3>2. m.cmd \in {"_", "scrap"}
      BY <2>3, <3>1
    <3> QED BY <3>2 DEF DoCommand, Recognised, Outcome
  <2> QED BY <1>1, <2>1, <2>2, <2>3
<1>2. ASSUME NEW n \in Height, m = GetBlocks(n)
      PROVE  \/ DoCommand(c, m).reply = <<>>
             \/ \E r : /\ DoCommand(c, m).reply = <<r>>
                       /\ IsAnswer(m, r)
                       /\ Between(c, m.start, r.blocks)
  <2>1. m.cmd = "getblocks" /\ m.start = n /\ Recognised(m)
    BY <1>2 DEF GetBlocks, Recognised
  <2>2. DoCommand(c, m) = CmdGetBlocks(c, m)
    BY <2>1 DEF DoCommand
  <2> DEFINE bs == GetSubChain(c, n)
  <2>3. \/ CmdGetBlocks(c, m).reply = <<>>
        \/ /\ n # NoNumber /\ ~(n > Len(c))
           /\ CmdGetBlocks(c, m).reply = <<Blocks(bs)>>
    BY <2>1 DEF CmdGetBlocks, Outcome, Death
  <2>4. ASSUME n # NoNumber, ~(n > Len(c))
        PROVE  IsAnswer(m, Blocks(bs)) /\ Between(c, n, Blocks(bs).blocks)
    <3>1. Len(c) \in Nat /\ n \in 0..Len(c)
      BY <2>4, AppendToSequence DEF Height
    <3>2. bs = SubSeq(c, n + 1, Len(c)) /\ Len(bs) = Len(c) - n
      BY <3>1, SuffixOfSequence DEF GetSubChain
    <3> HIDE DEF bs
    <3>3. Blocks(bs).cmd = "blocks" /\ Blocks(bs).blocks = bs
      BY DEF Blocks
    <3>4. Len(c) \in n..Len(c)
      BY <3>1
    <3>5. IsAnswer(m, Blocks(bs))
      BY <2>1, <3>3 DEF IsAnswer
    <3>6. Between(c, n, bs)
      <4>1. n \in Nat
        BY <3>1
      <4>2. Len(bs) = Len(c) - n /\ bs = SubSeq(c, n + 1, Len(c))
        BY <3>2
      <4> QED BY ONLY <3>4, <4>1, <4>2 DEF Between
    <3>7. Between(c, n, Blocks(bs).blocks)
      BY ONLY <3>3, <3>6
    <3> QED BY <3>5, <3>7
  <2> HIDE DEF bs
  <2> QED BY <2>1, <2>2, <2>3, <2>4
<1>3. ASSUME NEW b, m = Blocks(<<b>>)
      PROVE  DoCommand(c, m).reply = <<>>
  <2>1. m.cmd = "blocks" /\ m.blocks # <<>>
    BY <1>3 DEF Blocks
  <2>2. DoCommand(c, m) = CmdBlocks(c, m)
    BY <2>1 DEF DoCommand, Recognised
  <2> QED BY <2>2 DEF CmdBlocks, Outcome, Death
<1> QED BY <1>1, <1>2, <1>3 DEF Typed

(* So it answers the request of which the command is the first part.       *)
LEMMA TornReply ==
    ASSUME NEW c, NEW q \in Typed, NEW m, m = q \/ m \in Torn(q), NEW r,
           IsAnswer(m, r), m.cmd = "getblocks" => Between(c, m.start, r.blocks)
    PROVE  q # Scrap /\ IsAnswer(q, r) /\ Segment(c, q, r)
<1>1. m # Scrap /\ m.cmd \in {"gethosts", "getrans", "getblocks"}
  BY DEF IsAnswer, Scrap
<1>2. \/ m = q
      \/ /\ q.cmd = "version"
         /\ m \in {Version(h) : h \in CutHeights(q.height)}
      \/ /\ q.cmd = "getblocks"
         /\ m \in {GetBlocks(h) : h \in CutHeights(q.start)}
  BY <1>1 DEF Torn
<1>3. CASE m = q
  <2>1. q.cmd = "getblocks" => q.start \in HeightsOf(q)
    BY DEF HeightsOf
  <2> QED BY <1>1, <1>3, <2>1 DEF Segment
<1>4. CASE /\ q.cmd = "version"
           /\ m \in {Version(h) : h \in CutHeights(q.height)}
  <2>1. m.cmd = "version"
    BY <1>4 DEF Version
  <2> QED BY <1>1, <2>1
<1>5. CASE /\ q.cmd = "getblocks"
           /\ m \in {GetBlocks(h) : h \in CutHeights(q.start)}
  <2>1. PICK h \in CutHeights(q.start) : m = GetBlocks(h)
    BY <1>5
  <2>2. m.cmd = "getblocks" /\ m.start = h
    BY <2>1 DEF GetBlocks
  <2>3. Between(c, h, r.blocks)
    BY <2>2
  <2>4. h # NoNumber
    BY <2>3 DEF Between, NoNumber
  <2>5. h \in HeightsOf(q)
    BY <2>1, <2>4 DEF HeightsOf
  <2>6. q # Scrap
    BY <1>5 DEF Scrap
  <2>7. IsAnswer(q, r)
    BY <1>5, <2>2 DEF IsAnswer
  <2> QED BY <2>3, <2>5, <2>6, <2>7 DEF Segment
<1> QED BY <1>2, <1>3, <1>4, <1>5

(* A peer waits in the backlog once, before it has heard anything; the one *)
(* that is served has heard the version.                                   *)
QueueInv ==
    /\ DOMAIN peer = Peers /\ DOMAIN asked = Consoles
    /\ backlog \in Seq(Peers)
    /\ \A i, j \in 1..Len(backlog) : i < j => backlog[i] # backlog[j]
    /\ \A i \in 1..Len(backlog) : /\ peer[backlog[i]] # "new"
                                  /\ backlog[i] # serving
                                  /\ toPeer[backlog[i]] = <<>>
    /\ \A p \in Peers : peer[p] = "new" => p # serving /\ toPeer[p] = <<>>
    /\ \A p \in Consoles : p = serving => toPeer[p] # <<>>

ConversationInv ==
    \A p \in Consoles :
        Conversation(asked[p], toServer[p], toPeer[p], chain[Server])

(* What one turn of the server's loop adds to what a console heard.        *)
LEMMA ServerAnswers ==
    ASSUME WireInv, ConversationInv, NEW p \in Consoles,
           NEW packet \in Packets(toServer[p]), ServerExecutes(p, packet)
    PROVE  \/ toPeer'[p] = toPeer[p]
           \/ /\ toServer[p][1] # Scrap
              /\ \E r : /\ toPeer'[p] = Append(toPeer[p], r)
                        /\ IsAnswer(toServer[p][1], r)
                        /\ Segment(chain[Server], toServer[p][1], r)
<1> DEFINE m == packet.first
           q == toServer[p][1]
           reply == DoCommand(chain[Server], m).reply
<1>1. toPeer'[p] = toPeer[p] \o reply
  BY DEF ServerExecutes, WireInv, Peers
<1>2. m \in Typed
  BY ServerReads DEF ServerExecutes, Peers
<1>3. q \in Typed /\ (m = q \/ m \in Torn(q))
  <2>1. IsSequence(toServer[p]) /\ toServer[p] \in Seq(Typed)
    BY DEF WireInv, ConversationInv, Conversation
  <2>2. Len(toServer[p]) \in Nat \ {0} /\ (m = q \/ m \in Torn(q))
    BY <2>1, PacketLeaves
  <2>3. 1 \in 1..Len(toServer[p])
    BY <2>2
  <2> QED BY <2>1, <2>2, <2>3, ElementOfSeq
<1>4. IsSequence(chain[Server]) /\ IsSequence(toPeer[p])
  BY DEF WireInv, Nodes, ConversationInv, Conversation
<1>5. \/ reply = <<>>
      \/ \E r : /\ reply = <<r>>
                /\ IsAnswer(m, r)
                /\ m.cmd = "getblocks" => Between(chain[Server], m.start, r.blocks)
  BY <1>2, <1>4, TypedReply
<1> HIDE DEF m, q, reply
<1>6. ASSUME reply = <<>> PROVE toPeer'[p] = toPeer[p]
  <2>1. toPeer[p] \o <<>> = toPeer[p]
    BY <1>4, ConcatEmptySeq DEF IsSequence
  <2> QED BY <1>1, <1>6, <2>1
<1>7. ASSUME NEW r, reply = <<r>>, IsAnswer(m, r),
             m.cmd = "getblocks" => Between(chain[Server], m.start, r.blocks)
      PROVE  /\ toPeer'[p] = Append(toPeer[p], r)
             /\ q # Scrap /\ IsAnswer(q, r) /\ Segment(chain[Server], q, r)
  <2>1. toPeer'[p] = Append(toPeer[p], r)
    BY <1>1, <1>4, <1>7, AppendAsConcat
  <2> QED BY <1>3, <1>7, <2>1, TornReply
<1>8. ASSUME NEW r, reply = <<r>>, IsAnswer(m, r),
             m.cmd = "getblocks" => Between(chain[Server], m.start, r.blocks)
      PROVE  /\ q # Scrap
             /\ \E s : /\ toPeer'[p] = Append(toPeer[p], s)
                       /\ IsAnswer(q, s)
                       /\ Segment(chain[Server], q, s)
  BY <1>7, <1>8, Zenon
<1> DEFINE answers == /\ q # Scrap
                      /\ \E r : /\ toPeer'[p] = Append(toPeer[p], r)
                                /\ IsAnswer(q, r)
                                /\ Segment(chain[Server], q, r)
           given(r) == /\ reply = <<r>>
                       /\ IsAnswer(m, r)
                       /\ m.cmd = "getblocks" => Between(chain[Server], m.start, r.blocks)
<1>9. \A r : given(r) => answers
  BY <1>8, Zenon
<1>10. reply = <<>> \/ \E r : given(r)
  BY <1>5, Zenon
<1>11. toPeer'[p] = toPeer[p] \/ answers
  <2> HIDE DEF given, answers
  <2> QED BY <1>6, <1>9, <1>10, Zenon
<1> QED BY <1>11, Zenon DEF q

(* The three ways in which the queue of connections changes: a peer joins  *)
(* it, the first is accepted, or it stays.                                 *)
Joins(n) ==
    /\ peer[n] = "new"
    /\ peer' = [peer EXCEPT ![n] = "open"]
    /\ backlog' = Append(backlog, n)
    /\ serving' = serving /\ toPeer' = toPeer /\ asked' = asked

QueueStays ==
    /\ backlog' = backlog
    /\ serving' \in {serving, NoPeer}
    /\ DOMAIN peer' = Peers /\ DOMAIN asked' = Consoles
    /\ \A p \in Peers : peer'[p] = "new" => peer[p] = "new"
    /\ \A p \in Peers : peer[p] # "new" => peer'[p] # "new"
    /\ \A p \in Peers : \/ toPeer'[p] = toPeer[p]
                        \/ /\ toPeer[p] # <<>> \/ p = serving
                           /\ p \in Consoles => toPeer'[p] # <<>>

LEMMA JoinKeepsQueue ==
    ASSUME QueueInv, NEW n \in Peers, Joins(n)
    PROVE  QueueInv'
<1>1. IsSequence(backlog) /\ \A i \in 1..Len(backlog) : backlog[i] \in Peers
  BY OfItsElements, ElementOfSeq DEF QueueInv
<1>2. /\ Len(backlog) \in Nat
      /\ Len(backlog') = Len(backlog) + 1
      /\ \A i \in 1..Len(backlog) : backlog'[i] = backlog[i]
      /\ backlog'[Len(backlog) + 1] = n
  BY <1>1, AppendToSequence DEF Joins
<1>3. backlog' \in Seq(Peers)
  BY AppendProperties DEF QueueInv, Joins
<1>4. n # serving /\ toPeer[n] = <<>>
  BY DEF QueueInv, Joins
<1>5. \A i \in 1..Len(backlog) : backlog[i] # n
  BY DEF QueueInv, Joins
<1>6. DOMAIN peer' = Peers /\ \A p \in Peers : peer'[p] = IF p = n THEN "open" ELSE peer[p]
  BY DEF QueueInv, Joins
<1>7. ASSUME NEW i \in 1..Len(backlog'), NEW j \in 1..Len(backlog'), i < j
      PROVE  backlog'[i] # backlog'[j]
  <2>1. i \in 1..Len(backlog)
    BY <1>2, <1>7
  <2>2. CASE j \in 1..Len(backlog)
    BY <1>2, <1>7, <2>1, <2>2 DEF QueueInv
  <2>3. CASE j = Len(backlog) + 1
    BY <1>2, <1>5, <2>1, <2>3
  <2> QED BY <1>2, <2>2, <2>3
<1>8. ASSUME NEW i \in 1..Len(backlog')
      PROVE  /\ peer'[backlog'[i]] # "new"
             /\ backlog'[i] # serving'
             /\ toPeer'[backlog'[i]] = <<>>
  <2>1. CASE i \in 1..Len(backlog)
    BY <1>1, <1>2, <1>6, <2>1 DEF QueueInv, Joins
  <2>2. CASE i = Len(backlog) + 1
    BY <1>2, <1>4, <1>6, <2>2 DEF Joins
  <2> QED BY <1>2, <2>1, <2>2
<1> QED BY <1>3, <1>6, <1>7, <1>8 DEF QueueInv, Joins

LEMMA StayKeepsQueue ==
    ASSUME QueueInv, QueueStays
    PROVE  QueueInv'
<1>1. \A i \in 1..Len(backlog) : backlog[i] \in Peers
  BY ElementOfSeq DEF QueueInv
<1>2. NoPeer \notin Peers
  BY PeersAssumption
<1>3. \A i \in 1..Len(backlog) : /\ peer'[backlog[i]] # "new"
                                 /\ backlog[i] # serving'
                                 /\ toPeer'[backlog[i]] = <<>>
  BY <1>1, <1>2 DEF QueueInv, QueueStays
<1>4. \A p \in Peers : peer'[p] = "new" => p # serving' /\ toPeer'[p] = <<>>
  BY <1>2 DEF QueueInv, QueueStays
<1>5. \A p \in Consoles : p = serving' => toPeer'[p] # <<>>
  BY <1>2 DEF QueueInv, QueueStays, Peers
<1> QED BY <1>3, <1>4, <1>5 DEF QueueInv, QueueStays

LEMMA AcceptKeepsQueue ==
    ASSUME WireInv, QueueInv, Accept
    PROVE  QueueInv'
<1> DEFINE p == backlog[1]
<1>1. /\ Len(backlog) \in Nat \ {0}
      /\ \A i \in 1..Len(backlog) : backlog[i] \in Peers
  BY EmptySeq, ElementOfSeq DEF QueueInv, Accept
<1>2. /\ serving' = p /\ p \in Peers
      /\ \A q \in Peers : q # p => toPeer'[q] = toPeer[q]
      /\ peer' = peer /\ asked' = asked
  BY <1>1 DEF Accept, WireInv
<1>3. /\ backlog' \in Seq(Peers)
      /\ Len(backlog') = Len(backlog) - 1
      /\ \A i \in 1..Len(backlog') : backlog'[i] = backlog[i + 1]
  BY HeadTailProperties DEF QueueInv, Accept
<1>4. ASSUME NEW i \in 1..Len(backlog')
      PROVE  /\ i + 1 \in 1..Len(backlog) /\ 1 < i + 1
             /\ backlog'[i] = backlog[i + 1]
             /\ backlog'[i] \in Peers /\ backlog'[i] # p
  <2>1. i + 1 \in 1..Len(backlog) /\ 1 \in 1..Len(backlog) /\ 1 < i + 1
    BY <1>1, <1>3
  <2> QED BY <1>1, <1>3, <2>1 DEF QueueInv
<1>5. \A i, j \in 1..Len(backlog') : i < j => backlog'[i] # backlog'[j]
  <2>1. ASSUME NEW i \in 1..Len(backlog'), NEW j \in 1..Len(backlog'), i < j
        PROVE  backlog'[i] # backlog'[j]
    <3>1. i + 1 < j + 1
      BY <2>1
    <3> QED BY <1>4, <3>1 DEF QueueInv
  <2> QED BY <2>1
<1>6. \A i \in 1..Len(backlog') : /\ peer'[backlog'[i]] # "new"
                                  /\ backlog'[i] # serving'
                                  /\ toPeer'[backlog'[i]] = <<>>
  BY <1>2, <1>4 DEF QueueInv
<1>7. peer[p] # "new" /\ toPeer[p] = <<>>
  BY <1>1 DEF QueueInv
<1>8. \A q \in Peers : peer'[q] = "new" => q # serving' /\ toPeer'[q] = <<>>
  BY <1>2, <1>7 DEF QueueInv
<1>9. toPeer'[p] # <<>>
  <2>1. toPeer'[p] = Append(toPeer[p], Version(Len(chain[Server])))
    BY <1>2 DEF Accept, WireInv
  <2>2. IsSequence(toPeer[p])
    BY <1>7, EmptySeq DEF IsSequence
  <2> QED BY <2>1, <2>2, AppendToSequence
<1> QED BY <1>2, <1>3, <1>5, <1>6, <1>8, <1>9 DEF QueueInv, Peers

(* Every step but an accept is one of the other two.                       *)
LEMMA QueueSteps ==
    ASSUME WireInv, QueueInv, ConversationInv, Next
    PROVE  Accept \/ QueueStays \/ \E n \in Peers : Joins(n)
<1>1. ASSUME NEW p \in Peers, NEW packet \in Packets(toServer[p]), ServerExecutes(p, packet)
      PROVE  QueueStays
  <2>1. /\ serving = p /\ UNCHANGED <<serving, backlog, peer, asked>>
        /\ \A q \in Peers : q # p => toPeer'[q] = toPeer[q]
    BY <1>1 DEF ServerExecutes, Receives, WireInv
  <2>2. ASSUME p \in Consoles PROVE toPeer'[p] # <<>>
    <3>1. IsSequence(toPeer[p]) /\ toPeer[p] # <<>>
      BY <2>1, <2>2 DEF QueueInv, ConversationInv, Conversation
    <3> QED BY <1>1, <2>2, <3>1, ServerAnswers, AppendToSequence
  <2> QED BY <2>1, <2>2 DEF QueueStays, QueueInv
<1>2. ASSUME NEW p \in Peers, NEW packet,
             ServerDies(p, packet) \/ ServerQuits(p, packet) \/ ServerFindsPeerGone(p)
      PROVE  QueueStays
  BY <1>2 DEF ServerDies, ServerQuits, ServerFindsPeerGone, QueueStays, QueueInv
<1>3. ASSUME NEW n \in ClientNodes, NEW packet \in Packets(toPeer[n]),
             NodeExecutes(n, packet)
      PROVE  QueueStays
  <2>1. n \in Peers /\ n \notin Consoles
    BY PeersAssumption DEF Peers
  <2>2. toPeer[n] # <<>>
    BY OfItsElements, PacketLeaves DEF WireInv
  <2> QED BY <1>3, <2>1, <2>2 DEF NodeExecutes, QueueStays, QueueInv, WireInv
<1>8. ASSUME NEW n \in ClientNodes, NEW packet \in Packets(toPeer[n]),
             NodeLeaves(n, packet)
      PROVE  QueueStays
  <2>1. n \in Peers /\ n \notin Consoles
    BY PeersAssumption DEF Peers
  <2>2. toPeer[n] # <<>>
    BY OfItsElements, PacketLeaves DEF WireInv
  <2>3. PICK after \in {"closed", "dead"} : peer' = [peer EXCEPT ![n] = after]
    BY <1>8 DEF NodeLeaves
  <2> QED BY <1>8, <2>1, <2>2, <2>3 DEF NodeLeaves, QueueStays, QueueInv, WireInv
<1>4. ASSUME NEW n \in ClientNodes, NodeFindsServerGone(n) PROVE QueueStays
  <2>1. n \in Peers /\ n \notin Consoles
    BY PeersAssumption DEF Peers
  <2>2. PICK after \in {"spin", "dead"} : peer' = [peer EXCEPT ![n] = after]
    BY <1>4 DEF NodeFindsServerGone
  <2> QED BY <1>4, <2>1, <2>2 DEF NodeFindsServerGone, QueueStays, QueueInv, WireInv
<1>5. ASSUME NEW n \in Peers, NodeConnects(n) \/ ConsoleConnects(n)
      PROVE  Joins(n)
  BY <1>5 DEF NodeConnects, ConsoleConnects, Joins
<1>6. ASSUME NEW p \in Consoles, ConsoleSends(p) PROVE QueueStays
  <2>1. DOMAIN asked' = DOMAIN asked
    BY <1>6 DEF ConsoleSends
  <2> QED BY <1>6, <2>1 DEF ConsoleSends, QueueStays, QueueInv
<1>7. ASSUME NEW p \in Consoles, ConsoleCloses(p) PROVE QueueStays
  BY <1>7 DEF ConsoleCloses, QueueStays, QueueInv, Peers
<1> QED BY <1>1, <1>2, <1>3, <1>4, <1>5, <1>6, <1>7, <1>8
        DEF Next, ServerStep, NodeStep, Peers

(* A step keeps every conversation, the server's chain of before at hand.  *)
Talking(c) ==
    \A p \in Consoles : Conversation(asked'[p], toServer'[p], toPeer'[p], c)

LEMMA StepKeepsConversations ==
    ASSUME WireInv, QueueInv, ConversationInv, Next
    PROVE  Talking(chain[Server])
<1> DEFINE c == chain[Server]
<1>0. \A p \in Consoles : p \in Peers /\ p \notin ClientNodes
  BY PeersAssumption DEF Peers
<1>1. ASSUME NEW p \in Peers, NEW packet \in Packets(toServer[p]), Receives(p, packet),
             asked' = asked, DOMAIN toPeer' = Peers,
             \A q \in Peers : q # p => toPeer'[q] = toPeer[q],
             p \in Consoles =>
                 \/ toPeer'[p] = toPeer[p]
                 \/ /\ toPeer[p] # <<>> /\ toServer[p][1] # Scrap
                    /\ \E r : /\ toPeer'[p] = Append(toPeer[p], r)
                              /\ IsAnswer(toServer[p][1], r)
                              /\ Segment(c, toServer[p][1], r)
      PROVE  Talking(c)
  <2>1. /\ toServer'[p] = packet.rest
        /\ \A q \in Peers : q # p => toServer'[q] = toServer[q]
    BY <1>1 DEF Receives, WireInv
  <2>2. ASSUME p \in Consoles
        PROVE  Conversation(asked'[p], toServer'[p], toPeer'[p], c)
    <3>1. Conversation(asked[p], toServer[p], toPeer[p], c)
      BY <2>2 DEF ConversationInv
    <3>2. IsSequence(toServer[p])
      BY <3>1 DEF Conversation
    <3>3. Len(toServer[p]) > 0
      BY <3>2, PacketLeaves
    <3>4. PICK k : Leaves(toServer[p], k, toServer'[p])
      BY <2>1, <3>2, PacketLeaves
    <3> QED BY <1>1, <2>2, <3>1, <3>3, <3>4, ConversationReads
  <2>3. ASSUME NEW q \in Consoles, q # p
        PROVE  Conversation(asked'[q], toServer'[q], toPeer'[q], c)
    BY <1>0, <1>1, <2>1, <2>3 DEF ConversationInv
  <2> QED BY <2>2, <2>3 DEF Talking
<1>2. ASSUME NEW p \in Peers, NEW packet \in Packets(toServer[p]), ServerExecutes(p, packet)
      PROVE  Talking(c)
  <2>1. Receives(p, packet) /\ asked' = asked /\ serving = p
    BY <1>2 DEF ServerExecutes, Receives
  <2>2. DOMAIN toPeer' = Peers /\ \A q \in Peers : q # p => toPeer'[q] = toPeer[q]
    BY <1>2 DEF ServerExecutes, WireInv
  <2>3. ASSUME p \in Consoles
        PROVE  \/ toPeer'[p] = toPeer[p]
               \/ /\ toPeer[p] # <<>> /\ toServer[p][1] # Scrap
                  /\ \E r : /\ toPeer'[p] = Append(toPeer[p], r)
                            /\ IsAnswer(toServer[p][1], r)
                            /\ Segment(c, toServer[p][1], r)
    <3>1. toPeer[p] # <<>>
      BY <2>1, <2>3 DEF QueueInv
    <3> QED BY <1>2, <2>3, <3>1, ServerAnswers
  <2> QED BY <1>1, <2>1, <2>2, <2>3
<1>3. ASSUME NEW p \in Peers, NEW packet \in Packets(toServer[p]),
             ServerDies(p, packet) \/ ServerQuits(p, packet)
      PROVE  Talking(c)
  <2>1. Receives(p, packet) /\ asked' = asked /\ toPeer' = toPeer
    BY <1>3 DEF ServerDies, ServerQuits
  <2> QED BY <1>1, <2>1 DEF WireInv
<1>4. ASSUME NEW p \in Peers, ServerFindsPeerGone(p) PROVE Talking(c)
  <2>1. /\ asked' = asked /\ toPeer' = toPeer
        /\ toServer' = [toServer EXCEPT ![p] = <<>>]
    BY <1>4 DEF ServerFindsPeerGone
  <2>2. ASSUME p \in Consoles PROVE Conversation(asked[p], <<>>, toPeer[p], c)
    <3>1. Conversation(asked[p], toServer[p], toPeer[p], c)
      BY <2>2 DEF ConversationInv
    <3> QED BY <3>1, ConversationBreaks
  <2>3. \A q \in Consoles : toServer'[q] = IF q = p THEN <<>> ELSE toServer[q]
    BY <1>0, <2>1 DEF WireInv
  <2> QED BY <2>1, <2>2, <2>3 DEF Talking, ConversationInv
<1>5. CASE Accept
  <2> DEFINE n == Head(backlog)
             v == Version(Len(c))
  <2>1. /\ asked' = asked /\ toServer' = toServer
        /\ toPeer' = [toPeer EXCEPT ![n] = Append(@, v)]
    BY <1>5 DEF Accept
  <2>2. toPeer[n] = <<>>
    <3>1. 1 \in 1..Len(backlog) /\ n = backlog[1]
      BY <1>5, EmptySeq DEF QueueInv, Accept
    <3> QED BY <3>1 DEF QueueInv
  <2> HIDE DEF n
  <2>3. ASSUME NEW q \in Consoles, q = n
        PROVE  Conversation(asked[q], toServer[q], Append(toPeer[q], v), c)
    BY <2>2, <2>3, ConversationBegins DEF ConversationInv
  <2> HIDE DEF v
  <2>4. \A q \in Consoles : toPeer'[q] = IF q = n THEN Append(toPeer[q], v) ELSE toPeer[q]
    BY <1>0, <2>1 DEF WireInv
  <2> QED BY <2>1, <2>3, <2>4 DEF Talking, ConversationInv
<1>6. ASSUME NEW p \in Consoles, ConsoleSends(p) PROVE Talking(c)
  <2>1. PICK m \in Commands \cup (IF SendsBlocks(p) THEN ConsoleBlocks ELSE {}) :
            /\ toServer' = [toServer EXCEPT ![p] = Append(@, m)]
            /\ asked' = [asked EXCEPT ![p] = Append(@, m)]
    BY <1>6 DEF ConsoleSends
  <2>2. toPeer' = toPeer
    BY <1>6 DEF ConsoleSends
  <2>3. Conversation(Append(asked[p], m), Append(toServer[p], m), toPeer[p], c)
    BY ConversationSends DEF ConversationInv
  <2>4. \A q \in Consoles :
            /\ toServer'[q] = IF q = p THEN Append(toServer[p], m) ELSE toServer[q]
            /\ asked'[q] = IF q = p THEN Append(asked[p], m) ELSE asked[q]
    BY <1>0, <2>1 DEF WireInv, QueueInv
  <2> QED BY <2>2, <2>3, <2>4 DEF Talking, ConversationInv
<1>7. ASSUME NEW n \in ClientNodes,
             \/ NodeFindsServerGone(n) \/ NodeConnects(n)
             \/ \E packet \in Packets(toPeer[n]) : \/ NodeExecutes(n, packet)
                                                 \/ NodeLeaves(n, packet)
      PROVE  Talking(c)
  <2>1. /\ asked' = asked
        /\ \A q \in Consoles : toServer'[q] = toServer[q] /\ toPeer'[q] = toPeer[q]
    BY <1>0, <1>7 DEF NodeFindsServerGone, NodeConnects, NodeExecutes, NodeLeaves, WireInv
  <2> QED BY <2>1 DEF Talking, ConversationInv
<1>8. ASSUME NEW p \in Consoles, ConsoleConnects(p) \/ ConsoleCloses(p)
      PROVE  Talking(c)
  BY <1>8 DEF ConsoleConnects, ConsoleCloses, Talking, ConversationInv
<1> QED BY <1>2, <1>3, <1>4, <1>5, <1>6, <1>7, <1>8
        DEF Next, ServerStep, NodeStep

AnswersInv == WireInv /\ QueueInv /\ ConversationInv

LEMMA AnswersInductive ==
    /\ NetInit => AnswersInv
    /\ AnswersInv /\ [NetNext]_netVars => AnswersInv'
<1>1. ASSUME NetInit PROVE AnswersInv
  <2>1. /\ backlog = <<>> /\ serving = NoPeer /\ NoPeer \notin Peers
        /\ peer = [p \in Peers |-> "new"] /\ asked = [p \in Consoles |-> <<>>]
        /\ toServer = [p \in Peers |-> <<>>] /\ toPeer = [p \in Peers |-> <<>>]
    BY <1>1, PeersAssumption DEF NetInit, Init
  <2>2. QueueInv
    BY <2>1 DEF QueueInv, Peers
  <2>3. Conversation(<<>>, <<>>, <<>>, chain[Server])
    <3>1. IsSequence(<<>>) /\ Len(<<>>) = 0
      BY OfItsElements, EmptySeq
    <3>2. \A j \in 1..0 : FALSE
      OBVIOUS
    <3> QED BY <3>1, <3>2 DEF Conversation
  <2>4. ConversationInv
    BY <2>1, <2>3 DEF ConversationInv, Peers
  <2> QED BY <1>1, <2>2, <2>4, WireInductive DEF AnswersInv
<1>2. ASSUME AnswersInv, [NetNext]_netVars PROVE AnswersInv'
  <2>1. WireInv'
    BY <1>2, WireInductive DEF AnswersInv
  <2>2. QueueInv' /\ Talking(chain[Server])
    <3>1. CASE Next
      <4>1. Talking(chain[Server])
        BY <1>2, <3>1, StepKeepsConversations DEF AnswersInv
      <4>2. Accept \/ QueueStays \/ \E n \in Peers : Joins(n)
        BY <1>2, <3>1, QueueSteps DEF AnswersInv
      <4>3. QueueInv'
        BY <1>2, <4>2, AcceptKeepsQueue, StayKeepsQueue, JoinKeepsQueue DEF AnswersInv
      <4> QED BY <4>1, <4>3
    <3>2. CASE UNCHANGED <<serving, backlog, peer, asked, toServer, toPeer>>
      BY <1>2, <3>2 DEF AnswersInv, QueueInv, ConversationInv, Talking
    <3> QED BY <1>2, <3>1, <3>2 DEF NetNext, BuilderStep, TransactionStep,
                                    OnNodeObject, netVars, vars
  <2>3. ConversationInv'
    <3>1. /\ IsSequence(chain[Server])
          /\ \/ chain'[Server] = chain[Server]
             \/ \E b : chain'[Server] = Append(chain[Server], b)
      BY <1>2, ChainSteps DEF AnswersInv, WireInv, Nodes
    <3>2. ASSUME NEW p \in Consoles
          PROVE  Conversation(asked'[p], toServer'[p], toPeer'[p], chain'[Server])
      BY <2>2, <3>1, ExplainedSurvives DEF Talking
    <3> QED BY <3>2 DEF ConversationInv
  <2> QED BY <2>1, <2>2, <2>3 DEF AnswersInv
<1> QED BY <1>1, <1>2

(* What is heard behind the first message, counted from one.               *)
LEMMA ConversationAnswers ==
    ASSUME ConversationInv, IsSequence(chain[Server]), NEW p \in Consoles
    PROVE  /\ toPeer[p] # <<>> => toPeer[p][1].cmd = "version"
           /\ \E f \in [DOMAIN Answers(p) -> DOMAIN asked[p]] :
                 /\ \A i, j \in DOMAIN f : i < j => f[i] < f[j]
                 /\ \A i \in DOMAIN f :
                       /\ IsAnswer(asked[p][f[i]], Answers(p)[i])
                       /\ IsSegment(asked[p][f[i]], Answers(p)[i])
<1> DEFINE heard == toPeer[p]
           requests == asked[p]
           begun == Begun(requests, toServer[p])
<1>0. Conversation(requests, toServer[p], heard, chain[Server])
  BY DEF ConversationInv
<1>1. CASE heard = <<>>
  <2>1. Answers(p) = <<>> /\ DOMAIN <<>> = {}
    BY <1>1 DEF Answers
  <2> DEFINE f == [i \in {} |-> 1]
  <2>2. f \in [{} -> DOMAIN asked[p]] /\ DOMAIN f = {}
    OBVIOUS
  <2> HIDE DEF f
  <2> QED BY <1>1, <2>1, <2>2
<1>2. CASE heard # <<>>
  <2>1. /\ Len(heard) \in Nat \ {0}
        /\ Len(Answers(p)) = Len(heard) - 1
        /\ DOMAIN Answers(p) = 1..Len(Answers(p))
        /\ \A i \in 1..Len(Answers(p)) : Answers(p)[i] = heard[i + 1]
    BY <1>0, <1>2, HeadTailProperties, EmptySeq, LenProperties
       DEF Answers, Conversation, IsSequence
  <2>2. /\ Len(requests) \in Nat /\ Len(toServer[p]) \in Nat
        /\ DOMAIN requests = 1..Len(requests)
        /\ begun \in Nat /\ begun <= Len(requests)
    <3>1. /\ IsSequence(requests) /\ IsSequence(toServer[p])
          /\ Len(toServer[p]) <= Len(requests)
      BY <1>0 DEF Conversation
    <3> HIDE DEF requests
    <3>2. /\ Len(requests) \in Nat /\ Len(toServer[p]) \in Nat
          /\ DOMAIN requests = 1..Len(requests)
      BY <3>1, AppendToSequence
    <3> QED BY <3>1, <3>2, CountsOf
  <2>3. PICK f \in [2..Len(heard) -> 1..begun] :
          /\ \A i, j \in 2..Len(heard) : i < j => f[i] < f[j]
          /\ \A i \in 2..Len(heard) :
                /\ IsAnswer(requests[f[i]], heard[i])
                /\ Segment(chain[Server], requests[f[i]], heard[i])
    BY <1>0, <1>2 DEF Conversation, Explained
  <2> HIDE DEF begun
  <2> DEFINE D == 1..Len(Answers(p))
             g == [i \in D |-> f[i + 1]]
  <2>4. \A i \in D : i + 1 \in 2..Len(heard)
    BY <2>1
  <2>5. g \in [D -> DOMAIN requests]
    <3>1. ASSUME NEW i \in D PROVE f[i + 1] \in DOMAIN requests
      <4>1. f[i + 1] \in 1..begun
        BY <2>3, <2>4
      <4>2. \A x \in 1..begun : x \in 1..Len(requests)
        BY <2>2
      <4> QED BY <2>2, <4>1, <4>2
    <3> QED BY <3>1
  <2>6. ASSUME NEW i \in D, NEW j \in D, i < j PROVE g[i] < g[j]
    <3>1. i + 1 < j + 1
      BY <2>1, <2>6
    <3> QED BY <2>3, <2>4, <3>1
  <2>7. ASSUME NEW i \in D
        PROVE  /\ IsAnswer(requests[g[i]], Answers(p)[i])
               /\ IsSegment(requests[g[i]], Answers(p)[i])
    <3>1. /\ IsAnswer(requests[g[i]], Answers(p)[i])
          /\ Segment(chain[Server], requests[g[i]], Answers(p)[i])
      BY <2>1, <2>3, <2>4
    <3> QED BY <3>1, SegmentIsSegment
  <2>8. DOMAIN g = D
    OBVIOUS
  <2> HIDE DEF g
  <2> QED BY <1>0, <2>1, <2>5, <2>6, <2>7, <2>8 DEF Conversation
<1> QED BY <1>1, <1>2

(* Wherever recv cuts the commands, whatever the packets lose and whenever *)
(* the chain grows, a console can pair every answer with the request it    *)
(* answers (Connection.cpp:79-84, 100-134, 243-261, 407-428).              *)
THEOREM AnswersMatchRequests == NetSpec => []AnswersInOrder
<1>1. AnswersInv => AnswersInOrder
  BY ConversationAnswers DEF AnswersInv, AnswersInOrder, WireInv, Nodes
<1> QED BY <1>1, AnswersInductive, PTL DEF NetSpec

---------------------------------------------------------------------------
(* The types of the composition.                                           *)

(* Where serve is, and where its peers are.                                *)
ServeInv ==
    /\ server \in {"accept", "go", "spin", "dead"}
    /\ serving \in Peers \cup {NoPeer}
    /\ server = "accept" => serving = NoPeer
    /\ server \in {"go", "spin"} => serving # NoPeer
    /\ peer \in [Peers -> {"new", "open", "hungup", "closed", "spin", "dead"}]

LEMMA StepKeepsServe ==
    ASSUME QueueInv, ServeInv, Next
    PROVE  ServeInv'
<1> DEFINE States == {"new", "open", "hungup", "closed", "spin", "dead"}
<1>1. ASSUME UNCHANGED <<server, serving>>, NEW p \in Peers, NEW s \in States,
             peer' = [peer EXCEPT ![p] = s]
      PROVE  ServeInv'
  BY <1>1 DEF ServeInv
<1>2. ASSUME NEW p, NEW packet, Receives(p, packet), peer' = peer, serving' = serving,
             server' \in {"go", "dead"}
      PROVE  ServeInv'
  BY <1>2 DEF Receives, ServeInv
<1>3. CASE Accept
  <2>1. Head(backlog) \in Peers /\ Head(backlog) # NoPeer
    BY <1>3, HeadTailProperties, PeersAssumption DEF QueueInv, Accept
  <2> QED BY <1>3, <2>1 DEF Accept, ServeInv
<1>4. ASSUME NEW p \in Peers, ServerFindsPeerGone(p) PROVE ServeInv'
  BY <1>4 DEF ServerFindsPeerGone, ServeInv
<1>5. ASSUME NEW p \in Peers, NEW packet, ServerExecutes(p, packet) PROVE ServeInv'
  BY <1>2, <1>5 DEF ServerExecutes
<1>6. ASSUME NEW p \in Peers, NEW packet, ServerDies(p, packet) PROVE ServeInv'
  BY <1>2, <1>6 DEF ServerDies
<1>7. ASSUME NEW p \in Peers, NEW packet, ServerQuits(p, packet) PROVE ServeInv'
  BY <1>7 DEF ServerQuits, ServeInv
<1>8. ASSUME NEW n \in ClientNodes, NEW packet, NodeExecutes(n, packet) PROVE ServeInv'
  <2>1. peer[n] \in States /\ n \in Peers
    BY DEF ServeInv, Peers
  <2>2. \/ peer' = [peer EXCEPT ![n] = peer[n]]
        \/ peer' = [peer EXCEPT ![n] = "dead"]
    BY <1>8 DEF NodeExecutes
  <2> QED BY <1>1, <1>8, <2>1, <2>2 DEF NodeExecutes
<1>9. ASSUME NEW n \in Peers,
             \/ NodeFindsServerGone(n) \/ NodeConnects(n)
             \/ ConsoleConnects(n) \/ ConsoleCloses(n)
      PROVE  ServeInv'
  <2>1. \E s \in {"open", "closed", "spin", "dead"} :
            peer' = [peer EXCEPT ![n] = s]
    BY <1>9 DEF NodeFindsServerGone, NodeConnects, ConsoleConnects, ConsoleCloses
  <2> QED BY <1>1, <1>9, <2>1
      DEF NodeFindsServerGone, NodeConnects, ConsoleConnects, ConsoleCloses
<1>10. ASSUME NEW p, ConsoleSends(p) PROVE ServeInv'
  BY <1>10 DEF ConsoleSends, ServeInv
<1>11. ASSUME NEW n \in ClientNodes, NEW packet, NodeLeaves(n, packet)
       PROVE  ServeInv'
  <2>1. PICK s \in {"closed", "dead"} : peer' = [peer EXCEPT ![n] = s]
    BY <1>11 DEF NodeLeaves
  <2> QED BY <1>1, <1>11, <2>1 DEF NodeLeaves, Peers
<1> QED BY <1>3, <1>4, <1>5, <1>6, <1>7, <1>8, <1>9, <1>10, <1>11
        DEF Next, ServerStep, NodeStep, Peers

(* The instance of Node in Network and the one of its proofs here are one  *)
(* and the same, definition by definition.                                 *)
Served ==
    INSTANCE NodeProofs WITH
        chain   <- chain[Server],
        process <- IF server = "dead" THEN "ended" ELSE "running",
        Junk    <- Junk \cup Leftovers

LEMMA SameNode ==
    /\ ServerNode!Init <=> Served!Init
    /\ ServerNode!Next <=> Served!Next
    /\ UNCHANGED ServerNode!vars <=> UNCHANGED Served!vars
    /\ ServerNode!TypeOK <=> Served!TypeOK
    /\ ServerNode!HashPointsBack <=> Served!HashPointsBack
    /\ ServerNode!IndexNotAhead <=> Served!IndexNotAhead
    /\ ServerNode!InFlightAnchored <=> Served!InFlightAnchored
    /\ ServerNode!InFlightBuffered <=> Served!InFlightBuffered
    /\ ServerNode!OnlySigned <=> Served!OnlySigned
BY Zenon DEF
        ServerNode!Init, Served!Init, ServerNode!StartChain,
        Served!StartChain, ServerNode!CreateGenesisBlock,
        Served!CreateGenesisBlock, ServerNode!GenesisPrevHash,
        Served!GenesisPrevHash, ServerNode!AddBlock, Served!AddBlock,
        ServerNode!Relinked, Served!Relinked, ServerNode!GetLastBlock,
        Served!GetLastBlock, ServerNode!HashBlock, Served!HashBlock,
        ServerNode!TransactionsToString, Served!TransactionsToString,
        ServerNode!Next, Served!Next, ServerNode!Serve, Served!Serve,
        ServerNode!AddTransaction, Served!AddTransaction, ServerNode!Running,
        Served!Running, ServerNode!Balance, Served!Balance,
        ServerNode!FoldLeft, Served!FoldLeft, ServerNode!MapThenFoldSet,
        Served!MapThenFoldSet, ServerNode!Max, Served!Max,
        ServerNode!Received, Served!Received, ServerNode!Insert,
        Served!Insert, ServerNode!Holds, Served!Holds, ServerNode!Equivalent,
        Served!Equivalent, ServerNode!Less, Served!Less,
        ServerNode!WireBlock, Served!WireBlock, ServerNode!Leftover,
        Served!Leftover, ServerNode!AcceptBlock, Served!AcceptBlock,
        ServerNode!ServingEnds, Served!ServingEnds, ServerNode!Build,
        Served!Build, ServerNode!CreateBlock, Served!CreateBlock,
        ServerNode!CreateEmptyBlock, Served!CreateEmptyBlock,
        ServerNode!BuilderIdle, Served!BuilderIdle, ServerNode!Waiting,
        Served!Waiting, ServerNode!EnoughPending, Served!EnoughPending,
        ServerNode!Cardinality, Served!Cardinality, ServerNode!IsFiniteSet,
        Served!IsFiniteSet, ServerNode!NewBlock, Served!NewBlock,
        ServerNode!GetChainLength, Served!GetChainLength,
        ServerNode!CreateFullBlock, Served!CreateFullBlock, ServerNode!Fits,
        Served!Fits, ServerNode!Copies, Served!Copies,
        ServerNode!CreateAborts, Served!CreateAborts, ServerNode!CreateTraps,
        Served!CreateTraps, ServerNode!SubmitBlock, Served!SubmitBlock,
        ServerNode!SubmitAppends, Served!SubmitAppends, ServerNode!Conflicts,
        Served!Conflicts, ServerNode!Intersection, Served!Intersection,
        ServerNode!TransactionsIn, Served!TransactionsIn,
        ServerNode!TransactionsOf, Served!TransactionsOf,
        ServerNode!Examined, Served!Examined, ServerNode!WithArrived,
        Served!WithArrived, ServerNode!FirstOf, Served!FirstOf,
        ServerNode!Below, Served!Below, ServerNode!Plus, Served!Plus,
        ServerNode!GetSubChain,
        Served!GetSubChain, ServerNode!InFlight, Served!InFlight,
        ServerNode!SimpleAddBlock, Served!SimpleAddBlock,
        ServerNode!SubmitRefuses, Served!SubmitRefuses, ServerNode!EraseAll,
        Served!EraseAll, ServerNode!vars, Served!vars, ServerNode!TypeOK,
        Served!TypeOK, ServerNode!Range, Served!Range, ServerNode!IsBlock,
        Served!IsBlock, ServerNode!IsPool, Served!IsPool,
        ServerNode!HashPointsBack, Served!HashPointsBack,
        ServerNode!IndexNotAhead, Served!IndexNotAhead,
        ServerNode!InFlightAnchored, Served!InFlightAnchored,
        ServerNode!InFlightBuffered, Served!InFlightBuffered,
        ServerNode!OnlySigned, Served!OnlySigned

(* What Node assumes of its constants is what Network does.                *)
LEMMA NodeAssumptionHolds ==
    /\ Served!NaNAssumption
    /\ Served!TransactionAssumption
    /\ Served!PairAssumption
    /\ Served!StartAssumption
    /\ Served!UnsignedAssumption
    /\ Served!NumberAssumption
BY Zenon, NodeAssumption
   DEF ServerNode!NaNAssumption, Served!NaNAssumption,
       ServerNode!TransactionAssumption, Served!TransactionAssumption,
       ServerNode!PairAssumption, Served!PairAssumption,
       ServerNode!StartAssumption, Served!StartAssumption,
       ServerNode!UnsignedAssumption, Served!UnsignedAssumption,
       ServerNode!NumberAssumption, Served!NumberAssumption,
       ServerNode!IsPool, Served!IsPool, ServerNode!Equivalent,
       Served!Equivalent, ServerNode!Less, Served!Less,
       ServerNode!Below, Served!Below

(* What NodeProofs shows of every Node, step by step, of the server's.     *)
LEMMA NodeInvariant ==
    /\ ServerNode!Init => Served!IInv
    /\ Served!IInv /\ [ServerNode!Next]_(ServerNode!vars) => Served!IInv'
    /\ Served!IInv => /\ ServerNode!TypeOK
                      /\ ServerNode!HashPointsBack
                      /\ ServerNode!IndexNotAhead
                      /\ ServerNode!InFlightAnchored
                      /\ ServerNode!InFlightBuffered
                      /\ ServerNode!OnlySigned
<1>1. ServerNode!Init => Served!IInv
  BY SameNode, NodeAssumptionHolds, Served!InitIInv
<1>2. Served!IInv /\ [ServerNode!Next]_(ServerNode!vars) => Served!IInv'
  <2>1. [ServerNode!Next]_(ServerNode!vars) => [Served!Next]_(Served!vars)
    BY SameNode
  <2> QED BY <2>1, NodeAssumptionHolds, Served!StepIInv
<1>3. Served!IInv => /\ Served!TypeOK
                     /\ Served!HashPointsBack
                     /\ Served!IndexNotAhead
                     /\ Served!InFlightAnchored
                     /\ Served!InFlightBuffered
                     /\ Served!OnlySigned
  BY NodeAssumptionHolds, Served!IInvImplies
<1> QED BY <1>1, <1>2, <1>3, SameNode

(* Whatever the peers send and however the builder is interleaved with     *)
(* them, the chain of the server stays hung together and signed, its       *)
(* indices stay behind, and the block in flight stays anchored and         *)
(* buffered (main.cpp:66-75, Node.cpp:19-58, Connection.cpp:287-289).      *)
THEOREM ServerChainSound ==
    NetSpec => [](/\ ServerNode!HashPointsBack
                  /\ ServerNode!IndexNotAhead
                  /\ ServerNode!InFlightAnchored
                  /\ ServerNode!InFlightBuffered
                  /\ ServerNode!OnlySigned)
<1>1. NetSpec => ServerNode!Spec
  BY ServerImplementsNode DEF ServerIsNode
<1>2. ServerNode!Spec => []Served!IInv
  BY NodeInvariant, PTL DEF ServerNode!Spec
<1> QED BY <1>1, <1>2, NodeInvariant, PTL

(* Every variable of the composition keeps its type.                       *)
THEOREM NetworkTypes == NetSpec => []NetTypeOK
<1> DEFINE Inv == AnswersInv /\ ServeInv /\ builds \in BOOLEAN
<1>1. NetInit => Inv
  <2> SUFFICES ASSUME NetInit PROVE ServeInv /\ builds \in BOOLEAN
    BY AnswersInductive
  <2>1. ServeInv
    BY DEF NetInit, Init, ServeInv
  <2>2. builds \in BOOLEAN
    BY SetupAssumption DEF NetInit
  <2> QED BY <2>1, <2>2
<1>2. Inv /\ [NetNext]_netVars => Inv'
  <2> SUFFICES ASSUME Inv, [NetNext]_netVars PROVE ServeInv' /\ builds' = builds
    BY AnswersInductive
  <2>1. CASE Next /\ Beside
    BY <2>1, StepKeepsServe DEF AnswersInv, Beside
  <2>2. CASE BuilderStep \/ TransactionStep
    BY <2>2 DEF BuilderStep, TransactionStep, OnNodeObject, ServeInv
  <2>3. CASE UNCHANGED netVars
    BY <2>3 DEF netVars, vars, ServeInv
  <2> QED BY <2>1, <2>2, <2>3 DEF NetNext
<1>3. NetSpec => []Served!IInv
  BY ServerImplementsNode, NodeInvariant, PTL DEF ServerIsNode, ServerNode!Spec
<1>4. Inv /\ Served!IInv => NetTypeOK
  <2> SUFFICES ASSUME Inv PROVE TypeOK
    BY NodeInvariant DEF NetTypeOK
  <2>1. \A n \in Nodes : chain[n] \in Seq(Range(chain[n])) /\ chain[n] # <<>>
    BY DEF AnswersInv, WireInv, IsSequence
  <2>2. /\ DOMAIN asked = Consoles /\ DOMAIN toServer = Peers
        /\ DOMAIN toPeer = Peers /\ backlog \in Seq(Peers)
    BY DEF AnswersInv, WireInv, QueueInv
  <2> QED BY <2>1, <2>2 DEF ServeInv, TypeOK
<1> HIDE DEF Inv
<1> QED BY <1>1, <1>2, <1>3, <1>4, PTL DEF NetSpec
=============================================================================
