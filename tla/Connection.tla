----------------------------- MODULE Connection -----------------------------
(***************************************************************************)
(* A node that serves (main.cpp, serve), the peers that connect to it and  *)
(* the conversations between them (Network/Connection.cpp).                *)
(*                                                                         *)
(* serve accepts one peer at a time: the constructor of Connection runs    *)
(* the whole conversation and returns only when it is over.  A peer is     *)
(*   - a node that runs connect(): it executes the same go() on its side;  *)
(*   - or a console, the "echo ... gethosts|, getblocks|1," of main.cpp:78 *)
(*     that sends a few commands and goes away when it likes.              *)
(* The server's builder is not part of this module: see Network.  A node   *)
(* that serves does not connect too: its outgoing socket is bound to the   *)
(* port the listening one holds, and the constructor then ends the process *)
(* (Connection.cpp:22-26).                                                 *)
(*                                                                         *)
(* TCP keeps the order and loses nothing while both ends live, but it has  *)
(* no message borders: a recv returns the first bytes that have arrived,   *)
(* up to 1024 of them and wherever that cuts a message in two, and         *)
(* get_packet takes them for one packet.  Messages are records; what a     *)
(* handler reads of the text is in their fields.  The texts of a console   *)
(* end behind the '|' or the digits that are read, with a ',' or a line    *)
(* end; "_|" is its last word.  A "blocks" message carries one block: two  *)
(* do not fit in the 1024 bytes.                                           *)
(***************************************************************************)
EXTENDS Blockchain, FiniteSets

CONSTANTS
    Server,       \* the node that serves
    ClientNodes,  \* the nodes that connect to it
    Consoles,     \* the consoles that connect to it
    NoPeer,       \* the server is in accept()
    WirePairs,    \* the pairs of transactions a block on the wire carries
    StartChains,  \* the chains a node may start with
    Starts,       \* the heights consoles ask getblocks for
    Junk,         \* the currHash of a block on the wire
    Modulus,      \* 2^w for the w bits of an unsigned long
    MaxDigits,    \* the decimal digits of an unsigned long
    MaxChain,     \* bound: consoles send no blocks to a longer chain, and
                  \* none whose index is far from fitting there
    MaxSends      \* bound: the commands a console sends

Peers == ClientNodes \cup Consoles
Nodes == ClientNodes \cup {Server}

(* Each block names the hash of the block before it and, past the two a    *)
(* node may start with, has the next index.                                *)
Linked(c) ==
    \A i \in 2..Len(c) : /\ c[i].prevHash = c[i-1].currHash
                         /\ i > 2 => c[i].index = c[i-1].index + 1

ASSUME PeersAssumption ==
    /\ Server \notin Peers
    /\ NoPeer \notin Peers
    /\ ClientNodes \cap Consoles = {}
ASSUME WireAssumption ==
    \A pair \in WirePairs : Len(pair) = 2
ASSUME ChainsAssumption ==
    \A c \in StartChains : c \in Seq(Range(c)) /\ c # <<>> /\ Linked(c)
ASSUME BoundsAssumption ==
    /\ Starts \subseteq Nat /\ MaxChain \in Nat /\ MaxSends \in Nat
    /\ Modulus \in Nat \ {0} /\ MaxDigits \in Nat

VARIABLES
    chain,      \* the chain of each node
    server,     \* "accept", "go", "spin", "dead": where serve is
    serving,    \* the peer of the current Connection, or NoPeer
    backlog,    \* the connections the listening socket holds
    peer,       \* "new", "open", "hungup", "closed", "spin", "dead"
    asked,      \* the commands each console has sent so far
    toServer,   \* for each peer, what it sent and the server has not read
    toPeer      \* for each peer, what the server sent and it has not read

vars == <<chain, server, serving, backlog, peer, asked, toServer, toPeer>>

---------------------------------------------------------------------------
(* Messages.                                                               *)

Version(height) == [cmd |-> "version", height |-> height]
Verack == [cmd |-> "verack"]
GetBlocks(start) == [cmd |-> "getblocks", start |-> start]
Blocks(bs) == [cmd |-> "blocks", blocks |-> bs]
GetHosts == [cmd |-> "gethosts"]
Hosts == [cmd |-> "hosts"]
GetTrans == [cmd |-> "getrans"]
Trans == [cmd |-> "transactions"]
Quit == [cmd |-> "_"]

(* What a packet that ended inside a message leaves of it for the next.    *)
Scrap == [cmd |-> "scrap"]

(* stoul throws on a text without a digit.                                 *)
NoNumber == -1

(* A height that is not there up to its last digit.                        *)
CutHeights(n) ==
    {NoNumber} \cup {q \in 1..n : \E d \in 1..MaxDigits : q = n \div 10^d}

(* What the first bytes of a message are taken for: the message, if only   *)
(* its end is missing; the command with another height; or as little as a  *)
(* scrap.  Of "_|", the '_' alone is "_", too.                             *)
Torn(m) ==
    CASE m.cmd = "_"         -> {m}
      [] m.cmd = "version"   -> {Scrap} \cup {Version(h) : h \in CutHeights(m.height)}
      [] m.cmd = "getblocks" -> {Scrap, m} \cup {GetBlocks(h) : h \in CutHeights(m.start)}
      [] OTHER               -> {Scrap, m}

(***************************************************************************)
(* recv: the packets that the messages of a queue can give.  Only the      *)
(* first message is executed; what follows it ends up behind the last      *)
(* field that is read, and is lost, except for the rest of a message that  *)
(* is cut.                                                                 *)
(***************************************************************************)
Packet(m, rest) == [first |-> m, rest |-> rest]

(* (Mutant first: the last message stays in the buffer.)                   *)
PacketsAgain(queue) ==
    LET From(k) == SubSeq(queue, k, Len(queue))
    IN  {Packet(Head(queue), From(k)) : k \in 1..Len(queue)}

Packets(queue) ==
    LET From(k) == SubSeq(queue, k + 1, Len(queue))
    IN  {Packet(Head(queue), From(k)) : k \in 1..Len(queue)}
        \cup {Packet(Head(queue), <<Scrap>> \o From(k)) : k \in 2..Len(queue)}
        \cup {Packet(m, <<Scrap>> \o From(1)) :
                  m \in IF queue = <<>> THEN {} ELSE Torn(Head(queue))}

(* do_command compares what stands before the first '|'.  A node sends     *)
(* "verack", "hosts" and "transactions" without a '|' right behind the     *)
(* word, and "blocks" too when no block follows: do_command then answers   *)
(* "Command not found!".  The verack it would know does nothing anyway.    *)
Recognised(m) ==
    \/ m.cmd \in {"version", "gethosts", "getblocks", "getrans"}
    \/ m.cmd = "blocks" /\ m.blocks # <<>>

(* What the requests of a peer are answered with.                          *)
IsAnswer(request, reply) ==
    \/ request.cmd = "gethosts" /\ reply = Hosts
    \/ request.cmd = "getrans" /\ reply = Trans
    \/ request.cmd = "getblocks" /\ reply.cmd = "blocks"

(***************************************************************************)
(* do_command on a node with chain c: the chain afterwards, what is sent   *)
(* back, and whether the process survives.                                 *)
(***************************************************************************)
Outcome(c, reply) == [chain |-> c, reply |-> reply, alive |-> TRUE]
Death(c) == [chain |-> c, reply |-> <<>>, alive |-> FALSE]

(* cmd_version: a node that is behind would ask for blocks, but "behind"   *)
(* is unsigned.  The verack is sent before the height is read.             *)
(* (Mutant first: the handler answers a version with its own.)             *)
CmdVersionReplies(c, m) == Outcome(c, <<Verack, Version(Len(c))>>)

CmdVersion(c, m) ==
    LET behind == (m.height - Len(c)) % Modulus
    IN  IF m.height = NoNumber
        THEN [Death(c) EXCEPT !.reply = <<Verack>>]
        ELSE Outcome(c, IF behind < 0 THEN <<Verack, GetBlocks(Len(c))>>
                                      ELSE <<Verack>>)

(* cmd_getblocks: GetSubChain of a start beyond the end throws, and the    *)
(* two transactions of every block are read, there or not: a block without *)
(* any is the null pointer, and behind a single one there is no object.    *)
CmdGetBlocks(c, m) ==
    LET bs == GetSubChain(c, m.start)
    IN  IF \/ m.start = NoNumber \/ m.start > Len(c)
           \/ \E i \in DOMAIN bs : Len(bs[i].txs) < 2
        THEN Death(c)
        ELSE Outcome(c, <<Blocks(bs)>>)

(* cmd_blocks, with the assertions of unpack_blocks on the signatures.     *)
(* (Mutant first: the index is not compared.)                              *)
FitsByHash(c, b) == b.prevHash = GetLastBlock(c).currHash

Fits(c, b) == /\ b.prevHash = GetLastBlock(c).currHash
              /\ b.index = GetLastBlock(c).index + 1

(* (Mutant: the block is stored as it came, with the hash it claims.)      *)
CmdBlocksAsIs(c, m) ==
    LET b == m.blocks[1]
    IN  IF \E i \in DOMAIN b.txs : ~b.txs[i].signed
        THEN Death(c)
        ELSE Outcome(IF Fits(c, b) THEN SimpleAddBlock(c, b) ELSE c, <<>>)

CmdBlocks(c, m) ==
    LET b == m.blocks[1]
    IN  IF \E i \in DOMAIN b.txs : ~b.txs[i].signed
        THEN Death(c)
        ELSE Outcome(IF Fits(c, b) THEN AddBlock(c, b) ELSE c, <<>>)

DoCommand(c, m) ==
    IF ~Recognised(m)
    THEN Outcome(c, <<>>)
    ELSE CASE m.cmd = "version"   -> CmdVersion(c, m)
           [] m.cmd = "gethosts"  -> Outcome(c, <<Hosts>>)
           [] m.cmd = "getrans"   -> Outcome(c, <<Trans>>)
           [] m.cmd = "getblocks" -> CmdGetBlocks(c, m)
           [] m.cmd = "blocks"    -> CmdBlocks(c, m)

Gone(p) == peer[p] \in {"closed", "dead"}

---------------------------------------------------------------------------
Init ==
    /\ chain \in [Nodes -> StartChains]
    /\ server = "accept"
    /\ serving = NoPeer
    /\ backlog = <<>>
    /\ peer = [p \in Peers |-> "new"]
    /\ asked = [p \in Consoles |-> <<>>]
    /\ toServer = [p \in Peers |-> <<>>]
    /\ toPeer = [p \in Peers |-> <<>>]

(* The peer's socket connects as soon as the server listens, before the    *)
(* server accepts.  A node then runs go(), which sends its version first.  *)
NodeConnects(n) ==
    /\ server # "dead"
    /\ peer[n] = "new"
    /\ peer' = [peer EXCEPT ![n] = "open"]
    /\ backlog' = Append(backlog, n)
    /\ toServer' = [toServer EXCEPT ![n] = <<Version(Len(chain[n]))>>]
    /\ UNCHANGED <<chain, server, serving, asked, toPeer>>

ConsoleConnects(p) ==
    /\ server # "dead"
    /\ peer[p] = "new"
    /\ peer' = [peer EXCEPT ![p] = "open"]
    /\ backlog' = Append(backlog, p)
    /\ UNCHANGED <<chain, server, serving, asked, toServer, toPeer>>

(* What a console types: a request, the end, or a block that is built on   *)
(* some block of the server's chain.                                       *)
Commands ==
    {GetHosts, GetTrans, Quit} \cup {GetBlocks(n) : n \in Starts}

ConsoleBlocks ==
    {Blocks(<<[index |-> i, prevHash |-> chain[Server][j].currHash,
               currHash |-> h, txs |-> pair]>>) :
        i \in {Len(chain[Server]), Len(chain[Server]) + 1},
        j \in DOMAIN chain[Server], h \in Junk, pair \in WirePairs}

(* The last command within the bound is no block, whose effect no answer   *)
(* would show.                                                             *)
SendsBlocks(p) ==
    Len(chain[Server]) < MaxChain /\ Len(asked[p]) + 1 < MaxSends

ConsoleSends(p) ==
    /\ server # "dead"
    /\ peer[p] = "open"
    /\ Len(asked[p]) < MaxSends
    /\ \E m \in Commands \cup (IF SendsBlocks(p) THEN ConsoleBlocks ELSE {}) :
          /\ toServer' = [toServer EXCEPT ![p] = Append(@, m)]
          /\ asked' = [asked EXCEPT ![p] = Append(@, m)]
    /\ UNCHANGED <<chain, server, serving, backlog, peer, toPeer>>

ConsoleCloses(p) ==
    /\ peer[p] = "open"
    /\ peer' = [peer EXCEPT ![p] = "closed"]
    /\ UNCHANGED <<chain, server, serving, backlog, asked, toServer, toPeer>>

(***************************************************************************)
(* The server's side.                                                      *)
(***************************************************************************)

(* accept, and the first thing go() does: send_version.                    *)
Accept ==
    /\ server = "accept"
    /\ backlog # <<>>
    /\ serving' = Head(backlog)
    /\ backlog' = Tail(backlog)
    /\ server' = "go"
    /\ toPeer' = [toPeer EXCEPT ![Head(backlog)] =
                                    Append(@, Version(Len(chain[Server])))]
    /\ UNCHANGED <<chain, peer, asked, toServer>>

(* One turn of the loop in go().                                           *)
Receives(p, packet) ==
    /\ server = "go"
    /\ serving = p
    /\ packet \in Packets(toServer[p])
    /\ toServer' = [toServer EXCEPT ![p] = packet.rest]

ServerExecutes(p, packet) ==
    /\ Receives(p, packet)
    /\ packet.first # Quit
    /\ LET out == DoCommand(chain[Server], packet.first)
       IN  /\ chain' = [chain EXCEPT ![Server] = out.chain]
           /\ toPeer' = [toPeer EXCEPT ![p] = @ \o out.reply]
           /\ server' = IF out.alive THEN "go" ELSE "dead"
    /\ UNCHANGED <<serving, backlog, peer, asked>>

(* What the process does not survive: a reply to a peer that has closed,   *)
(* as the second send on such a socket raises SIGPIPE; and a scrap that    *)
(* begins with a '|' or with a zero byte, from whose empty command go()    *)
(* takes a character away, or one that is "blocks" without its fields.     *)
ServerDies(p, packet) ==
    /\ Receives(p, packet)
    /\ \/ Gone(p) /\ DoCommand(chain[Server], packet.first).reply # <<>>
       \/ packet.first = Scrap
    /\ server' = "dead"
    /\ UNCHANGED <<chain, serving, backlog, peer, asked, toPeer>>

(* "_" leaves the loop, and so does a scrap of one character; the          *)
(* constructor closes the socket and serve accepts the next peer.          *)
(* (Mutant first: the finished connection is not forgotten.)               *)
QuitKeepsPeer(p, packet) ==
    /\ Receives(p, packet)
    /\ packet.first \in {Quit, Scrap}
    /\ server' = "accept"
    /\ peer' = [peer EXCEPT ![p] = IF @ = "open" THEN "hungup" ELSE @]
    /\ UNCHANGED <<chain, serving, backlog, asked, toPeer>>

ServerQuits(p, packet) ==
    /\ Receives(p, packet)
    /\ packet.first \in {Quit, Scrap}
    /\ server' = "accept"
    /\ serving' = NoPeer
    /\ peer' = [peer EXCEPT ![p] = IF @ = "open" THEN "hungup" ELSE @]
    /\ UNCHANGED <<chain, backlog, asked, toPeer>>

(* The peer is gone: recv returns 0, or -1 after a reset that discards     *)
(* what was still there.  The packet is empty and go() calls pop_back on   *)
(* an empty string, which is undefined.  Built with a checked library the  *)
(* process aborts; built without, the string's length wraps, the command   *)
(* is not found, and the loop goes on like this for ever.                  *)
ServerFindsPeerGone(p) ==
    /\ server = "go"
    /\ serving = p
    /\ Gone(p)
    /\ server' \in {"spin", "dead"}
    /\ toServer' = [toServer EXCEPT ![p] = <<>>]
    /\ UNCHANGED <<chain, serving, backlog, peer, asked, toPeer>>

(***************************************************************************)
(* The side of a node that connected: the same go().                       *)
(***************************************************************************)
NodeExecutes(n, packet) ==
    /\ peer[n] \in {"open", "hungup"}
    /\ packet \in Packets(toPeer[n])
    /\ toPeer' = [toPeer EXCEPT ![n] = packet.rest]
    /\ LET out == DoCommand(chain[n], packet.first)
       IN  /\ chain' = [chain EXCEPT ![n] = out.chain]
           /\ toServer' = [toServer EXCEPT ![n] = @ \o out.reply]
           /\ peer' = [peer EXCEPT ![n] = IF out.alive THEN @ ELSE "dead"]
    /\ UNCHANGED <<server, serving, backlog, asked>>

(* A scrap ends go(), and with it the connection, or the process.          *)
NodeLeaves(n, packet) ==
    /\ peer[n] \in {"open", "hungup"}
    /\ packet \in Packets(toPeer[n])
    /\ packet.first = Scrap
    /\ toPeer' = [toPeer EXCEPT ![n] = packet.rest]
    /\ \E after \in {"closed", "dead"} : peer' = [peer EXCEPT ![n] = after]
    /\ UNCHANGED <<chain, server, serving, backlog, asked, toServer>>

NodeFindsServerGone(n) ==
    /\ \/ peer[n] = "open" /\ server = "dead"
       \/ peer[n] = "hungup"
    /\ \E after \in {"spin", "dead"} : peer' = [peer EXCEPT ![n] = after]
    /\ toPeer' = [toPeer EXCEPT ![n] = <<>>]
    /\ UNCHANGED <<chain, server, serving, backlog, asked, toServer>>

---------------------------------------------------------------------------
ServerStep ==
    \/ Accept
    \/ \E p \in Peers : ServerFindsPeerGone(p)
    \/ \E p \in Peers : \E packet \in Packets(toServer[p]) : ServerExecutes(p, packet)
    \/ \E p \in Peers : \E packet \in Packets(toServer[p]) : ServerDies(p, packet)
    \/ \E p \in Peers : \E packet \in Packets(toServer[p]) : ServerQuits(p, packet)

NodeStep(n) ==
    \/ NodeFindsServerGone(n)
    \/ \E packet \in Packets(toPeer[n]) : NodeExecutes(n, packet)
    \/ \E packet \in Packets(toPeer[n]) : NodeLeaves(n, packet)

Next ==
    \/ ServerStep
    \/ \E n \in ClientNodes : NodeConnects(n)
    \/ \E n \in ClientNodes : NodeStep(n)
    \/ \E p \in Consoles : ConsoleConnects(p)
    \/ \E p \in Consoles : ConsoleSends(p)
    \/ \E p \in Consoles : ConsoleCloses(p)

Spec == Init /\ [][Next]_vars

(* The loops of serve and go have nothing to wait for but their sockets.   *)
FairSpec ==
    /\ Spec
    /\ WF_vars(ServerStep)
    /\ \A n \in ClientNodes : WF_vars(NodeStep(n))

(* The console that is served does not stay for ever: echo ends, and       *)
(* closes the connection.                                                  *)
ServedConsolesLeave ==
    /\ FairSpec
    /\ \A p \in Consoles : WF_vars(serving = p /\ ConsoleCloses(p))

---------------------------------------------------------------------------
(* Correctness.                                                            *)

TypeOK ==
    /\ \A n \in Nodes : chain[n] \in Seq(Range(chain[n])) /\ chain[n] # <<>>
    /\ server \in {"accept", "go", "spin", "dead"}
    /\ serving \in Peers \cup {NoPeer}
    /\ server = "accept" => serving = NoPeer
    /\ server \in {"go", "spin"} => serving # NoPeer
    /\ backlog \in Seq(Peers)
    /\ peer \in [Peers -> {"new", "open", "hungup", "closed", "spin", "dead"}]
    /\ DOMAIN asked = Consoles
    /\ DOMAIN toServer = Peers
    /\ DOMAIN toPeer = Peers

(* As long as no builder appends, the chain of every node is linked,       *)
(* whatever blocks come in, in whatever order, however late                *)
(* (Connection.cpp:287-289, Blockchain.cpp:21-25).                         *)
ServedChainLinked == \A n \in Nodes : Linked(chain[n])

(* A console hears the server's version first.  Everything behind it is an *)
(* answer to a request of its own: in the order of the requests and each   *)
(* at most once, although packets run together or end inside a request,    *)
(* requests are lost and the chain grows between question and answer; and  *)
(* the blocks it gets are the chain from the height it asked for on, or    *)
(* from a height that is the first digits of that one, when recv returned  *)
(* no more of the request (Connection.cpp:79-84, 100-134, 243-261,         *)
(* 407-428).                                                               *)
Answers(p) == IF toPeer[p] = <<>> THEN <<>> ELSE Tail(toPeer[p])

IsSegment(request, reply) ==
    request.cmd = "getblocks" =>
        \E start \in {request.start} \cup (CutHeights(request.start) \ {NoNumber}) :
            LET last == start + Len(reply.blocks)
            IN  /\ last <= Len(chain[Server])
                /\ reply.blocks = SubSeq(chain[Server], start + 1, last)

AnswersInOrder ==
    \A p \in Consoles :
        /\ toPeer[p] # <<>> => toPeer[p][1].cmd = "version"
        /\ \E f \in [DOMAIN Answers(p) -> DOMAIN asked[p]] :
              /\ \A i, j \in DOMAIN f : i < j => f[i] < f[j]
              /\ \A i \in DOMAIN f :
                    /\ IsAnswer(asked[p][f[i]], Answers(p)[i])
                    /\ IsSegment(asked[p][f[i]], Answers(p)[i])

(* Two nodes that talk fall silent: their go() loops answer each other     *)
(* only finitely often (Connection.cpp:104-110, 136-152).                  *)
NodesFallSilent ==
    \A n \in ClientNodes :
        <>[][UNCHANGED <<toServer[n], toPeer[n]>>]_vars
=============================================================================
