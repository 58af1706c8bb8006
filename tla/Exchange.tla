------------------------------ MODULE Exchange ------------------------------
(***************************************************************************)
(* One request and its reply, from the users who sign transactions to the  *)
(* items the other side has read: User.cpp, what a node holds, the packing *)
(* and unpacking of Wire.  It is the story of test_unpack_blocks,          *)
(* test_node_hosts_command and test_node_transactions_command, and of the  *)
(* same handlers across a socket.                                          *)
(*                                                                         *)
(* A private key is 64 digits, and they are the address, too; the curve is *)
(* left to Ecdsa: a signature says who signed what.  What users sign are   *)
(* numbers, never NaN.                                                     *)
(***************************************************************************)
EXTENDS Wire, TransactionSet

CONSTANTS
    Keys,           \* what genRandom returns
    Hosts,          \* the hosts AddHost is called with
    OwnHost,        \* the node's own entry in knownHosts
    Hash0,          \* the hashes, never assigned, of a new block
    Stales,         \* bound: the bytes left in strTime and in the buffers
    BlockAmounts,   \* bound: the amounts a block's k-th transaction may have
    PoolAmounts,    \* bound: those of the transactions in the pool
    MaxUsers,       \* bound: User objects
    MaxPool         \* bound: transactions in the pool

ASSUME StalesAssumption == Stales \subseteq [0..MAX_TRANSACTIONS -> Stale]
ASSUME AmountsAssumption ==
    PoolAmounts \subseteq Int /\ BlockAmounts \in Seq(Seq(SUBSET Int))

(* An address is any text without a '|': AddHost looks at no character.    *)
ASSUME HostsAssumption ==
    \A h \in Hosts \cup {OwnHost} :
        /\ h = [address |-> h.address, port |-> h.port]
        /\ h.port \in Int
        /\ h.address \in Seq(Range(h.address)) /\ Bar \notin Range(h.address)

Amounts ==
    PoolAmounts \cup UNION {UNION Range(a) : a \in Range(BlockAmounts)}

(* An amount with all but its first d decimals cut off.                    *)
Truncated(n, d) == n - (n % TenTo[Decimals - d])

(* What is shown of a float is read as that float; a number between it and *)
(* one that is read as it is so, too; and no number is read as more than   *)
(* twice itself.                                                           *)
ASSUME FloatAssumption ==
    \A n \in Amounts \cap Nat :
        /\ stof(n) = n
        /\ \A d \in 0..Decimals : stof(Truncated(n, d)) = n =>
               \A e \in d..Decimals : stof(Truncated(n, e)) = n
        /\ 2 * Kept(n) < n => stof(Kept(n)) # n

VARIABLES
    request,    \* what the peer asks for: decides what happens before
    users,      \* the User objects
    knownHosts, \* the node's hosts
    pending,    \* its pool
    block,      \* the transactions of the block that is being filled
    chain,      \* its chain
    process,    \* "running" or "ended"
    reply,      \* what was sent, or <<>>: [sent, live, stale, text]
    received    \* what became of it, or <<>>: [way, alive, items]

held == <<knownHosts, pending, block, chain>>
vars == <<request, users, held, process, reply, received>>

---------------------------------------------------------------------------
(* Signatures.                                                             *)

(* The text that is hashed: both addresses and the amount without its dot. *)
HashTransaction(sender, receiver, amount) ==
    [from |-> sender, to |-> receiver, digits |-> amount]

CreateSignature(key, hash) ==
    <<[r |-> key, of |-> hash], [s |-> key, of |-> hash]>>

CheckSignature(t) ==
    t.signature = CreateSignature(t.sender,
                      HashTransaction(t.sender, t.receiver, t.amount))

(* By a user with an address and a private key of his own.                 *)
CreateTransaction(user, receiver, amount) ==
    [sender    |-> user.address,
     receiver  |-> receiver,
     amount    |-> amount,
     signature |-> CreateSignature(user.key,
                       HashTransaction(user.address, receiver, amount))]

---------------------------------------------------------------------------
Init ==
    /\ request \in {"getblocks", "gethosts", "getrans"}
    /\ users = <<>>
    /\ knownHosts = {OwnHost}
    /\ pending = {}
    /\ block = <<>>
    /\ chain = <<CreateGenesisBlock(Hash0)>>
    /\ process = "running"
    /\ reply = <<>>
    /\ received = <<>>

(* Bound: users come first, and only where transactions follow.            *)
UsersCome ==
    /\ process = "running"
    /\ request # "gethosts"
    /\ pending = {} /\ block = <<>> /\ Len(chain) = 1 /\ reply = <<>>

(* AssignPrivatePublicKey: a new key, and an address to it.                *)
AssignPrivatePublicKey(k) == [key |-> k, address |-> k]

CreateUser(k) ==
    /\ UsersCome /\ Len(users) < MaxUsers
    /\ users' = Append(users, AssignPrivatePublicKey(k))
    /\ UNCHANGED <<request, held, process, reply, received>>

(* A copy takes the address over, and then gets a key, and with it an      *)
(* address, of its own.  (Mutant first: the address is taken last.)        *)
CopyKeepsAddress(user, k) == [key |-> k, address |-> user.address]

Copied(user, k) == AssignPrivatePublicKey(k)

CopyUser(i, k) ==
    /\ UsersCome /\ Len(users) < MaxUsers
    /\ users' = Append(users, Copied(users[i], k))
    /\ UNCHANGED <<request, held, process, reply, received>>

(* operator=: key and address are the other's.  "users[userID] = this"     *)
(* writes to a vector that only default-constructed users enlarge; behind  *)
(* its end the write is undefined.                                         *)
AssignUser(i, j) ==
    /\ UsersCome
    /\ users' = [users EXCEPT ![i] = users[j]]
    /\ process' \in {"running", "ended"}
    /\ UNCHANGED <<request, held, reply, received>>

---------------------------------------------------------------------------
(* What the node holds when it is asked.                                   *)

(* A signed transaction goes into the block or, where transactions are     *)
(* going to be asked for, into the pool.  Block::AddTransaction asserts    *)
(* that there were at most ten, and that the signature is right.           *)
Pay(i, j, n) ==
    /\ process = "running" /\ reply = <<>>
    /\ LET t == CreateTransaction(users[i], users[j].address, n)
       IN  \/ /\ request = "getblocks" /\ Len(chain) \in DOMAIN BlockAmounts
              /\ Len(block) < Len(BlockAmounts[Len(chain)])
              /\ n \in BlockAmounts[Len(chain)][Len(block) + 1]
              /\ IF Len(block) <= 10 /\ CheckSignature(t)
                 THEN block' = Append(block, t) /\ UNCHANGED process
                 ELSE process' = "ended" /\ UNCHANGED block
              /\ UNCHANGED pending
           \/ /\ request = "getrans"
              /\ n \in PoolAmounts /\ Cardinality(pending) < MaxPool
              /\ pending' = Insert(pending, t)
              /\ UNCHANGED <<block, process>>
    /\ UNCHANGED <<request, users, knownHosts, chain, reply, received>>

(* The block is linked, or stored as it is, as in test_unpack_blocks.      *)
AppendBlock ==
    /\ process = "running" /\ reply = <<>>
    /\ request = "getblocks" /\ block # <<>>
    /\ LET b == [index |-> Len(chain) + 1, prevHash |-> Hash0,
                 currHash |-> Hash0, txs |-> block]
       IN  chain' \in {SimpleAddBlock(chain, b), AddBlock(chain, b)}
    /\ block' = <<>>
    /\ UNCHANGED <<request, users, knownHosts, pending, process, reply, received>>

(* A port of at most 65535 will do.  inet_pton returns 0 for what is no    *)
(* address, and -1 only for an unknown family.                             *)
AddHost(h) ==
    /\ process = "running" /\ reply = <<>>
    /\ request = "gethosts"
    /\ h.port <= 65535
    /\ knownHosts' = knownHosts \cup {h}
    /\ UNCHANGED <<request, users, pending, block, chain, process, reply, received>>

---------------------------------------------------------------------------
(* The reply: the one that is sent, or that of the tests.                  *)

(* A block with fewer than two transactions is read beyond their vector,   *)
(* which is taken to end the process; the genesis block has none.          *)
ReplyBlocks(start, stale) ==
    LET blocks == GetSubChain(chain, start)
    IN  IF \E i \in DOMAIN blocks : Len(blocks[i].txs) < MAX_TRANSACTIONS
        THEN process' = "ended" /\ UNCHANGED reply
        ELSE /\ reply' = [sent |-> blocks, live |-> TRUE, stale |-> stale,
                          text |-> cmd_getblocks(blocks, stale)]
             /\ UNCHANGED process

(* The order in which a pool is gone through.                              *)
InOrder(pool) ==
    CHOOSE ts \in [1..Cardinality(pool) -> pool] :
        \A i, j \in DOMAIN ts : i < j => Less(ts[i], ts[j])

ReplyTransactions(live, stale) ==
    LET ts == InOrder(pending)
    IN  /\ reply' = [sent |-> ts, live |-> live, stale |-> stale,
                     text |-> IF live THEN cmd_gettransactions(ts, stale[1])
                                      ELSE cmd_gettransaction_test(ts, stale[1])]
        /\ UNCHANGED process

ReplyHosts(live, stale) ==
    LET hosts == SetToSeq(knownHosts)
    IN  /\ reply' = [sent |-> hosts, live |-> live, stale |-> stale,
                     text |-> IF live THEN cmd_gethosts(hosts)
                                      ELSE cmd_gethosts_test(hosts)]
        /\ UNCHANGED process

Reply(stale) ==
    /\ process = "running" /\ reply = <<>> /\ block = <<>>
    /\ \/ request = "getblocks" /\ \E n \in 0..Len(chain) : ReplyBlocks(n, stale)
       \/ request = "getrans" /\ \E l \in BOOLEAN : ReplyTransactions(l, stale)
       \/ request = "gethosts" /\ \E l \in BOOLEAN : ReplyHosts(l, stale)
    /\ UNCHANGED <<request, users, held, received>>

(* Two signatures of every block are asserted.                             *)
unpack_blocks(text) ==
    LET outcome == BlocksIn(text)
    IN  IF \A b \in Range(outcome.items) :
               \A i \in 1..MAX_TRANSACTIONS : CheckSignature(b.txs[i])
        THEN outcome
        ELSE Dies

(* The reader of such a reply on a text.                                   *)
Read(text) ==
    CASE request = "getblocks" -> unpack_blocks(text)
      [] request = "getrans"   -> cmd_transactions_test(text)
      [] request = "gethosts"  -> cmd_hosts_test(text)

Taken(way, outcome) ==
    [way |-> way, alive |-> outcome.alive, items |-> outcome.items]

(* The whole text, as the tests hand it over.                              *)
ReadsText ==
    /\ reply # <<>> /\ received = <<>>
    /\ received' = Taken("text", Read(reply.text))
    /\ UNCHANGED <<request, users, held, process, reply>>

(* Through a socket do_command knows "blocks" only, with a '|' behind it.  *)
ReadsPacket(k) ==
    /\ reply # <<>> /\ received = <<>> /\ reply.live
    /\ Fits(reply.text, k)
    /\ LET text == get_packet(reply.text, k)
       IN  received' = Taken("packet",
               IF unpack_data(text, Bar)[1] = <<Word("blocks")>>
               THEN Read(text)
               ELSE Returns(<<>>))
    /\ UNCHANGED <<request, users, held, process, reply>>

Next ==
    \/ \E k \in Keys : CreateUser(k)
    \/ \E k \in Keys : \E i \in DOMAIN users : CopyUser(i, k)
    \/ \E i, j \in DOMAIN users : i # j /\ AssignUser(i, j)
    \/ \E i, j \in DOMAIN users : i # j /\ \E n \in Amounts : Pay(i, j, n)
    \/ AppendBlock
    \/ \E h \in Hosts : AddHost(h)
    \/ \E stale \in Stales : Reply(stale)
    \/ ReadsText
    \/ reply # <<>> /\ \E k \in 1..Len(reply.text) : ReadsPacket(k)

Spec == Init /\ [][Next]_vars

---------------------------------------------------------------------------
(* Correctness.                                                            *)

IsTransaction(t) ==
    /\ t.sender \in Keys /\ t.receiver \in Keys /\ t.amount \in Int
    /\ t = CreateTransaction([key |-> t.signature[1].r, address |-> t.sender],
                             t.receiver, t.amount)

TypeOK ==
    /\ users \in Seq([key : Keys, address : Keys])
    /\ OwnHost \in knownHosts /\ knownHosts \subseteq Hosts \cup {OwnHost}
    /\ \A t \in pending \cup Range(block) : IsTransaction(t)
    /\ IsPool(pending)
    /\ process \in {"running", "ended"}

(* What a user signs verifies under the user's address, whether the object *)
(* was named, copied or assigned (User.cpp:15-40, Block.cpp:26-34).        *)
OwnTransactionsVerify ==
    \A i, j \in DOMAIN users : \A n \in Amounts :
        CheckSignature(CreateTransaction(users[i], users[j].address, n))

(* What the reader of a complete reply ought to find: blocks with as many  *)
(* transactions as are packed, transactions from the last to the first.    *)
Expected ==
    CASE request = "getblocks" ->
           [i \in DOMAIN reply.sent |->
               [reply.sent[i] EXCEPT !.txs = SubSeq(@, 1, MAX_TRANSACTIONS)]]
      [] request = "getrans"  -> Reverse(reply.sent)
      [] request = "gethosts" -> reply.sent

(* Nothing is read that was not sent, in whatever place the text is cut    *)
(* and whatever bytes stand in it: items arrive in order, without a gap,   *)
(* and as they were, except for a transaction whose amount was cut, whose  *)
(* signature then is wrong; and one packet brings one block at most        *)
(* (Connection.cpp:79-98, 370-405, Block.cpp:90-103, Transaction.cpp:36).  *)
ArrivesAsSent ==
    received # <<>> =>
        /\ Len(received.items) <= Len(Expected)
        /\ \A i \in DOMAIN received.items :
              \/ received.items[i] = Expected[i]
              \/ /\ request = "getrans"
                 /\ ~CheckSignature(received.items[i])
        /\ received.way = "packet" => Len(received.items) <= 1

(* So many decimals fit in the buffer that the float nearest to what they  *)
(* show is the one that was sent.                                          *)
Restored(n) ==
    \E d \in 0..Decimals :
        /\ stof(Truncated(n, d)) = n
        /\ Digits(n \div TenTo[Decimals]) + (IF d = 0 THEN 0 ELSE d + 1) < BufferLen

(* No delimiter in the byte behind a short amount.                         *)
Undivided(n, stale) == 0 <= n /\ (n < TenTo[BufferLen - 3] => stale = Other)

Readable ==
    CASE request = "getblocks" ->
           /\ reply.sent # <<>>
           /\ reply.stale[0] = Other
           /\ \A b \in Range(reply.sent) : \A i \in 1..MAX_TRANSACTIONS :
                 /\ Undivided(b.txs[i].amount, reply.stale[i])
                 /\ Restored(b.txs[i].amount)
      [] request = "getrans" ->
           /\ reply.sent # <<>> /\ ~reply.live
           /\ \A t \in Range(reply.sent) : Undivided(t.amount, reply.stale[1])
      [] request = "gethosts" ->
           ~reply.live /\ \A h \in knownHosts : h.port >= 0 /\ Dash \notin Range(h.address)

(* Exactly these replies can be read, and then in full.  The others end    *)
(* the reader: a reply without an item, a minus sign, a byte nobody wrote, *)
(* an amount that has lost more digits than a float tells apart, a '-' in  *)
(* an address, and every list of hosts or transactions in the format that  *)
(* is really sent (Connection.cpp:159-181, 300-316, 387, Transaction.cpp:  *)
(* 36, Node.cpp:73-80).                                                    *)
ReadExactlyWhen ==
    received # <<>> /\ received.way = "text" =>
        /\ received.alive <=> Readable
        /\ received.alive => Len(received.items) = Len(reply.sent)
=============================================================================
