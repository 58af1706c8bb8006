# A TLA+ development for Elliptic-Curve-Cryptocurrency

The repository is a small cryptocurrency in C++: users with secp256k1 keys sign
transactions, a node gathers them in pools, a builder puts them into blocks and
appends these after a random waiting time ("proof of elapsed time"), and nodes
exchange chains over TCP. This directory models that program in TLA+, checks
small instances with TLC and proves the central properties with TLAPS.

All line numbers refer to the files under `src/`.

## 1. Inventory

| component | state it keeps | operations | interacts through |
|---|---|---|---|
| `Blockchain/Transaction` | parties, amount, signature | `operator<` (by amount only), `GetTransactionMetadata` | stored in the node's `std::set` pools and in blocks |
| `Blockchain/Block` | index, time, two hashes, transactions | `CreateGenesisBlock`, `AddTransaction` (asserts), `CheckSignature`, `HashBlock`, `GetBlockMetaData` | chain, wire |
| `Blockchain/Blockchain` | `std::vector<Block>` | `AddBlock` (relinks), `SimpleAddBlock` (as is), `GetSubChain`, `GetLastBlock` | owned by a node |
| `Blockchain/User` | keys, address, static registry of users | key creation, `CreateTransaction`, `CreateSignature` (retries) | `Ecdsa`, `Sha256` |
| `Network/Node` | chain, `pending`/`buffer`/`new` pools, `maxTransactions`, known hosts | `CreateBlock`, `SubmitBlock` (sleeps), `AddTransaction`, `AddHost` | called by the builder loop and by connections |
| `main.cpp` `block_builder` | - | the loop `CreateBlock; SubmitBlock` | node |
| `main.cpp` `serve`, `connect` | sockets | accept one peer, run its conversation, accept the next | Connection |
| `Network/Connection` | socket, direction | `go`, `do_command` and the command handlers, packing and unpacking | node, TCP |
| `Cryptography/Uint256`, `FieldInt` | 8 words of 32 bits | add, subtract, shift, reciprocal; Barrett multiplication | `CurvePoint`, `Ecdsa` |
| `Cryptography/CurvePoint` | projective x, y, z | add, twice, multiply, normalize | `Ecdsa`, `Block::CheckSignature` |
| `Cryptography/Ecdsa` | - | sign, signWithHmacNonce, verify | `User`, `Block` |
| `Cryptography/Sha256`, `Sha256Hash`, `Utils` | hash state, 64-byte buffer | append, getHash, string conversions | everywhere |
| `Ramsch/` | - | an earlier experiment, not part of the build; its affine group law is the reference for `CurvePoint` | - |
| `Tests.cpp` | - | the tests `main` runs | - |

What is hard in this code:

* **Work on a snapshot.** `CreateBlock` reads the length of the chain, the last
  hash and the pool; `SubmitBlock` sleeps up to five seconds and then uses them.
  Everything the serving side does meanwhile lies in between.
* **Conflict detection by approximation.** The test that should find a
  transaction twice compares `buffer` (everything this builder ever put in a
  block) with `new_transactions` (everything announced since the last submission)
  and a sub-chain (computed from an index that may be stale), and compares by
  amount.
* **Uninitialised memory.** `maxTransactions` and the hashes of new blocks are
  never assigned.
* **Assertions as error handling.** A bad signature in a peer's block, or one
  copy too many in a block, ends the process.
* **Packets without length.** One `recv` is one packet: commands run together, and
  any of them, or a block, is cut where the bytes end, at 1024 of them at the latest.
* **Text without escapes.** Two delimiters divide everything; a minus sign or a
  byte nobody wrote may be one of them, an amount may be longer than its buffer,
  and what is packed for sending differs from what the readers expect.
* **Floats for money.** `stof` rounds what is left of an amount, which may give the
  amount that was signed or another one; and it takes "nan" for a number, with which
  no comparison is true and every element of a pool is equivalent.
* **A server for one peer at a time**, whose loop cannot see that a peer is gone.
* **Numeric edges** in the multi-word arithmetic and in the reduction of `Ecdsa::sign`.

What makes each component correct: pools are sets under the order they use;
a chain only grows, hangs together, and holds only signed transactions; the
builder appends no block that conflicts with what it compares with, and does not
livelock; a conversation answers what was asked, in order; nothing is read that
was not sent; the arithmetic agrees with its mathematical definition. `PROJECT.json` lists the hazards line by line.

## 2. Modules

```
the node
  TransactionSet, Blockchain     values: pools, chains
  Node          extends both; implements AppendOnlyTree   (builder and pools)
  Connection    extends Blockchain                        (serve, go, do_command)
  Network       extends Connection; implements Node       (serving thread and builder)
  NodeClaims, ConnectionClaims   what the repository says and the code does not do
  MCNode, MCConnection, MCNetwork                         instances for TLC
  NodeProofs <- NetworkProofs (also of Connection)        theorems

the text
  Wire          extends Blockchain                        (packing, unpacking)
  Exchange      extends Wire, TransactionSet              (users, one request, its reply)
                <- MCExchange, ExchangeProofs

the cryptography
  Sha256                         <- MCSha256, Sha256Proofs
  ModOrder                       <- MCModOrder, ModOrderProofs
  Uint256 <- HexText             numbers and hashes as bytes and text
          <- FieldInt            implements PrimeField; <- MCFieldInt,
                                 FieldIntProofs (with an instance of ModOrderProofs)
  EllipticCurve (reference) <- CurvePoint <- Ecdsa <- MCEcdsa, EcdsaProofs

Facts   sequences, numbers, induction, recursion, folds: lemmas all proofs use
```

**TransactionSet** - the algorithms of `std::set<Transaction>` under
`operator<`, which compares amounts: two transactions of one amount are one
element. `Insert`, `EraseAll`, `Intersection` say what `insert`, `erase` and
`set_intersection` then do. An amount is an integer or `NaN`: `Below` and `Plus` are
the float's `<` and `+`, and a NaN is the same element as anything else.

**Blockchain** - blocks as records, the chain as a sequence (position 0 of the
vector is element 1). `HashBlock` is an injective constructor over what the code
hashes: `prevHash`, the *current* value of `currHash`, and the text of the
transactions. Opaque values stand for hashes that are never assigned.

**Node** - one node. The variables are the members of `Node` with the same
meaning; `submitting` holds the argument of the `SubmitBlock` call that is
asleep, which is the only place a call on the node stops half-way. Actions:

| action | code |
|---|---|
| `AddTransaction(t)` | `Node::AddTransaction`, the accepting path; a refusal changes nothing |
| `AcceptBlock(b)` | `Connection::cmd_blocks` with `unpack_blocks`; a block that does not link changes nothing |
| `ServingEnds` | a request ends the process: an assertion of `unpack_blocks`, an exception, SIGPIPE; Connection says when |
| `CreateEmptyBlock`, `CreateFullBlock(t)` | `Node::CreateBlock` without or with enough pending transactions |
| `CreateTraps`, `CreateAborts(t)` | its two ways to end the process: the remainder by zero, the assertion of `Block::AddTransaction` |
| `SubmitAppends`, `SubmitRefuses` | `Node::SubmitBlock` after the sleep; the waiting time itself is left out, any call may come before its end. The `User("admin")` and the reward it signs behind the append (Node.cpp:60-62) are dropped by the code; their assertions, which fail for about one key or hash in 2^128, are left out |

`main` runs only the tests, but its functions and comments (main.cpp:44, 65;
Node.hpp:88-96) lay down what runs beside what: one thread serves, one builds.
The model takes the calls on a node as atomic; there is no lock in the code, and
two threads inside one call would be a data race whose outcome no model bounds.
The initial states are the genesis chain, or what `Tests.cpp` sets up: a second
block added with `AddBlock` and a pool filled directly.

**AppendOnlyTree** - what a node promises about its blocks: a tree in which one
block at a time is added below a block that is there. `Node` implements it under
`parent <- Parents`, where block i hangs from an earlier block whose hash it
names. It is a tree and not a list: see the run `linking`.

**Connection** - a serving node, the nodes that connect to it and consoles (the
"echo ..." of main.cpp:78; modelled from how the code treats them). TCP channels
are sequences of messages, and a `recv` may end in any place: `Packets` lists what
is then read first and what is left. Only the first command of a packet is executed and
whole ones behind it are lost, but a command that was cut leaves its tail as a packet of
its own. A cut getblocks or version (`Torn`) has the first digits of its height
(`CutHeights`), or none, on which `stoul` throws. Anything shorter, and every tail, is a
`Scrap`: it does nothing, ends the conversation, or ends the process, whichever of these
its bytes would have done. The peer's departure, the undefined `pop_back` on an
empty string that follows (the two outcomes the builds show: an endless loop, or
an abort), SIGPIPE, the exceptions of `getblocks` and the break on "_" are all
there. A node that serves does not connect as well: the outgoing socket is bound
to the port of the listening one and the constructor ends the process
(Connection.cpp:22-26).

**Network** - the threads of Node.hpp:88-90 and main.cpp:65-75 on one Node object:
the steps of Connection, and those of Node's builder and `AddTransaction`, through
`ServerNode == INSTANCE Node WITH chain <- chain[Server], ...`. What they share is
the server's chain and the process that any of them can end. The program leaves
open whether a builder runs (main.cpp:67), so `builds` is either. `OnNodeObject`
says what a call on the Node object can do to the variables of Connection;
`Beside` holds still what a step of the serving thread does not touch, and the
bounds of the instance.

**Wire** - the text: a sequence of atoms (the two delimiters, command words,
numbers, 64 digits, addresses, other bytes). `unpack_data` cuts at a delimiter,
`GetTransactionMetadata`, `GetBlockMetaData` and the packers of Connection.cpp
build the text, `BlocksIn`, `cmd_transactions_test` and `cmd_hosts_test` read it;
cmd_transactions and cmd_hosts read alike and nothing dispatches them.
`Kept` says what snprintf leaves of an amount in a buffer that is too short,
`AmountText` what a sign or a byte behind a short one does, `get_packet` what
one recv brings. Amounts are counted in the decimals "%f" shows, and the constant
`stof` gives what the nearest float is shown as: 100.300003 is sent as 100.30000, and
read as the float that was signed all the same. The text is followed to its atoms because
what the readers find hangs on them: which delimiter stands where, and which digits are
left of an amount. The buffer of an amount is longer than the decimals by more than three
(`BufferAssumption`: 10 and 6 in the code), and a packet holds fewer than twenty
numbers of 64 digits (`PacketAssumption`: 1024 bytes).

**Exchange** - one request and its reply: User objects are created, copied and
assigned (User.cpp), sign transactions that go into blocks or the pool, hosts are
added, the node packs what it is asked for in the format that is sent or in that
of the tests, and the other side reads the whole text (`ReadsText`) or a packet
with any beginning of it (`ReadsPacket`). A pool is a set and is packed `InOrder`, the
order of std::set, which is one order because no two amounts in it are equal.
Ports are integers. The address of a host is any text without a '|', since `AddHost`
looks at none of its characters (Node.cpp:76-77): a '-' may be in it, and then divides the
list in the wrong place. That it holds no '|' is an assumption (`HostsAssumption`).
`FloatAssumption` says what the proofs need of `stof`: what a float is shown as is read
as that float, a number between it and one that rounds to it rounds to it too, and
nothing is read as more than twice itself. A signature says who signed what; the
numbers are left to Ecdsa.

**HexText** - the conversions between the words of a Uint256, the bytes of a
Sha256Hash and their hexadecimal texts, for digits of `DigitBits` bits (4 in the code)
and words of `WORD_BYTES` bytes (4); `TextAssumption` says that a word fits in its bytes.

**Sha256** - one hasher object: `append` and `getHash` of Sha256.cpp, a step for
each turn of a loop. The compression function is represented by the text that
went through it. The buffer starts with any content, since the code does not
initialise it. The history variables `fed` and `message` hold what went into the
buffer and what the caller appended.

**ModOrder** - one call of `Ecdsa::multiplyModOrder` or `Uint256::reciprocal` on
numbers below a width, a step for each turn. `Wrap` is what `add` and `subtract`
keep of a sum, `Reduced` the conditional subtraction after it, `top` a history
variable with the number the bits read so far make. `reciprocal` ends in `aborted`
where its last assertion would fail.

**Uint256**, **FieldInt** - the same machine below that: words, carries, shifts,
comparison (`Uint256`), and a FieldInt with the calls on it. Every loop over the
words of the code sums up its terms from the lowest word on: `CarryInto(k, term)` is
the carry that goes into word k, a function of the terms below it, and `Ripple` the
words that are left. `multiply` takes a step for each row of the long multiplication
and for each part of the Barrett reduction, `reciprocal` one for each turn; the terms
of the three loops of `multiply` are `RowTerm`, `EstimateTerm`, `MultipleTerm` and
that of the subtraction behind them `RemainderTerm`. The modulus has the shape of the
real one, Base^NUM_WORDS - Base - Offset, with words of `WordBits` bits; the code's is
that of 8 words of 32 bits and an offset of 977.
**PrimeField** says what the methods promise.

**EllipticCurve**, **CurvePoint** - points and their methods as operators: the
affine group law of `Ramsch/EllipticCurve.cpp`, which serves as reference, and the
projective formulas with all special cases of `CurvePoint.cpp`, including the
windows of `multiply`.

**Ecdsa** - one transaction's signature. A user calls `CreateSignature`, which
calls `signWithHmacNonce` and, if that fails, itself; or a peer sends an address
and any two numbers. Then `Block::CheckSignature` calls `verify`. The HMAC is any
number, fixed for key and hash. Products and inverses modulo the order are taken
from ModOrder, field arithmetic from FieldInt.

| action | code |
|---|---|
| `CreateSignature` | `sign` succeeds in `User::CreateSignature`; with an outer call waiting, that one's unassigned `r` and `s` are what is returned |
| `CreateAgain` | the recursion after a failed `sign`, until the stack ends |
| `CreateAborts`, `CheckAborts` | the assertions of `multiplyModOrder` and `privateExponentToPublicPoint` |
| `CheckRefuses`, `CheckComputes`, `CheckCompares` | the early returns of `verify`, the sum of the two products, the comparison |

**NodeClaims**, **ConnectionClaims** - what comments and the repository's README
say and the code does not do, quoted.

**MC...** - the instances for TLC. **...Proofs**, **Facts** - lemmas and theorems.

## 3. What the runs check

`node` (MCNode.cfg) - one node, two users, four signed transactions of three amounts (two
of one amount, so that equivalence is not equality), a signed one of NaN and an unsigned
one; one kind of block has the NaN in front of another transaction, where it does the most
to `new_transactions`; `maxTransactions` in {-1, 0, 1, 2, 3}; the assertion limit 10 is
scaled to 1 so that 2 copies pass and 3 abort; chains up to 4 blocks, one more when a
builder is asleep at the bound. That is room for a block to arrive before and after
another while the builder sleeps, and for the late block to be followed by more.

* `TypeOK` - types, and no pool with two transactions of one amount.
* `HashPointsBack`, `IndexNotAhead` - late blocks have stale indices and name
  older blocks, but nothing hangs in the air or runs ahead.
* `InFlightAnchored`, `InFlightBuffered` - what the sleeping `SubmitBlock` will
  use stays meaningful whatever happens meanwhile.
* `OnlySigned` - no way in for an unsigned transaction.
* `AnnouncedFunded` - the balance test of an announced transaction stays true while
  the chain grows, unless its sender has been paid a NaN, which a peer can sign: from
  then on nothing is true of that balance.
* `SubmittedDisjoint` - the conflict test, through `buffer`, is as good as
  comparing the block itself with what was announced and with the blocks that were
  examined, also where a NaN among them keeps the others out of `new_transactions`.
* `ImplementsTree` - refinement of the abstract tree.
* `BuilderSurvives` - the builder ends the process only for a `maxTransactions`
  of zero or beyond the assertion, never for what peers bring into the pool or
  refusals take out of it.
* `QuietBuilderSucceeds` - if nothing comes in any more, refusals end.

`connection` (MCNetwork.cfg) - a server, one node, one console with three
commands; blocks built on any block of the chain; height 12, which is beyond every chain
here, and of which a cut leaves 1, which need not be. (From height 0 the server ends, as
it does beyond the chain: the genesis block has no transactions to send.) Every message
may be cut in any place. The server runs without a builder, or with one that appends
empty blocks or blocks of one transaction (and is refused, too). Beside a builder only
the console connects, and beside a builder or a node it sends one command, which is
enough for a request to fall into the sleep.

* `NetTypeOK` - types of Connection and Node, and the server serves a peer exactly
  while it is in `go`.
* `LinkedWithoutBuilder` - without a builder the chain is a list, whatever arrives.
* `AnswersInOrder` - a console gets answers to its own requests, in order, each at
  most once, wherever they were cut; the blocks are the chain from the height it asked
  for, or from a height that is the first digits of it.
* `NodesFallSilent` - two nodes do not answer each other for ever.
* `ServerIsNode` - the server's object implements Node, whatever the
  conversations do beside the builder: the model of the serving side in Node
  is all that the handlers of Connection do to it.

`exchange` (MCExchange.cfg) - two users with any keys, two blocks with up to three
transactions, a pool of two, hosts with a port of 0, 65000, -1 and one that is not
taken, one of them with a '-' in its address. The buffer of ten bytes for six decimals is
scaled to six bytes for two, and floats to a 16th from 100 on and to eights from 10000 on
(`MCstof`), which keeps what matters: amounts that leave a byte, that fill the buffer,
that lose a decimal which no float tells apart (123.12) or one that it does (123.19), a
zero, the point (12344), a digit (123456). Bytes nobody wrote are a delimiter in
at most one place, the same in every block of a packet. Users come before
transactions. Addresses of hosts fit their buffer (Node.cpp:74). What is read behind the
end of a vector of too few fields, or of a block with fewer than two transactions, is
undefined and taken to end the process.

* `TypeOK` - types, and a pool without two transactions of one amount.
* `OwnTransactionsVerify` - whatever was copied or assigned, what a user signs
  verifies under his address.
* `ArrivesAsSent` - whatever is cut off and whatever bytes stand in the text, what
  is read is a beginning of what was sent, up to amounts that became others and whose
  signature shows it; a packet brings one block at most. What was sent of a block is its
  first two transactions: a third is packed nowhere (Block.cpp:103).
* `ReadExactlyWhen` - exactly which replies can be read: no item, a minus sign, be it
  of an amount, a port or in an address, a wrong byte, or an amount that lost more digits
  than its float can spare (`Restored`) ends the reader, and so does every list of hosts
  or transactions in the format that is really sent (Connection.cpp:166-178,
  307-314), unlike the one the tests pack.

`hashing` (MCSha256.cfg) - blocks of a few bytes with a length field shorter than
a block, messages longer than two blocks, in chunks of several lengths: the mark
and the length field fall on every place of a block and over its end.

* `Streamed` - what was compressed and what waits in the buffer is what went in.
* `HashesPaddedMessage` - what `getHash` compressed is the message padded as the
  standard says.
* `HashReturns` - the loop `while (bufferLen != 56)` finds the fill it looks for.

`modular` (MCModOrder.cfg) - numbers of six bits, every factor, the odd moduli
above half the width (as the real prime and order are, so that sums carry) and
some small ones.

* `ProductSoFar`, `WholeFactorRead` - the product modulo the order, although no
  intermediate sum fits.
* `LoopInvariant` - the comment at Uint256.cpp:137.
* `InverseFound` - after two turns for each bit the result is the inverse; the
  assertion at Uint256.cpp:170 fails only for numbers that have none.

`field` (MCFieldInt.cfg) - three words of two bits, all pairs of elements of the
field of 59. Three words have a lowest, a highest and one between.

* `RowsAddUp`, `BarrettEstimate` - the long multiplication row by row; the claims
  of the comments at FieldInt.cpp:70, 93, 116 on what fits where.
* `AssertionsHold` - the carries of every loop of `multiply` fit the word they are
  asserted or cast to (FieldInt.cpp:62, 87, 89, 111, 113, 123), and `reciprocal` on
  words does not abort (Uint256.cpp:146, 170).
* `ImplementsField` - each method does what PrimeField says of it.
* `TextAgrees` - on all numbers, hashes and texts of three words of two bytes with
  two one-bit digits: the conversions undo each other, and a hash is printed in
  the reverse of the byte order in which it counts as a number (Sha256Hash.hpp:8-18).

`signing` (MCEcdsa.cfg) - y^2 = x^3 + 18 modulo 43, a group of 31 points, numbers
of six bits. Both primes lie between half the width and the width, as those of
secp256k1 do; a point with x = 31 makes r zero. All nonces, all r and s, keys and
hashes at the edges.

* `CreatedVerifies` - what a user creates verifies and has a low s.
* `AcceptsExactlySignatures` - `verify` accepts the solutions of the signature
  equation and nothing else.
* `PointsAgree` - the projective sum is the affine one, and `normalize` finds it.
* `AbortsBeyondOrder` - the assertion in `multiplyModOrder` can fail while signing,
  but only for a hash not below the order.

Runs whose property is a statement of the repository and is violated:

| run | statement | what the code does |
|---|---|---|
| `arrived_blocks` | Node.hpp:72, new blocks with transactions of the block are looked for | the 1-based index is used as a 0-based position (Node.cpp:48): the first block that arrived is skipped |
| `refusal` | Node.hpp:72, "If not adds block to blockchain" | the announcement of a transaction before the block is built makes `SubmitBlock` refuse the block and drop the transaction |
| `linking` | README.md:21, hashes are checked before adding | `SimpleAddBlock` appends a stale block behind a newer one |
| `balances` | Block.hpp:35, the balance of the sender gets checked when adding the block to the blockchain | no way of adding a block looks at a balance, nor does the builder: only an announcement does, and it does not subtract what was spent (Node.cpp:94-101) |
| `accepting` | main.cpp:78, testing over a console | once a console has gone the loop in `go` never ends and nobody else is accepted |

Fairness: `WF_vars(Build)` - the builder is a `while(1)` whose only wait is a
bounded sleep; `WF_vars(ServerStep)` and `WF_vars(NodeStep(n))` - the loops of
`serve` and `go` wait for nothing but a socket on which something is there; Network
takes all three, one for each thread. The
run `hashing` assumes that a loop that has been entered goes on
(`WF_vars(Continue)`): it is sequential code that waits for nothing. The run
`accepting` also assumes that a console that is being served leaves, which
makes its claim weaker and the counterexample stronger. Nothing is assumed of
peers otherwise. Deadlock checking is off: the process may have ended, and a
server with an idle peer waits. `exchange` states no fairness: one request, one reply.

Seen in the models but not stated as properties: `buffer_transactions` is never
emptied; a block gets one transaction several times because the loop variables
hide one another (Node.cpp:23-25); a second command in one packet is lost; nobody
reacts on verack, which is sent without a '|' and for which `do_command` has an empty
case, although Connection.hpp:63 lists `cmd_verack` under "Reacts on reception of data";
`behind < 0` on an unsigned number is never true
(Connection.cpp:144), so a node that is behind does not ask for blocks.

Every property has a mutant, an operator next to the one it replaces, that the
property catches.

## 4. What is proved

For every value of the constants, from the named assumptions on them, which the
runs evaluate:

| theorem | states | from |
|---|---|---|
| `NodeProofs!TypeCorrect`, `ChainHangsTogether`, `IndicesStayBehind`, `FlightIsAnchored`, `FlightIsBuffered`, `SignaturesHold` | `TypeOK`, `HashPointsBack`, `IndexNotAhead`, `InFlightAnchored`, `InFlightBuffered`, `OnlySigned` | amounts are integers or NaN, start pools are pools of signed transactions, blocks on the wire have two transactions |
| `AnnouncedStayFunded` | `AnnouncedFunded` | also: an amount on the wire has no sign, or is a NaN |
| `AppendedIsDisjoint`, `BuilderKeepsRunning` | `SubmittedDisjoint`, `BuilderSurvives` | |
| `NodeImplementsTree` | the refinement `ImplementsTree` | |
| `NetworkProofs!LinkedUnlessBuilt` (`ServedChainsLinked` for Connection alone) | `LinkedWithoutBuilder` | start chains are linked; any number of nodes and consoles |
| `ServerImplementsNode`, `ServerChainSound` | `ServerIsNode`; Node's invariants, of the server's object | what Node assumes |
| `AnswersMatchRequests`, `NetworkTypes` | `AnswersInOrder`, `NetTypeOK` | |
| `ExchangeProofs!UsersCanSign`, `ExchangeTypes` | `OwnTransactionsVerify`, `TypeOK` | every set of keys, hosts, amounts and every buffer |
| `ItemsArriveAsSent`, `RepliesAreReadable` | `ArrivesAsSent`, `ReadExactlyWhen` | also: `BufferAssumption`, `PacketAssumption`, `HostsAssumption`, `FloatAssumption`; every byte behind a short amount is a delimiter or none |
| `Sha256Proofs!NoByteLost`, `HasherTypes`, `HashIsOfPaddedMessage` (and `HashCoversAll`) | `Streamed`, `TypeOK`, `HashesPaddedMessage` | the length field is shorter than a block |
| `ModOrderProofs!ResiduesStay`, `MultipliesModOrder`, `WholeFactor`, `ReciprocalInvariant`, `ReciprocalFinds` | `TypeOK`, `ProductSoFar`, `WholeFactorRead`, `LoopInvariant`, `InverseFound` | the width is 2^Bits, the moduli are odd and below it |
| `FieldIntProofs!TextsAgree` | `TextAgrees` | any number of words, bytes and bits |
| `FieldTypes`, `RowsAdd`, `EstimateHolds`, `NothingAsserts`, `ImplementsPrimeField` | `TypeOK`, `RowsAddUp`, `BarrettEstimate`, `AssertionsHold`, the refinement `ImplementsField` | any number and width of words, and `OffsetAssumption` |
| `EcdsaProofs!SignatureTypes`, `AbortsOnlyBeyondOrder` (and `CreatedIsLow`) | `TypeOK`, `AbortsBeyondOrder` | two primes, the order between the prime and its half; no hash is twice the order |
| `SumsAgree`, `SignaturesAccepted`, `CreatedAreAccepted` (and `AddRepresents`, `MultiplyRepresents`) | `PointsAgree`, `AcceptsExactlySignatures`, `CreatedVerifies` | also: A is zero, the base point is on the curve and has that order |
| `PointsAssociate` | the affine addition of `Ramsch/` is associative | the prime is above 3, A is zero, B is not |

`OffsetAssumption` says that the modulus Base^NUM_WORDS - Base - Offset is a prime
above half the width, and that the width's square divided by it is width + Base +
Offset, the number the code multiplies with (FieldInt.cpp:70). All of it
is true of secp256k1's 2^256 - 2^32 - 977: the square of 2^32 + 977 is less
than the modulus.

### The node

`IInv` is the conjunction of `ChainInv` (the chain is a
non-empty sequence of signed blocks with backward pointers and indices that are
not ahead), `PoolsInv`, `InFlightInv` and the two in-flight properties. None is
inductive alone: the chain keeps its pointers because the block in flight is
anchored (`InFlightFits`), that block is signed because the pools are, and the
pools are pools because `Insert` is (`InsertIntoPool`). Both ways of appending
are reduced to one lemma, `AppendFitting`. Chains hold opaque hashes, so a chain
is typed by its own range (`IsSequence`) and `AppendToSequence` gives the facts about
`Append` that the library states for typed sequences. `AppendedIsDisjoint` needs
`InFlightBuffered` and the transitivity of equivalence between numbers
(`EquivalentNumbers`); a NaN gets into an empty set only and then meets the first
transaction of any buffer, so it refuses the block (`HasFirst`: inserting one by one
leaves a buffer with a first element). `NodeImplementsTree`
shows that appending a fitting block changes no earlier parent.

`BuilderSurvives` rests on `OnlySigned` for the pool: the assertion on the
signature cannot fail; and an empty pool is enough only for zero transactions.

`AnnouncedFunded` compares a sum over all transactions of all blocks with one amount.
`Balance` and `Received` are folds, which the community modules define by a recursive
function on sets of positions; `ReceivedIsSum` and `BalanceIsSum` show that this function
exists (`FoldExists` of Facts), `SumTotals` that it is the sum from the first position on,
and `BalanceOfAppend` that a block more adds what it pays. The block of a peer pays nobody
less than nothing, because '-' ends a block on the wire (Connection.cpp:372) and an amount
with a sign never gets through (`UnsignedAssumption`); or it pays a NaN, and then
`PaidNaN` holds for good. A balance to which no NaN was paid is a number
(`ReceivedIsNumber`). The builder's block may hold a negative amount if
`Node::AddTransaction` was called with one, and then lowers a balance: the property holds
because `SubmitBlock` empties newTxs before it appends, and the next `AddTransaction`
looks at the chain of then.

### The network

`WireInv` says what is on the wire: nodes send nothing but
versions and veracks to each other, because `behind < 0` never holds
(`TalkIsIdle`), and consoles nothing but commands and blocks that Node takes into
account, of which there are more as the chain grows (`MoreBlocks`). With that each
step of the serving thread is an `AcceptBlock`, a `ServingEnds` or a stutter of
the server's Node (`TypedOutcome`), and the builder's steps are Node's by their
definition. `LinkedUnlessBuilt` needs only that nothing but the serving thread
writes to a chain while no builder runs. `ServerChainSound` carries the invariant of
NodeProofs over through the instance `Served`.

`AnswersInOrder` asks for an increasing map from answers to requests, and a packet
may swallow requests or the end of one, so the map is not known in advance. `ConversationInv`
(`Conversation`) keeps, for each console, what was asked, what is
unread and what was heard, with such a map into the part that was read (`Begun`: of a
request that was cut the tail is still unread, as a `Scrap`, and it may be answered
already); a new answer extends it by the request just executed. What a torn request is
answered with is an answer to the whole one, from a height that is the first digits of
its own (`TornReply`). `QueueInv` is needed beside it: who waits in
the backlog is not being served and has heard nothing, so that the greeting comes
first and once. An answer to getblocks stays a segment of the chain because the chain
only grows at its end. `ServeInv` ties the server to the peer it serves.

### Text and users

`UsersInv` says that every object's address belongs to its key, so whoever pays signs
what he pays; the pool is one because `Insert` keeps it so (`HeldInv`).

What arrives is a fact about text, proved without a bound on its length, on the number
of items or on the amounts. `unpack_data` is a recursive function, and two lemmas carry
everything: a text without the delimiter is one piece (`CutPlain`), and a delimiter cuts
what stands before it and what stands behind it each for itself (`CutSplit`). A packed item is a concatenation of
fields, each without a delimiter when its amounts are good (`GoodAmount`: no minus sign,
no delimiter behind a short amount), so `TransactionFields` and `BlockFields` read an
item off its text field by field, and also say what becomes of it when an amount is
not good. `JoinedPieces` does the same for the '-' between items. Where an address of a host has
a '-' of its own, what stands behind the last one is a piece with too few fields
(`DashInside`, `RestOfHost`), and one such piece ends the reader. From there
`BlocksRead`, `TransactionsRead` and `HostsRead` say for each reader exactly which packed
lists it reads, and what it makes of them; `SentTransactionsDie` and `SentHostsDie`, that
no list in the form that is really sent is read.

A packet may end inside a field. `BlocksInPacket` needs no case for every place: what
remains of an item keeps its first fields (`HeldByFirstFields`), and a second block does
not fit, because each has ten numbers of 64 digits (`BlockIsLong`, with
`PacketAssumption`).

What a buffer keeps of an amount is arithmetic on powers of ten (`TenTo`, `Digits`):
`KeptIsRestored` says that the float nearest to what `Kept` leaves is the amount itself
exactly when it is `Restored`, for every amount and every buffer, from `FloatAssumption`.
A signature covers the amount, so a transaction with another amount than was signed does
not verify (`SealedRead`): a cut block ends the reader and a cut transaction of the pool
is refused. That makes the invariants: `SealedInv`, everything that is paid, pooled or in
a block of the chain was signed by its sender for this amount; `PackedInv`, a reply is
what its handler makes of what the node holds; `TakenInv`, what was received is a reading
of that reply, of the whole text or of a packet. Both properties follow from these state
by state.

### The hasher

`Streamed` needs the shape of the buffer, and `HashCoversAll` an
invariant, `Aligned`, that ties the loops of `getHash` to the place in the block.
`PaddingInv` says for each loop what `fed` holds behind the message: the mark, zeros
that are fewer than a block, the bytes of the length that are already in. The length
field is a fold over its bytes; the proof shows it to be the digits of the number of
bits to the base 256 (`DividedTwice`).

### Numbers

For ModOrder, remainders are named by their quotients (`Multiple`), because `%` by
a variable is out of the provers' reach: the invariant says that number * top - z,
a * number - x and b * number - y are multiples of the modulus. `HalfOfMultiple`
(an odd number that divides twice something divides it) carries the halving,
`ReducedIsResidue` and `MinusIsResidue` the carries and borrows, and
`RemainderUnique` turns the quotients back into `%`. `FactorInv` adds that what has
been read of the factor and what is left make the factor. `GcdInv` shows that the
turns are enough: every turn at least halves x * y (`Shrinks`), and
that a common divisor of x and y stays one of the number and the modulus
(`DivisorsStay`), so the loop ends at 1 exactly for a number that has an inverse.

For FieldInt the state is words. A few lemmas say what the loops over words compute
as numbers (`CarryInto` is the floor of the terms so far by the power of the base;
`Ripple` is their sum modulo the width), and each method is then a fact about
numbers. `IInv` is `Residues`, `Control` (which locals exist in which phase), `RowsInv`
(the rows so far are the factor times the words so far, and the words above are zero:
without that a row would not end in a word that is free), `EstimateInv` and
`TurnsInv`. `BarrettEstimate` follows from the quotient in `OffsetAssumption`: what
the estimate leaves is less than twice the modulus, so one subtraction is enough, and
the borrow at FieldInt.cpp:123 is none or one. `TurnsInv` says that the loop of
`reciprocal` on words is the loop of ModOrder on the numbers the words stand for, an
instance `Gcd` of ModOrderProofs, whose step lemmas are used as they are. That
the modulus is prime gives the last assertion of `reciprocal`.

The conversions all put a number together from its parts (`Assembled`: words, bytes or
digits, the lowest first). `AssembledDigits` says that the number has the parts it was
made of, `AssembledFromDigits` that it is made of the parts it has. The rest is about
places: `DigitPlace` says in which byte of which word the digit at a place of the text is
found, `PlaceOfDigit` that every place is one of these, `DigitOfByte` that the digits of a
byte are digits of its word. A FieldInt is one of these numbers (`WordsFit`).

### Points and signatures

`InverseExists` shows that a prime leaves every residue but zero an inverse (the least
number a residue and the prime combine to divides the prime), so that the tables of
inverses are what their definition says. `MultiplySums` shows that the windows
of multiply and its table of multiples are functions on points that exist, whatever the
number of windows; no window looks up more than the table has (`WindowInTable`), because
their size divides the number of bits. `IInv` adds to the types who made the
signature (`Made`): the key of a user passed the assertion in
`User::AssignPrivatePublicKey`, so the one on an address cannot fail for
him. `ReducedIsResidue` follows the carry of `HashSum` through the width.

`Represents` ties the two implementations together: projective coordinates stand for
an affine point if x and y are its coordinates times z, modulo the prime. What vanishes
modulo the prime is a multiple of it (`Vanishes`), and a formula of the code is right if
a combination of vanishing differences is the difference of its two sides
(`Combine4`): `ChordStands` and `TwiceStands` find these combinations for the formulas
without division, `ThirdOnCurve` for the curve itself. `AddRepresents` follows case by
case, `MultiplyRepresents` from it along the windows, `ScalarIsTimes` for the doubling
and adding of the reference. From there on only multiples of the base point matter:
they depend on the number modulo the order (`OfOrder`), none below the order is the
identity (`NotIdentity`), and opposite ones have the same x (`OppositePoints`), which is
why either value of s will do. `TotalSolves` and `SolutionIsUnique` show that `verify`
computes the multiple by the one solution of the signature equation. `Verified` adds to
the invariant that a retry finds what the first call found (`Retried`).

Multiples need that the affine law is associative, special cases included
(`PointsAssociate`). The code's chord and tangent are one notion: `Meets` says that
a line of some slope meets the curve in two points, equal or not; there is one such
slope (`OneLine`), and with it the sum is the third point turned over
(`PlusByLine`). A sum can be undone (`Turned`, `Removed`, `Cancelled`). If no
operand is the identity, none of the four sums in (P + Q) + R = P + (Q + R) is of
opposite points, and neither outer sum is of equal ones, then four lines are given
(`TwoWays`), and the abscissas and the ordinates of the two results differ by
combinations of the equations of the lines (`SameAbscissa`, `SameOrdinate`):
identities of polynomials, whose cofactors the proof spells out. `MostSums` takes
opposite points back to cancellation. The outer tangents follow from sums already
done (`FourTimes`, `SumsMeet`). B is not zero by the discriminant, and 2 is not
because the prime is above 3.

### Induction

The library's induction theorems take an operator, which the provers cannot
instantiate; Facts states induction on sets of numbers instead (`Induction`,
`InductionUpTo`, from the well-foundedness of < on the naturals), from which a
recursive function on numbers or finite sets is shown to exist (`Recursion`,
`FiniteRecursion`, `FoldExists`), and with it the powers of two (`PowersOfTwo`), the
folds and the carries.

### Only model-checked

`HashReturns`, `NodesFallSilent`, `QuietBuilderSucceeds`: liveness under fairness is
beyond the prover. Every other property of the passing runs is a theorem.

## 5. Not modelled

`PROJECT.json` lists every part. Left out:

* the compression function of SHA-256, a fixed bit computation that published
  vectors check better; it is taken as injective;
* `getHmac`: the nonce in Ecdsa is any number, fixed for key and hash, which covers
  whatever it computes;
* names, ids and the registry of users, which nothing reads (the write behind the
  end of the registry is there, as a possible end of the process), and
  `CreateSignature(string)`, which nothing calls;
* `cmd_verack`, which nothing calls, and `connect_to_all`, whose first conversation
  does not end;
* `Blockchain::AddTransactionB` ("Ignore for now", called by nothing),
  `toCompressedPoint`, logging, socket options, and the input and output of `Ramsch/`;
* rounding and infinity in the sums of Node: a balance adds what has no sign, so both
  keep it from falling, which is all `AnnouncedFunded` needs; NaN in Exchange, whose users
  sign numbers;
* the assertions of `User("admin")` and of the reward at Node.cpp:60-62, see above;
* a '|' in the address of a host, see above; the exact bytes of a `Scrap`;
* data races inside one call on the Node object: there is no lock in the code, and
  no model bounds what they do.

## 6. Plan

1. *Done*: pools, chain, builder, serving; their theorems.
2. *Done*: the hasher, multi-word and modular arithmetic, the field, the curve,
   signatures; theorems about the hasher and the modular loops.
3. *Done*: the text of blocks, transactions, hosts, numbers and hashes; users; the
   host list; the serving thread and the builder on one object, which implements
   Node; theorems about them.
   *Done* as well: the answers of a server stay in the order of the questions; the
   words and carries of FieldInt, the Barrett estimate and the binary GCD; the padding
   of the hasher; the funds behind announced transactions.
   *Done*: the projective formulas and the windows of multiply against the affine law,
   what verify accepts, that what is created is accepted.
   *Done* too: theorems about the text of Exchange, for texts of any length.
