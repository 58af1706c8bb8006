CONSTANTS
    NaN = NaN
    Server = S
    ClientNodes = {n1}
    Consoles = {c1}
    NoPeer = NoPeer
    g1 = g1
    w1 = w1
    Alice = Alice
    Bob = Bob
    WirePairs <- MCWirePairs
    StartChains <- MCStartChains
    Starts <- MCStarts
    Junk = {w1}
    Modulus = 65536
    MaxDigits = 5
    MaxChain = 3
    MaxSends = 3
    Transactions <- MCTransactions
    StartPools <- MCStartPools
    StartPairs <- MCStartPairs
    Leftovers = {g1}
    MaxTransactions <- MCMaxTransactions
    SizeLimit = 1
    Setups <- MCSetups
    BuilderPeers = {c1}
    MaxBesideSends = 1
SPECIFICATION NetFairSpec
CHECK_DEADLOCK FALSE
INVARIANTS
    NetTypeOK
    LinkedWithoutBuilder
    AnswersInOrder
PROPERTIES
    NodesFallSilent
    ServerIsNode
