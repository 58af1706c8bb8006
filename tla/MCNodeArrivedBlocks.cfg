CONSTANTS
    NaN = NaN
    Alice = Alice
    Bob = Bob
    g1 = g1
    g2 = g2
    Transactions <- MCTransactions
    WirePairs <- MCWirePairs
    StartPools <- MCStartPools
    StartPairs <- MCStartPairs
    Junk = {g1}
    MaxTransactions <- MCMaxTransactions
    SizeLimit = 1
    MaxChain = 3
SPECIFICATION Spec
CHECK_DEADLOCK FALSE
PROPERTY
    ArrivedBlocksExamined
