CONSTANTS
    Server = S
    ClientNodes = {}
    Consoles = {c1, c2}
    NoPeer = NoPeer
    g1 = g1
    w1 = w1
    Alice = Alice
    Bob = Bob
    WirePairs <- MCWirePairs
    StartChains <- MCStartChains
    Starts = {}
    Junk = {w1}
    Modulus = 65536
    MaxDigits = 5
    MaxChain = 2
    MaxSends = 1
SPECIFICATION ServedConsolesLeave
CHECK_DEADLOCK FALSE
PROPERTIES
    ConsolesAccepted
