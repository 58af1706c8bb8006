CONSTANTS
    NaN = NaN
    k1 = k1
    k2 = k2
    home = home
    lan = lan
    bad = bad
    Hash0 = Hash0
    Decimals = 2
    BufferLen = 6
    PacketLen = 1024
    stof <- MCstof
    Keys <- MCKeys
    Hosts <- MCHosts
    OwnHost <- MCOwnHost
    Stales <- MCStales
    BlockAmounts <- MCBlockAmounts
    PoolAmounts <- MCPoolAmounts
    MaxUsers = 2
    MaxPool = 2
SPECIFICATION Spec
SYMMETRY KeySymmetry
CHECK_DEADLOCK FALSE
INVARIANTS
    TypeOK
    OwnTransactionsVerify
    ArrivesAsSent
    ReadExactlyWhen
