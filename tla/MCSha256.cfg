SPECIFICATION FairSpec
CONSTANTS
    BLOCK_LEN = 6
    LENGTH_LEN = 2
    MaxLength = 33
    Chunks <- SomeChunks
    Garbage <- SomeGarbage
INVARIANTS
    TypeOK
    Streamed
    HashesPaddedMessage
PROPERTIES
    HashReturns
\* A caller that has the hash is done with the object.
CHECK_DEADLOCK FALSE
