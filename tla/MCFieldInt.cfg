SPECIFICATION Spec
CONSTANTS
    NUM_WORDS = 3
    WordBits = 2
    Offset = 1
    WORD_BYTES = 2
    DigitBits = 1
INVARIANTS
    TypeOK
    RowsAddUp
    BarrettEstimate
    AssertionsHold
    TextAgrees
PROPERTIES
    ImplementsField
