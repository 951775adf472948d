\* Two lanes, four-byte words, a rate of three words; hash, MAC, KDF and mixing calls.
SPECIFICATION FairSpec
CONSTANTS
    Lanes <- TwoLanes
    WordBytes = 4
    Rate = 12
    FullRounds = 32
    KdfRounds = 20
    Jobs <- AllCalls
INVARIANT AbsorbsPadded
INVARIANT ConsumesMessage
INVARIANT OutputsMatchScalar
INVARIANT PaddingSeparates
PROPERTY Finishes
CHECK_DEADLOCK FALSE
