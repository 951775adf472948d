\* The chunks of one parallel packet, against the documented binding by the root.
SPECIFICATION SystemSpec
CONSTANTS
    s1 = s1  s2 = s2  s3 = s3  s4 = s4  s5 = s5
    None = None  Failed = Failed  Err = Err
    ChunkSize = 2
    Group = 2
    LenMod = 11
    Snapshots <- FiveSnapshots
    Symbols <- PlainSymbols
    Jobs <- ChunkJobs
    Prepared <- SixQubits
    MinSifted = 3
    CheckPart = 2
    MinCheck = 2
    Threshold = 50
INVARIANT ChunksBound
