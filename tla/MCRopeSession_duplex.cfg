\* Two directions under one secret; packets of one are presented to the other.
SPECIFICATION Spec
CONSTANTS
    ab = ab  ba = ba  b1 = b1  b2 = b2  t1 = t1  t2 = t2  m1 = m1
    Contexts <- TwoContexts
    Bytes <- TwoBytes
    Times <- OneTime
    Bodies <- OneBody
    MaxCounter = 2
    MaxFaults = 2
INVARIANT KeysNeverReused
PROPERTY ImplementsOrderedDelivery
