\* One direction; two gathers can return the same bytes or the same time;
\* four encodes; two corrupted packets; a transport that keeps presenting the awaited packet.
SPECIFICATION FairSpec
CONSTANTS
    ab = ab  ba = ba  b1 = b1  b2 = b2  t1 = t1  t2 = t2  m1 = m1
    Contexts <- OneContext
    Bytes <- TwoBytes
    Times <- TwoTimes
    Bodies <- OneBody
    MaxCounter = 4
    MaxFaults = 2
INVARIANT DeliveredInOrder
INVARIANT SyncedWithoutFaults
INVARIANT GapStopsReceiver
PROPERTY AcceptedMeansSynced
PROPERTY DivergenceIsPermanent
PROPERTY PacketsArrive
