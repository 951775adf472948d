\* Two handshakes at once, any message presented to any end; two pre-shared keys.
SPECIFICATION Spec
CONSTANTS
    i1 = i1  i2 = i2  r1 = r1  r2 = r2  p1 = p1  p2 = p2
    e1 = e1  e2 = e2  e3 = e3  e4 = e4
    None = None
    Garbled = Garbled
    Initiators <- TwoInitiators
    Responders <- TwoResponders
    Psks <- TwoPsks
    Snapshots <- FourSnapshots
SYMMETRY HandshakeSymmetry
INVARIANT ResponderAgrees
INVARIANT InitiatorWasAnswered
INVARIANT CanComplete
PROPERTY ImplementsKeyAgreement
\* Every end is consumed in the end: the handshakes stop.
CHECK_DEADLOCK FALSE
