\* Two challenges, two proofs, clocks off by one either way.
SPECIFICATION Spec
CONSTANTS
    n1 = n1  n2 = n2  b1 = b1
    Altered = Altered
    Nonces <- TwoNonces
    Bodies <- OneBody
    MaxDrift = 3
    MaxSkew = 1
    MaxTime = 6
    MaxProofs = 2
SYMMETRY NonceSymmetry
INVARIANT AcceptedFresh
INVARIANT AcceptedRecent
INVARIANT AcceptedInOrder
INVARIANT PromptIsVerified
