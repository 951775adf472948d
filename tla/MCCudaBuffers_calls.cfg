\* Two handles, three addresses, batches of one, two or three states, three calls.
SPECIFICATION CudaSpec
CONSTANTS
    h1 = h1  h2 = h2  a1 = a1  a2 = a2  a3 = a3
    Handles <- TwoHandles
    Addresses <- ThreeAddresses
    Null = Null
    RotWords = 3
    BatchSizes = {1, 2, 3}
    MaxBlocks = 3
    MaxCalls = 3
SYMMETRY DeviceSymmetry
INVARIANT BuffersLive
INVARIANT StatesMoveTogether
