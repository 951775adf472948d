---------------------------- MODULE MCCudaBuffers ----------------------------
(* Constants of the model-checking run of CudaBuffers. *)
EXTENDS CudaBuffers, TLC

CONSTANTS h1, h2, a1, a2, a3

TwoHandles == {h1, h2}
ThreeAddresses == {a1, a2, a3}

(* Handles and addresses are only ever compared. *)
DeviceSymmetry == Permutations(TwoHandles) \cup Permutations(ThreeAddresses)
=============================================================================
