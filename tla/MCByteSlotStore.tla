--------------------------- MODULE MCByteSlotStore ---------------------------
(* The slot store with three distinguishable records and every fault.      *)
EXTENDS ByteSlotStore
=============================================================================
