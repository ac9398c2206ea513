--------------------------- MODULE MCChunkLedger ---------------------------
(* Model-checking instances of ChunkLedger: interchangeable bins.          *)
EXTENDS ChunkLedger, TLC

BinSymmetry == Permutations(Bins)
=============================================================================
