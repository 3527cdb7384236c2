--------------------------- MODULE MCChunkSystem ---------------------------
(***************************************************************************)
(* Instances of ChunkSystem for TLC.                                       *)
(***************************************************************************)
EXTENDS ChunkSystem, TLC

\* Connections are interchangeable, chunkservers too unless some are faulty.
ConnectionSymmetry == Permutations(Csids)
FullSymmetry == Permutations(Csids) \cup Permutations(Servers)

=============================================================================
