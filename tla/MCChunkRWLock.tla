---- MODULE MCChunkRWLock ----
(***************************************************************************)
(* ChunkRWLock with three threads on two chunks and a list of free blocks  *)
(* that overflows at once, so that blocks are freed, kept and recycled.    *)
(***************************************************************************)
EXTENDS ChunkRWLock
====
