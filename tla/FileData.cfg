SPECIFICATION Spec
CONSTANTS
  File = {"f", "g"}
  Client = {c1, c2}
  Class = {1, 2}
  HashSize = 4
  Family <- AllFamily
  MaxIndex = 2
  MaxChunk = 3
  MaxRequests = 2
  MaxShares = 1
  MaxEvents = 1
INVARIANT ChunkRefs
INVARIANT CopiesApart
INVARIANT RequestTracked
 
INVARIANT ReplayMatches
SYMMETRY Symmetry
CHECK_DEADLOCK FALSE
