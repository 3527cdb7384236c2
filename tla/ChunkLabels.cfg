SPECIFICATION Spec
CONSTANTS
  s1 = s1
  s2 = s2
  k1 = k1
  k2 = k2
  k3 = k3
  NoServer = NoServer
  Servers = {s1, s2}
  Csids = {k1, k2, k3}
  Goal = 1
  HasLabels = TRUE
  VersionMod = 16
  ChunkVersionMod = 8
  Faulty = {}
  Removable = {}
  LateJobs = FALSE
  LongReplication = FALSE
  BirthOps = {"CREATE"}
  MaxVersion = 6
  MaxWrites = 2
  MaxDrops = 1
SYMMETRY FullSymmetry
INVARIANTS ReadableIsFresh
