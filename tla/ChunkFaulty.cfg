SPECIFICATION Spec
CONSTANTS
  s1 = s1
  s2 = s2
  k1 = k1
  k2 = k2
  NoServer = NoServer
  Servers = {s1, s2}
  Csids = {k1, k2}
  Goal = 2
  HasLabels = FALSE
  VersionMod = 16
  ChunkVersionMod = 8
  Faulty = {s1}
  Removable = {}
  LateJobs = FALSE
  LongReplication = FALSE
  BirthOps = {"CREATE"}
  MaxVersion = 6
  MaxWrites = 1
  MaxDrops = 1
SYMMETRY ConnectionSymmetry
INVARIANTS TypeOK IdleNotBusy
