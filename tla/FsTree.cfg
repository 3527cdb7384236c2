SPECIFICATION Spec
CONSTANT Inode = {1, 2, 3, 4}
CONSTANT Name <- MCName
CONSTANT Data = {1}
CONSTANT Limit = {1}
CONSTANT KeepEmptyFilesInTrash = TRUE
CONSTANT MaxOpen = 1
CONSTANT MaxRare = 1
 
INVARIANT StatsExact
INVARIANT InodesAccounted
 
PROPERTY OpenInodeStable
CHECK_DEADLOCK FALSE
