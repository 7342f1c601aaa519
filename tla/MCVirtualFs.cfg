CONSTANTS
    Name = {a, b}
    FolderName = a
    FileName = b
    None = None
    WinPath <- MCPaths
    MaxInode = 3
    MaxHandles = 2
    MaxOps = 4
    MaxWinOps = 3
    MaxFaults = 1
SPECIFICATION FairVfs
INVARIANTS VfsTypeOK ReadIsFresh CachedIsFresh
PROPERTY ReadsAnswered
CHECK_DEADLOCK FALSE
