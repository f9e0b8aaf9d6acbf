\* Safety with nested roots "r" and "r/s": renames that move an inner root;
\* and every batch read() returns is eventually consumed, under weak
\* fairness of the event loop.
CONSTANTS
    RootNames <- NestedRootNames
    RootParent <- NestedRootParent
    Names <- NestedNames
    d1 = d1
    d2 = d2
    NewDirs <- NestedNewDirs
    QMax = 3
    MaxOps = 3
    BufMax = 2
    CmdPaths = {}
    MaxCmds = 0
SPECIFICATION Spec
INVARIANTS
    TypeOK
    CacheWatchesAccounted
    ReinitRebuildsTree
PROPERTY BufferDrains
\* Once the mutators have done MaxOps operations and the queue is empty the
\* program blocks in select() for good, as the real one does.
CHECK_DEADLOCK FALSE
