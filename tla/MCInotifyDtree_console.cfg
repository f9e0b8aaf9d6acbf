\* Safety of event processing, renames, zaps and rebuilds, with up to four
\* mutations and one operator command ('a', 'z', '0' or 'q') racing them.
CONSTANTS
    RootNames <- MCRootNames
    RootParent <- MCRootParent
    Names <- MCNames
    d1 = d1
    d2 = d2
    NewDirs <- MCNewDirs
    QMax = 3
    MaxOps = 4
    BufMax = 2
    CmdPaths <- MCCmdPaths
    MaxCmds = 1
SYMMETRY MCSymmetry
SPECIFICATION Spec
INVARIANTS
    TypeOK
    CacheWatchesAccounted
    ReinitRebuildsTree
\* Once the mutators have done MaxOps operations and the queue is empty the
\* program blocks in select() for good, as the real one does.
CHECK_DEADLOCK FALSE
