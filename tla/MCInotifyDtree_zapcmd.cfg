\* 'z' on a subtree whose zap stops at a dead watch: the command reports
\* failure but leaves live watches of the subtree in the cache.
CONSTANTS
    RootNames <- MCRootNames
    RootParent <- MCRootParent
    Names <- MCNames
    d1 = d1
    d2 = d2
    NewDirs <- MCNewDirs
    QMax = 3
    MaxOps = 3
    BufMax = 2
    CmdPaths <- MCCmdPaths
    MaxCmds = 1
SYMMETRY MCSymmetry
SPECIFICATION Spec
PROPERTY
    ZapCmdStopsWatching
CHECK_DEADLOCK FALSE
