\* Spec section 8: after every event has been processed the cache equals the trees.
CONSTANTS
    RootNames <- MCRootNames
    RootParent <- MCRootParent
    Names <- MCNames
    d1 = d1
    d2 = d2
    NewDirs <- MCNewDirs
    QMax = 3
    MaxOps = 3
    BufMax = 2
    CmdPaths = {}
    MaxCmds = 0
SYMMETRY MCSymmetry
SPECIFICATION Spec
INVARIANT QuiescentConsistency
CHECK_DEADLOCK FALSE
