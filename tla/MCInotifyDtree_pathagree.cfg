\* A handler finds, for the watch of its event, the pathname the directory had when the event was queued.
CONSTANTS
    RootNames <- MCRootNames
    RootParent <- MCRootParent
    Names <- MCNames
    d1 = d1
    d2 = d2
    NewDirs <- MCNewDirs
    QMax = 3
    MaxOps = 4
    BufMax = 2
    CmdPaths = {}
    MaxCmds = 0
SYMMETRY MCSymmetry
SPECIFICATION Spec
INVARIANT EventPathAgreement
CHECK_DEADLOCK FALSE
