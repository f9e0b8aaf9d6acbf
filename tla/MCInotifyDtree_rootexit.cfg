\* Spec section 8 boundary: removing or moving away the last root ends the program.
CONSTANTS
    RootNames <- MCRootNames
    RootParent <- MCRootParent
    Names <- MCNames
    d1 = d1
    d2 = d2
    NewDirs <- MCNewDirs
    QMax = 3
    MaxOps = 3
    BufMax = 2
    CmdPaths = {}
    MaxCmds = 0

SPECIFICATION Spec
PROPERTY RootsGoneExits
CHECK_DEADLOCK FALSE
