\* A console command is served: a line typed while the inotify fd is also
\* readable is eventually read, even if the command was '0'.
CONSTANTS
    RootNames <- MCRootNames
    RootParent <- MCRootParent
    Names <- MCNames
    d1 = d1
    d2 = d2
    NewDirs <- MCNewDirs
    QMax = 3
    MaxOps = 2
    BufMax = 2
    CmdPaths <- MCCmdPaths
    MaxCmds = 1
SPECIFICATION Spec
PROPERTY
    ConsoleServed
CHECK_DEADLOCK FALSE
