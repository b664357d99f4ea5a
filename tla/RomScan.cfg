SPECIFICATION FairSpec
CONSTANTS
    Consoles <- MCConsoles
    Dirs <- MCDirs
    ConsoleOf <- MCConsoleOf
    MaxActivities = 3
    MaxScans = 3
INVARIANTS DisabledWhileScanning DialogIsCurrent FoundIsWanted
PROPERTIES ButtonComesBack
\* The process may have crashed, or the bounds be reached.
CHECK_DEADLOCK FALSE
