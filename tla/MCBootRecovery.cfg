SPECIFICATION FairSpec
CONSTANTS
    Order <- MCOrder
    Eager = {"Settings"}
    Lazy = {"RecentBooks", "Opds"}
    None = None
    MaxMishaps = 2
INVARIANTS
    TypeOK
    SkipsExactlyTheCulprits
    NoStageCrashesTwice
PROPERTIES
    FilesArePreserved
    BootLoopEnds
