SPECIFICATION FairSpec
CONSTANTS
    NDirs = 4
    NFiles = 6
    Parent <- ParentOf
    Dir <- DirOf
    Kind <- KindOf
    Idents = {"here", "moved", "unversioned"}
    Versioned = {"here", "moved"}
    None = None
    Interval = 3
    MaxStops = 4
INVARIANTS
    IngestInv
    ExactlyBehind
PROPERTIES
    ImplementsCatalog
    WalkEnds
