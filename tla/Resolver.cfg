SPECIFICATION Spec
CONSTANTS
    MaxAtoms = 4
    Types = {"binaries", "daemons"}
    Atom <- FourAtoms
    Weight <- RuleWeight
    Graded = {"size"}
    Scale = 10
    MaxBucket = 2
    Unset = "unset"
    Blank = "blank"
    Conns = {c1, c2}
    None = None
    Thresholds = {9}
    MaxBags = 2
    MaxEvents = 6
SYMMETRY ConnSymmetry
INVARIANTS
    ResolverInv
    HistoryPlaces
    ScoreIsEarned
    ScoredAreComponents
PROPERTIES
    HistoryOnlyGrows
    SealCovers
    ImplementsPartition
