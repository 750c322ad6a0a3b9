SPECIFICATION Spec
CONSTANTS
    RowsOf <- MCRows
    MaxRows <- MCMaxRows
    Topics <- MCTopics
    Contents = 3
    Canonical <- MCCanonical
    Unkeyed = {"network"}
    None = None
INVARIANTS
    SameIsSilent
    SilentMeansSame
    SwapSwaps
    ChangedDiffer
