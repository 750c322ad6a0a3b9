SPECIFICATION Spec
CONSTANTS
    Entities <- TwoTables
    Searched = {"files"}
    Columns <- TwoColumns
    Legacies <- Whole
    None = None
    MaxOpens = 2
    MaxDeaths = 1
INVARIANT OwnIsAccepted
