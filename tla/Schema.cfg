SPECIFICATION Spec
CONSTANTS
    Entities <- TwoTables
    Searched = {"files"}
    Columns <- TwoColumns
    Legacies <- Databases
    None = None
    MaxOpens = 3
    MaxDeaths = 2
INVARIANTS
    SchemaInv
    OpenedIsCurrent
    UnbrokenIsAccepted
PROPERTY NothingIsLost
