SPECIFICATION Spec
CONSTANTS
    N = 3
    Kind <- ShortBuild
    Inputs = {a, b}
    Tokens = {t1, t2, t3, t4}
    None = None
    Entries = {"cli", "api", "rerun"}
    StartPhases = {0, 1, 3}
    Interventions = {"fresh", "remove_output", "remove_checkpoint"}
    LegacyBuilds = TRUE
    MaxFaults = 2
    MaxVersions = 2
SYMMETRY Interchangeable
INVARIANTS
    VerifiedIsClean
    NoEvidenceWhileBuilding
