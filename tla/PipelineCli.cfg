SPECIFICATION FairSpec
CONSTANTS
    N = 4
    Kind <- SanitizedBuild
    Inputs = {a, b}
    Tokens = {t1, t2, t3}
    None = None
    Entries = {"cli"}
    StartPhases = {0}
    Interventions = {}
    LegacyBuilds = TRUE
    MaxFaults = 3
    MaxVersions = 3
INVARIANTS
    TypeOK
    VerifiedIsComplete
    CompletePhaseIsDurable
    CrashedPhaseIsResumed
    OneRunPerOutput
    KeyOutlivesIdentity
    InterruptedIsResumable
PROPERTIES
    CheckpointKeepsItsRun
    InterruptedBuildFinishes
