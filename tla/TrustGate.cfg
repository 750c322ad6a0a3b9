CONSTANTS
    Queries = {}
    Execs = {e1}
    Resolvers = {}
    Contents = {clean, dirty, unkeyed}
    Permitted = {clean, dirty}
    Clean = {clean}
    None = None
SPECIFICATION Spec
INVARIANTS
    VerifiedPassedGate
