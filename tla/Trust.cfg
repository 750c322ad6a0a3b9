CONSTANTS
    Queries = {q1, q2}
    Execs = {e1}
    Resolvers = {r1}
    Contents = {clean, dirty, unkeyed}
    Permitted = {clean, dirty}
    Clean = {clean}
    None = None
SPECIFICATION Spec
INVARIANTS
    TrustInv
    EvidenceIsCurrent
    PendingIsRevoked
    NoIdleLock
