SPECIFICATION Spec
CONSTANTS
    p = p
    q = q
    t1 = t1
    t2 = t2
    u1 = u1
    Procs = {p, q}
    Threads = {t1, t2, u1}
    ProcOf <- TwoAndOne
    Inodes = {i1, i2}
    None = None
    MaxDepth = 2
INVARIANTS
    LeaseInv
    MutualExclusion
PROPERTY ImplementsLease
