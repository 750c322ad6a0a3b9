SPECIFICATION Spec
CONSTANTS
    Procs = {p, q}
    Builds = {b1, b2, b3, b4}
    Pages = {metadata, rows}
    None = None
    Mishaps = {}
INVARIANTS
    PublishInv
    ReplacementIsRead
PROPERTY ResolveKeepsOutputs
