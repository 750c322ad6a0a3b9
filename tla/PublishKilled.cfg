SPECIFICATION Spec
CONSTANTS
    Procs = {p}
    Builds = {b1, b2, b3}
    Pages = {metadata, rows}
    None = None
    Mishaps = {"killed"}
INVARIANT ReplacementIsRead
