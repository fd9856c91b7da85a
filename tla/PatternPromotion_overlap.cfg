CONSTANTS
    p1 = p1  p2 = p2
    a = a  b = b  c = c
    f1 = f1  f2 = f2
    Procs <- MCProcs
    Patterns <- MCPatterns
    Fingerprints = {f1, f2}
    None = None
    MaxCommands = 3
    MaxCrashes = 1
SPECIFICATION Spec
SYMMETRY Symm
INVARIANTS TypeOK SupersessionLinked Auditable
CHECK_DEADLOCK FALSE
