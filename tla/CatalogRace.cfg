SPECIFICATION Spec
CONSTANTS
    Run = {r1, r2}
    Importer = {}
    Units = {u1, u2}
    ErrorsFit = TRUE
    None = None
SYMMETRY Symmetry
CHECK_DEADLOCK FALSE
INVARIANTS
    NoRunAbandoned
