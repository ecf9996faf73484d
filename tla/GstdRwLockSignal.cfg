SPECIFICATION RwSpec
CONSTANTS
    None = None
    Messages = {m1, m2, m3, m4}
    ReadersLimit = 2
INVARIANT NothingLeftBehind
SYMMETRY MessageSymmetry
