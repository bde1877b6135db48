SPECIFICATION Spec
CONSTANTS
    Conns = {c1, c2}
    Ids = {i1}
    Sizes = {1, 2}
    MaxBytes = 2
    MaxUploads = 2
    None = None
SYMMETRY Symmetry
INVARIANTS TypeOK SpoolAccounted CommitOwnsFile SuccessIsReal
