SPECIFICATION FairSpec
CONSTANTS
    Conns = {c1}
    Ids = {i1, i2}
    Sizes = {0, 2}
    MaxBytes = 2
    MaxUploads = 1
    None = None
PROPERTIES UploadEnds 
